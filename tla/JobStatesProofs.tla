---------------------------- MODULE JobStatesProofs ----------------------------
(***************************************************************************)
(* What holds of job_states for every number of jobs and clients, every    *)
(* cap and every lease.  The proofs rest on one inductive invariant,       *)
(* JobInv, and on lemmas about what each statement does to a row.          *)
(***************************************************************************)
EXTENDS JobStates, FiniteSetTheorems, TLAPS

(* What a status maps to. *)
LEMMA LifecycleType ==
  ASSUME NEW s \in NativeStatuses
  PROVE  LifecycleFor(s) \in LifecycleStates
BY DEF NativeStatuses, NativeToLifecycle, LifecycleFor, LifecycleStates

LEMMA ConstantTypes ==
  /\ FreshLease \in Nat /\ FreshLease > Lapsed /\ Lapsed \in NoLease..FreshLease
  /\ NoLease \in NoLease..FreshLease /\ FreshLease \in NoLease..FreshLease
  /\ 0 \in 0..SweepAge
BY JobStatesAssumption DEF JobStatesAssumption, FreshLease, Lapsed, NoLease

(* What each statement makes of a row. *)
LEMMA ReclaimedRow ==
  ASSUME NEW r \in Row
  PROVE  /\ Reclaimed(r) \in Row
         /\ HoldsSlot(Reclaimed(r)) => Reclaimed(r) = r
         /\ ~LeakedSlot(r) /\ Reclaimed(r) # r => Reclaimed(r).error
         /\ r.error => Reclaimed(r).error
<1>1. CASE LeaseExpired(r)
  <2>1. Reclaimed(r) = [r EXCEPT !.lifecycle = "failed", !.status = "failed",
                                 !.error = TRUE, !.ended = TRUE, !.lease = NoLease]
    BY <1>1 DEF Reclaimed
  <2>2. "failed" \in NativeStatuses /\ "failed" \in LifecycleStates
    BY DEF NativeStatuses, NativeToLifecycle, LifecycleStates
  <2> QED BY <2>1, <2>2, ConstantTypes DEF Row, HoldsSlot
<1>2. CASE ~LeaseExpired(r) /\ LeakedSlot(r)
  <2>1. Reclaimed(r) = [r EXCEPT !.lifecycle = LifecycleFor(r.status), !.ended = TRUE]
    BY <1>2 DEF Reclaimed
  <2>2. LifecycleFor(r.status) \in LifecycleStates
    BY LifecycleType DEF Row
  <2>3. LifecycleFor(r.status) # "running"
    BY <1>2 DEF LeakedSlot, LifecycleFor, TerminalNativeStatuses, TerminalLifecycle
  <2> QED BY <2>1, <2>2, <2>3, <1>2 DEF Row, HoldsSlot
<1>3. CASE ~LeaseExpired(r) /\ ~LeakedSlot(r)
  BY <1>3 DEF Reclaimed
<1> QED BY <1>1, <1>2, <1>3

LEMMA GrantedRowType ==
  ASSUME NEW r \in Row
  PROVE  GrantedRow(r) \in Row
BY ConstantTypes DEF Row, GrantedRow, NativeStatuses, NativeToLifecycle, LifecycleStates

LEMMA OlderRow ==
  ASSUME NEW r \in Row
  PROVE  /\ Older(r) \in Row
         /\ Older(r).lifecycle = r.lifecycle /\ Older(r).status = r.status
         /\ Older(r).error = r.error
         /\ (Older(r).lease = NoLease) <=> (r.lease = NoLease)
<1> DEFINE lease == IF r.lease > Lapsed THEN r.lease - 1 ELSE r.lease
           age   == IF r.age < SweepAge THEN r.age + 1 ELSE r.age
<1>1. Older(r) = [r EXCEPT !.lease = lease, !.age = age]
  BY DEF Older
<1>2. r.lease \in NoLease..FreshLease /\ r.age \in 0..SweepAge
  BY DEF Row
<1>3. lease \in NoLease..FreshLease /\ (lease = NoLease <=> r.lease = NoLease)
  BY <1>2, ConstantTypes DEF NoLease, Lapsed
<1>4. age \in 0..SweepAge
  BY <1>2, JobStatesAssumption DEF JobStatesAssumption
<1> HIDE DEF lease, age
<1> QED BY <1>1, <1>3, <1>4 DEF Row

LEMMA InsertedRowType ==
  ASSUME NEW s \in NativeStatuses
  PROVE  InsertedRow(s) \in Row
BY LifecycleType, ConstantTypes DEF Row, InsertedRow

LEMMA UpdatedRowType ==
  ASSUME NEW r \in Row, NEW s \in NativeStatuses,
         NEW l \in [status : NativeStatuses, lifecycle : LifecycleStates, found : {TRUE}]
  PROVE  UpdatedRow(r, l, s) \in Row
<1>1. LifecycleFor(s) \in LifecycleStates
  BY LifecycleType
<1> QED BY <1>1 DEF Row, UpdatedRow, Flushed

------------------------------------------------------------------------------
(* Type correctness, with what is known of an upsert between its two halves. *)

\* Rows are never removed, so the row an upsert loaded is there at its flush.
TxnInv ==
  \A c \in Clients : txn[c] # NoTxn =>
    /\ txn[c].status \in SavedStatuses
    /\ txn[c].loaded.found => txn[c].job \in Stored

\* There may be infinitely many ids, but a table has finitely many rows.
JobInv == JobTypeOK /\ TxnInv /\ IsFiniteSet(Stored)

LEMMA JobInvInit == JobInit => JobInv
<1> SUFFICES ASSUME JobInit PROVE JobInv
  OBVIOUS
<1>1. LegacyRow \in Row
  BY ConstantTypes
  DEF LegacyRow, Row, NativeStatuses, NativeToLifecycle, LifecycleStates
<1>2. JobTypeOK
  BY <1>1, JobStatesAssumption DEF JobInit, JobTypeOK, Stored, JobStatesAssumption
<1>3. TxnInv
  BY DEF JobInit, TxnInv
<1>4. IsFiniteSet(Stored)
  BY JobStatesAssumption DEF JobInit, Stored, JobStatesAssumption
<1> QED BY <1>2, <1>3, <1>4 DEF JobInv

\* A step that keeps the ids and the transactions keeps TxnInv.
LEMMA TypeOfRows ==
  ASSUME JobInv, UNCHANGED txn,
         NEW f \in [Stored -> Row], rows' = f
  PROVE  JobInv'
BY DEF JobInv, JobTypeOK, TxnInv, Stored

LEMMA AllReclaimedType ==
  ASSUME JobTypeOK
  PROVE  AllReclaimed \in [Stored -> Row]
BY ReclaimedRow DEF JobTypeOK, AllReclaimed

LEMMA TryStartType ==
  ASSUME JobInv, NEW j \in Jobs, TryStart(j)
  PROVE  JobInv'
<1>1. AllReclaimed \in [Stored -> Row]
  BY AllReclaimedType DEF JobInv
<1>2. j \in Stored
  BY DEF TryStart, Denied
<1> DEFINE mine == IF HoldsSlot(AllReclaimed[j]) THEN AllReclaimed[j]
                                                 ELSE GrantedRow(AllReclaimed[j])
<1>3. mine \in Row
  BY <1>1, <1>2, GrantedRowType
<1>4. rows' = [AllReclaimed EXCEPT ![j] = mine]
  BY DEF TryStart
<1> HIDE DEF mine
<1>5. [AllReclaimed EXCEPT ![j] = mine] \in [Stored -> Row]
  BY <1>1, <1>3
<1>6. UNCHANGED txn
  BY DEF TryStart
<1> QED BY <1>4, <1>5, <1>6, TypeOfRows

LEMMA ReclaimType == JobInv /\ ReclaimExpired => JobInv'
BY AllReclaimedType, TypeOfRows DEF ReclaimExpired, JobInv

LEMMA UpsertReadType ==
  ASSUME JobInv, NEW c \in Clients, NEW j \in Jobs, NEW s \in SavedStatuses,
         UpsertRead(c, j, s)
  PROVE  JobInv'
<1> DEFINE loaded == IF j \in Stored
                     THEN [found |-> TRUE, status |-> rows[j].status,
                           lifecycle |-> rows[j].lifecycle]
                     ELSE [found |-> FALSE]
           t == [job |-> j, status |-> s, loaded |-> loaded]
<1>1. loaded \in Loaded
  BY DEF JobInv, JobTypeOK, Row, Loaded
<1>2. loaded.found => j \in Stored
  OBVIOUS
<1>3. txn' = [txn EXCEPT ![c] = t] /\ rows' = rows
  BY DEF UpsertRead
<1> HIDE DEF loaded
<1>4. t \in Txn
  BY <1>1, JobStatesAssumption DEF Txn, JobStatesAssumption
<1>5. t.status \in SavedStatuses /\ (t.loaded.found => t.job \in Stored)
  BY <1>2
<1> HIDE DEF t
<1>6. JobTypeOK'
  BY <1>3, <1>4 DEF JobInv, JobTypeOK, Stored
<1>7. TxnInv'
  BY <1>3, <1>5 DEF JobInv, JobTypeOK, TxnInv, Stored
<1>8. IsFiniteSet(Stored)'
  BY <1>3 DEF JobInv, Stored
<1> QED BY <1>6, <1>7, <1>8 DEF JobInv

LEMMA PutType ==
  ASSUME JobTypeOK, NEW j \in Jobs, NEW r \in Row
  PROVE  /\ Put(j, r) \in [Stored \cup {j} -> Row]
         /\ DOMAIN Put(j, r) = Stored \cup {j}
         /\ Put(j, r)[j] = r
         /\ \A k \in Stored \ {j} : Put(j, r)[k] = rows[k]
BY DEF JobTypeOK, Put

\* What the flush of t leaves in the table.
LEMMA FlushedRows ==
  ASSUME JobInv, NEW c \in Clients, UpsertFlush(c)
  PROVE  /\ txn' = [txn EXCEPT ![c] = NoTxn]
         /\ txn[c] \in Txn /\ txn[c].status \in SavedStatuses
         /\ \/ /\ txn[c].loaded.found /\ txn[c].job \in Stored
               /\ UpdatedRow(rows[txn[c].job], txn[c].loaded, txn[c].status) \in Row
               /\ rows' = Put(txn[c].job,
                             UpdatedRow(rows[txn[c].job], txn[c].loaded, txn[c].status))
            \/ rows' = rows
            \/ /\ txn[c].job \notin Stored
               /\ InsertedRow(txn[c].status) \in Row
               /\ rows' = Put(txn[c].job, InsertedRow(txn[c].status))
<1> DEFINE t == txn[c]
<1>1. t \in Txn /\ t # NoTxn
  BY DEF UpsertFlush, JobInv, JobTypeOK
<1>2. t.status \in SavedStatuses /\ (t.loaded.found => t.job \in Stored)
  BY <1>1 DEF JobInv, TxnInv
<1>3. t.status \in NativeStatuses /\ t.job \in Jobs /\ t.loaded \in Loaded
  BY <1>1 DEF Txn
<1>4. txn' = [txn EXCEPT ![c] = NoTxn]
  BY DEF UpsertFlush
<1>5. CASE t.loaded.found
  <2>1. t.loaded \in [found : {TRUE}, status : NativeStatuses, lifecycle : LifecycleStates]
    BY <1>3, <1>5 DEF Loaded
  <2>2. rows[t.job] \in Row
    BY <1>2, <1>5 DEF JobInv, JobTypeOK
  <2>3. UpdatedRow(rows[t.job], t.loaded, t.status) \in Row
    BY <1>3, <2>1, <2>2, UpdatedRowType
  <2> QED BY <1>1, <1>2, <1>4, <1>5, <2>3 DEF UpsertFlush
<1>6. CASE ~t.loaded.found
  <2>1. InsertedRow(t.status) \in Row
    BY <1>3, InsertedRowType
  <2> QED BY <1>1, <1>2, <1>4, <1>6, <2>1 DEF UpsertFlush
<1> QED BY <1>5, <1>6

\* A flush inserts its job's row, or no row.
LEMMA FlushedIds ==
  ASSUME JobInv, NEW c \in Clients, UpsertFlush(c)
  PROVE  Stored' = Stored \/ Stored' = Stored \cup {txn[c].job}
BY FlushedRows DEF Stored, Put

LEMMA UpsertFlushType ==
  ASSUME JobInv, NEW c \in Clients, UpsertFlush(c)
  PROVE  JobInv'
<1>1. JobTypeOK /\ txn[c].job \in Jobs
  BY FlushedRows DEF JobInv, Txn
<1>2. Stored \subseteq Stored' /\ Stored' \subseteq Jobs /\ rows' \in [Stored' -> Row]
  <2>1. ASSUME NEW r \in Row, rows' = Put(txn[c].job, r)
        PROVE  Stored \subseteq Stored' /\ Stored' \subseteq Jobs /\ rows' \in [Stored' -> Row]
    <3>1. rows' \in [Stored \cup {txn[c].job} -> Row]
      BY <1>1, <2>1, PutType
    <3>2. Stored' = Stored \cup {txn[c].job}
      BY <3>1 DEF Stored
    <3> QED BY <3>1, <3>2, <1>1 DEF JobTypeOK
  <2>2. CASE rows' = rows
    BY <1>1, <2>2 DEF JobTypeOK, Stored
  <2> QED BY <2>1, <2>2, FlushedRows
<1>3. txn' = [txn EXCEPT ![c] = NoTxn]
  BY FlushedRows
<1>4. JobTypeOK'
  BY <1>1, <1>2, <1>3 DEF JobTypeOK, Stored
<1>5. TxnInv'
  BY <1>2, <1>3, <1>1 DEF JobInv, TxnInv, JobTypeOK
<1>6. IsFiniteSet(Stored)'
  BY FlushedIds, FS_AddElement DEF JobInv
<1> QED BY <1>4, <1>5, <1>6 DEF JobInv

LEMMA HeartbeatType ==
  ASSUME JobInv, NEW j \in Jobs, Heartbeat(j)
  PROVE  JobInv'
<1>1. j \in Stored /\ rows \in [Stored -> Row]
  BY DEF Heartbeat, Running, JobInv, JobTypeOK
<1>2. [rows EXCEPT ![j].lease = FreshLease] \in [Stored -> Row]
  BY <1>1, ConstantTypes DEF Row
<1> QED BY <1>2, TypeOfRows DEF Heartbeat

LEMMA EndOrphanedType ==
  ASSUME JobInv, NEW old, NEW live, EndOrphanedQueued(old, live)
  PROVE  JobInv'
<1> DEFINE lifecycle == LifecycleFor("discarded")
           ended(r) == [r EXCEPT !.status = "discarded", !.ended = TRUE, !.error = TRUE,
                                 !.lifecycle = lifecycle]
<1>1. "discarded" \in NativeStatuses /\ lifecycle \in LifecycleStates
  BY LifecycleType DEF NativeStatuses, NativeToLifecycle
<1> HIDE DEF lifecycle
<1>2. ASSUME NEW r \in Row PROVE ended(r) \in Row
  BY <1>1 DEF Row
<1>3. rows' = [j \in Stored |-> IF Orphan(j, old, live) THEN ended(rows[j]) ELSE rows[j]]
  BY DEF EndOrphanedQueued, lifecycle
<1>4. \A j \in Stored : rows[j] \in Row
  BY DEF JobInv, JobTypeOK
<1> HIDE DEF ended
<1>5. rows' \in [Stored -> Row]
  BY <1>2, <1>3, <1>4
<1> QED BY <1>5, TypeOfRows DEF EndOrphanedQueued

LEMMA TickType == JobInv /\ Tick => JobInv'
<1> SUFFICES ASSUME JobInv, Tick PROVE JobInv'
  OBVIOUS
<1>1. rows' = [j \in Stored |-> Older(rows[j])]
  BY DEF Tick
<1>2. rows' \in [Stored -> Row]
  BY <1>1, OlderRow DEF JobInv, JobTypeOK
<1> QED BY <1>2, TypeOfRows DEF Tick

LEMMA RollbackType ==
  ASSUME JobInv, NEW c \in Clients, Rollback(c)
  PROVE  JobInv'
<1>1. /\ txn' = [txn EXCEPT ![c] = NoTxn] /\ rows' = rows
      /\ \A d \in Clients : txn'[d] = txn[d] \/ txn'[d] = NoTxn
  BY DEF Rollback, JobInv, JobTypeOK
<1>2. JobTypeOK'
  BY <1>1 DEF JobInv, JobTypeOK, Stored
<1>3. TxnInv'
  BY <1>1 DEF JobInv, TxnInv, Stored
<1>4. IsFiniteSet(Stored)'
  BY <1>1 DEF JobInv, Stored
<1> QED BY <1>2, <1>3, <1>4 DEF JobInv

LEMMA JobInvNext == JobInv /\ [JobNext]_jobVars => JobInv'
<1> SUFFICES ASSUME JobInv, [JobNext]_jobVars PROVE JobInv'
  OBVIOUS
<1>1. ASSUME NEW c \in Clients, NEW j \in Jobs, NEW s \in SavedStatuses, UpsertRead(c, j, s)
      PROVE  JobInv'
  BY <1>1, UpsertReadType
<1>2. ASSUME NEW c \in Clients, UpsertFlush(c) PROVE JobInv'
  BY <1>2, UpsertFlushType
<1>3. ASSUME NEW j \in Jobs, TryStart(j) PROVE JobInv'
  BY <1>3, TryStartType
<1>4. ASSUME NEW j \in Jobs, Heartbeat(j) PROVE JobInv'
  BY <1>4, HeartbeatType
<1>5. ASSUME NEW old \in SUBSET OldEnough, EndOrphanedQueued(old, {}) PROVE JobInv'
  BY <1>5, EndOrphanedType
<1>6. CASE Tick
  BY <1>6, TickType
<1>7. CASE ReclaimExpired
  BY <1>7, ReclaimType
<1>8. CASE UNCHANGED jobVars
  BY <1>8 DEF jobVars, JobInv, JobTypeOK, TxnInv, Stored
<1>9. ASSUME NEW c \in Clients, Rollback(c) PROVE JobInv'
  BY <1>9, RollbackType
<1> QED BY <1>1, <1>2, <1>3, <1>4, <1>5, <1>6, <1>7, <1>8, <1>9 DEF JobNext

\* Every behaviour of job_states keeps its types, and an upsert that loaded a
\* row finds it there when it flushes: rows are never removed.
THEOREM JobsWellTyped == JobSpec => []JobTypeOK
<1>1. JobSpec => []JobInv
  BY JobInvInit, JobInvNext, PTL DEF JobSpec
<1>2. JobInv => JobTypeOK
  BY DEF JobInv
<1> QED BY <1>1, <1>2, PTL

------------------------------------------------------------------------------
(* Slots: a running row without a lease is one that the earlier release left  *)
(* behind.  It has run since the start, so an upsert that loaded it saw it    *)
(* running, and its flush will write another lifecycle state.                 *)

Leaseless(j) == j \in Running /\ rows[j].lease = NoLease

SeenRunning(j) ==
  \A c \in Clients : txn[c] # NoTxn /\ txn[c].job = j =>
    txn[c].loaded.found /\ txn[c].loaded.lifecycle = "running"

SlotsInv ==
  \A j \in Jobs : Leaseless(j) => j \in LegacyJobs /\ LeakedSlot(rows[j]) /\ SeenRunning(j)

LEMMA SlotsInvInit == JobInit => SlotsInv
<1> SUFFICES ASSUME JobInit, NEW j \in Jobs, Leaseless(j)
             PROVE  j \in LegacyJobs /\ LeakedSlot(rows[j]) /\ SeenRunning(j)
  BY DEF SlotsInv
<1>1. j \in LegacyJobs /\ rows[j] = LegacyRow
  BY DEF JobInit, Leaseless, Running, Stored
<1>2. LeakedSlot(LegacyRow)
  BY DEF LeakedSlot, LegacyRow, TerminalNativeStatuses, TerminalLifecycle,
         NativeStatuses, NativeToLifecycle
<1>3. SeenRunning(j)
  BY DEF JobInit, SeenRunning
<1> QED BY <1>1, <1>2, <1>3

\* A step after which no leaseless row is new or changed keeps SlotsInv, if
\* each upsert it begins has loaded the rows as they are.
LEMMA SlotsInvKept ==
  ASSUME SlotsInv,
         \A j \in Jobs : Leaseless(j)' =>
            /\ Leaseless(j)
            /\ rows'[j].status = rows[j].status
            /\ SeenRunning(j) => SeenRunning(j)'
  PROVE  SlotsInv'
BY DEF SlotsInv, LeakedSlot, Leaseless, Running

LEMMA SlotsInvNext == JobInv /\ SlotsInv /\ [JobNext]_jobVars => SlotsInv'
<1> SUFFICES ASSUME JobInv, SlotsInv, [JobNext]_jobVars PROVE SlotsInv'
  OBVIOUS
<1> USE DEF JobInv, JobTypeOK
<1>1. ASSUME NEW c \in Clients, NEW j \in Jobs, NEW s \in SavedStatuses, UpsertRead(c, j, s)
      PROVE  SlotsInv'
  <2>1. rows' = rows
    BY <1>1 DEF UpsertRead
  <2>2. \A k \in Jobs : Leaseless(k)' <=> Leaseless(k)
    BY <2>1 DEF Leaseless, Running, Stored
  <2>3. ASSUME NEW k \in Jobs, Leaseless(k), SeenRunning(k) PROVE SeenRunning(k)'
    <3>1. \A d \in Clients \ {c} : txn'[d] = txn[d]
      BY <1>1 DEF UpsertRead
    <3>2. CASE k = j
      <4>1. j \in Stored /\ rows[j].lifecycle = "running"
        BY <3>2, <2>3 DEF Leaseless, Running
      <4>2. txn'[c].loaded = [found |-> TRUE, status |-> rows[j].status,
                              lifecycle |-> rows[j].lifecycle]
        BY <1>1, <4>1 DEF UpsertRead
      <4> QED BY <4>1, <4>2, <3>1, <2>3 DEF SeenRunning
    <3>3. CASE k # j
      <4>1. txn'[c].job = j
        BY <1>1 DEF UpsertRead
      <4> QED BY <4>1, <3>1, <3>3, <2>3 DEF SeenRunning
    <3> QED BY <3>2, <3>3
  <2> QED BY <2>1, <2>2, <2>3, SlotsInvKept
<1>2. ASSUME NEW c \in Clients, UpsertFlush(c) PROVE SlotsInv'
  <2> DEFINE t == txn[c]
  <2>1. txn' = [txn EXCEPT ![c] = NoTxn] /\ t # NoTxn /\ t \in Txn
    BY <1>2, FlushedRows DEF UpsertFlush
  <2>2. \A k \in Jobs : SeenRunning(k) => SeenRunning(k)'
    BY <2>1 DEF SeenRunning
  <2>3. LifecycleFor(t.status) # "running"
    BY <1>2, FlushedRows, OnlyGrantsRun
  <2>4. ASSUME NEW k \in Jobs, Leaseless(k)'
        PROVE  Leaseless(k) /\ rows'[k].status = rows[k].status
    <3>1. CASE rows' = rows
      BY <3>1, <2>4 DEF Leaseless, Running, Stored
    <3>2. CASE t.job \notin Stored /\ rows' = Put(t.job, InsertedRow(t.status))
      <4>1. InsertedRow(t.status).lifecycle # "running"
        BY <2>3 DEF InsertedRow
      <4> QED BY <2>4, <3>2, <4>1 DEF Leaseless, Running, Stored, Put
    <3>3. CASE /\ t.loaded.found /\ t.job \in Stored
               /\ rows' = Put(t.job, UpdatedRow(rows[t.job], t.loaded, t.status))
      <4> DEFINE cur == rows[t.job]
                 new == UpdatedRow(cur, t.loaded, t.status)
      <4>1. cur \in Row
        BY <3>3
      <4>2. new.lease = cur.lease
        BY <4>1 DEF UpdatedRow, Row
      <4>3. new.lifecycle = "running" =>
              cur.lifecycle = "running" /\ t.loaded.lifecycle # "running"
        BY <4>1, <2>3 DEF UpdatedRow, Row, Flushed
      <4>4. t.loaded.lifecycle # "running" => ~Leaseless(t.job)
        BY <2>1, <3>3 DEF SlotsInv, SeenRunning, Txn
      <4>5. ~(new.lifecycle = "running" /\ new.lease = NoLease)
        BY <4>2, <4>3, <4>4, <3>3 DEF Leaseless, Running
      <4> HIDE DEF new
      <4> QED BY <2>4, <3>3, <4>5 DEF Leaseless, Running, Stored, Put, new
    <3> QED BY <3>1, <3>2, <3>3, <1>2, FlushedRows
  <2> QED BY <2>2, <2>4, SlotsInvKept
<1>3. ASSUME NEW j \in Jobs, TryStart(j) PROVE SlotsInv'
  <2>1. txn' = txn /\ j \in Stored
    BY <1>3 DEF TryStart, Denied
  <2>2. \A k \in Jobs : SeenRunning(k) => SeenRunning(k)'
    BY <2>1 DEF SeenRunning
  <2>3. rows' = [AllReclaimed EXCEPT ![j] = IF HoldsSlot(@) THEN @ ELSE GrantedRow(@)]
    BY <1>3 DEF TryStart
  <2>4. ASSUME NEW k \in Jobs, Leaseless(k)'
        PROVE  Leaseless(k) /\ rows'[k].status = rows[k].status
    <3>1. k \in Stored /\ Reclaimed(rows[k]) \in Row
      BY <2>3, <2>4, ReclaimedRow DEF Leaseless, Running, Stored, AllReclaimed
    <3>2. rows'[k] = Reclaimed(rows[k]) \/ rows'[k] = GrantedRow(Reclaimed(rows[k]))
      BY <2>1, <2>3, <3>1 DEF AllReclaimed
    <3>3. GrantedRow(Reclaimed(rows[k])).lease # NoLease
      BY <3>1, ConstantTypes DEF GrantedRow, Row, NoLease, Lapsed
    <3>4. rows'[k] = Reclaimed(rows[k]) /\ HoldsSlot(Reclaimed(rows[k]))
      BY <2>4, <3>2, <3>3 DEF Leaseless, Running, HoldsSlot
    <3>5. rows'[k] = rows[k]
      BY <3>1, <3>4, ReclaimedRow
    <3> QED BY <2>4, <3>1, <3>5 DEF Leaseless, Running
  <2> QED BY <2>2, <2>4, SlotsInvKept
<1>4. ASSUME NEW j \in Jobs, Heartbeat(j) PROVE SlotsInv'
  <2>1. txn' = txn /\ j \in Stored /\ rows' = [rows EXCEPT ![j].lease = FreshLease]
    BY <1>4 DEF Heartbeat, Running
  <2>2. rows[j] \in Row /\ FreshLease # NoLease
    BY <2>1, ConstantTypes DEF NoLease, Lapsed
  <2>3. \A k \in Jobs : SeenRunning(k) => SeenRunning(k)'
    BY <2>1 DEF SeenRunning
  <2>4. ASSUME NEW k \in Jobs, Leaseless(k)'
        PROVE  Leaseless(k) /\ rows'[k].status = rows[k].status
    BY <2>1, <2>2, <2>4 DEF Leaseless, Running, Stored, Row
  <2> QED BY <2>3, <2>4, SlotsInvKept
<1>5. ASSUME NEW old \in SUBSET OldEnough, EndOrphanedQueued(old, {}) PROVE SlotsInv'
  <2>1. txn' = txn
    BY <1>5 DEF EndOrphanedQueued
  <2>2. \A k \in Jobs : SeenRunning(k) => SeenRunning(k)'
    BY <2>1 DEF SeenRunning
  <2>3. LifecycleFor("discarded") # "running"
    BY DEF LifecycleFor, NativeStatuses, NativeToLifecycle
  <2>4. ASSUME NEW k \in Jobs, Leaseless(k)'
        PROVE  Leaseless(k) /\ rows'[k].status = rows[k].status
    <3>1. k \in Stored /\ rows[k] \in Row
      BY <1>5, <2>4 DEF EndOrphanedQueued, Leaseless, Running, Stored
    <3>2. ~Orphan(k, old, {})
      BY <1>5, <2>3, <2>4, <3>1 DEF EndOrphanedQueued, Leaseless, Running, Row
    <3> QED BY <1>5, <2>4, <3>1, <3>2 DEF EndOrphanedQueued, Leaseless, Running
  <2> QED BY <2>2, <2>4, SlotsInvKept
<1>6. CASE Tick
  <2>1. txn' = txn /\ rows' = [j \in Stored |-> Older(rows[j])]
    BY <1>6 DEF Tick
  <2>2. \A k \in Jobs : SeenRunning(k) => SeenRunning(k)'
    BY <2>1 DEF SeenRunning
  <2>3. ASSUME NEW k \in Jobs, Leaseless(k)'
        PROVE  Leaseless(k) /\ rows'[k].status = rows[k].status
    BY <2>1, <2>3, OlderRow DEF Leaseless, Running, Stored
  <2> QED BY <2>2, <2>3, SlotsInvKept
<1>7. CASE ReclaimExpired
  <2>1. txn' = txn /\ rows' = AllReclaimed
    BY <1>7 DEF ReclaimExpired
  <2>2. \A k \in Jobs : SeenRunning(k) => SeenRunning(k)'
    BY <2>1 DEF SeenRunning
  <2>3. ASSUME NEW k \in Jobs, Leaseless(k)'
        PROVE  Leaseless(k) /\ rows'[k].status = rows[k].status
    <3>1. k \in Stored /\ rows'[k] = Reclaimed(rows[k]) /\ HoldsSlot(Reclaimed(rows[k]))
      BY <2>1, <2>3 DEF Leaseless, Running, Stored, AllReclaimed, HoldsSlot
    <3>2. rows'[k] = rows[k]
      BY <3>1, ReclaimedRow
    <3> QED BY <2>3, <3>1, <3>2 DEF Leaseless, Running
  <2> QED BY <2>2, <2>3, SlotsInvKept
<1>8. CASE UNCHANGED jobVars
  BY <1>8 DEF jobVars, SlotsInv, SeenRunning, Leaseless, Running, Stored, LeakedSlot
<1>9. ASSUME NEW c \in Clients, Rollback(c) PROVE SlotsInv'
  <2>1. rows' = rows /\ \A d \in Clients : txn'[d] = txn[d] \/ txn'[d] = NoTxn
    BY <1>9 DEF Rollback
  <2>2. \A k \in Jobs : SeenRunning(k) => SeenRunning(k)'
    BY <2>1 DEF SeenRunning
  <2>3. \A k \in Jobs : Leaseless(k)' <=> Leaseless(k)
    BY <2>1 DEF Leaseless, Running, Stored
  <2> QED BY <2>1, <2>2, <2>3, SlotsInvKept
<1> QED BY <1>1, <1>2, <1>3, <1>4, <1>5, <1>6, <1>7, <1>8, <1>9 DEF JobNext

\* store.py, _reclaim_leaseless_terminal_on: no admission slot is out of reach
\* of both reclaim paths, whatever upserts, grants, heartbeats and sweeps race.
THEOREM SlotsStayReclaimable == JobSpec => []SlotsReclaimable
<1>1. JobSpec => [](JobInv /\ SlotsInv)
  BY JobInvInit, JobInvNext, SlotsInvInit, SlotsInvNext, PTL DEF JobSpec
<1>2. JobInv /\ SlotsInv => SlotsReclaimable
  BY DEF SlotsInv, SlotsReclaimable, Leaseless, Running, JobInv, JobTypeOK
<1> QED BY <1>1, <1>2, PTL

------------------------------------------------------------------------------
(* Reasons: only a row of the earlier release can be reclaimed without one.   *)

LEMMA ReasonInit == JobInit => FailureCarriesReason
BY DEF JobInit, FailureCarriesReason, Stored

LEMMA ReasonNext ==
  ASSUME JobInv, SlotsInv, FailureCarriesReason, [JobNext]_jobVars
  PROVE  FailureCarriesReason'
<1> USE DEF JobInv, JobTypeOK
<1>1. ASSUME NEW c \in Clients, NEW j \in Jobs, NEW s \in SavedStatuses, UpsertRead(c, j, s)
      PROVE  FailureCarriesReason'
  BY <1>1 DEF UpsertRead, FailureCarriesReason, Stored
<1>2. ASSUME NEW c \in Clients, UpsertFlush(c) PROVE FailureCarriesReason'
  <2> DEFINE t == txn[c]
  <2>1. CASE rows' = rows
    BY <2>1 DEF FailureCarriesReason, Stored
  <2>2. CASE t.job \notin Stored /\ rows' = Put(t.job, InsertedRow(t.status))
    <3>1. InsertedRow(t.status).lifecycle = "failed" => InsertedRow(t.status).error
      BY DEF InsertedRow
    <3> QED BY <2>2, <3>1 DEF FailureCarriesReason, Stored, Put
  <2>3. CASE /\ t.loaded.found /\ t.job \in Stored
             /\ rows' = Put(t.job, UpdatedRow(rows[t.job], t.loaded, t.status))
    <3> DEFINE cur == rows[t.job]
               new == UpdatedRow(cur, t.loaded, t.status)
    <3>1. cur \in Row /\ (t.job \notin LegacyJobs /\ cur.lifecycle = "failed" => cur.error)
      BY <2>3 DEF FailureCarriesReason
    <3>2. /\ new.lifecycle = Flushed(LifecycleFor(t.status), t.loaded.lifecycle, cur.lifecycle)
          /\ new.error = (cur.error \/ LifecycleFor(t.status) = "failed")
      BY <3>1 DEF UpdatedRow, Row
    <3>3. t.job \notin LegacyJobs /\ new.lifecycle = "failed" => new.error
      BY <3>1, <3>2 DEF Flushed
    <3> HIDE DEF new
    <3> QED BY <2>3, <3>3 DEF FailureCarriesReason, Stored, Put, new
  <2> QED BY <2>1, <2>2, <2>3, <1>2, FlushedRows
<1>3. ASSUME NEW j \in Jobs, TryStart(j) PROVE FailureCarriesReason'
  <2>1. j \in Stored
        /\ rows' = [AllReclaimed EXCEPT ![j] = IF HoldsSlot(@) THEN @ ELSE GrantedRow(@)]
    BY <1>3 DEF TryStart, Denied
  <2>2. ASSUME NEW k \in Stored \ LegacyJobs, rows'[k].lifecycle = "failed" PROVE rows'[k].error
    <3>1. rows[k] \in Row /\ Reclaimed(rows[k]) \in Row
      BY ReclaimedRow
    <3>2. rows'[k] = Reclaimed(rows[k]) \/ rows'[k] = GrantedRow(Reclaimed(rows[k]))
      BY <2>1 DEF AllReclaimed
    <3>3. GrantedRow(Reclaimed(rows[k])).lifecycle # "failed"
      BY <3>1 DEF GrantedRow, Row
    <3>4. ~LeakedSlot(rows[k])
      BY DEF SlotsInv, Leaseless, Running, LeakedSlot
    <3>5. Reclaimed(rows[k]).lifecycle = "failed" => Reclaimed(rows[k]).error
      BY <3>1, <3>4, ReclaimedRow DEF FailureCarriesReason
    <3> QED BY <2>2, <3>2, <3>3, <3>5
  <2> QED BY <2>1, <2>2 DEF FailureCarriesReason, Stored, AllReclaimed
<1>4. ASSUME NEW j \in Jobs, Heartbeat(j) PROVE FailureCarriesReason'
  BY <1>4 DEF Heartbeat, Running, FailureCarriesReason, Stored, Row
<1>5. ASSUME NEW old \in SUBSET OldEnough, EndOrphanedQueued(old, {})
      PROVE  FailureCarriesReason'
  BY <1>5 DEF EndOrphanedQueued, FailureCarriesReason, Stored, Row
<1>6. CASE Tick
  BY <1>6, OlderRow DEF Tick, FailureCarriesReason, Stored
<1>7. CASE ReclaimExpired
  <2>1. ASSUME NEW k \in Stored \ LegacyJobs, Reclaimed(rows[k]).lifecycle = "failed"
        PROVE  Reclaimed(rows[k]).error
    BY <2>1, ReclaimedRow DEF SlotsInv, Leaseless, Running, LeakedSlot, FailureCarriesReason
  <2> QED BY <1>7, <2>1 DEF ReclaimExpired, FailureCarriesReason, Stored, AllReclaimed
<1>8. CASE UNCHANGED jobVars
  BY <1>8 DEF jobVars, FailureCarriesReason, Stored
<1>9. ASSUME NEW c \in Clients, Rollback(c) PROVE FailureCarriesReason'
  BY <1>9 DEF Rollback, FailureCarriesReason, Stored
<1> QED BY <1>1, <1>2, <1>3, <1>4, <1>5, <1>6, <1>7, <1>8, <1>9 DEF JobNext

\* store.py, upsert: "a terminal failure MUST carry a reason", unless the
\* release without the `discarded` mapping left the row.
THEOREM FailuresHaveReasons == JobSpec => []FailureCarriesReason
<1>1. JobInit => FailureCarriesReason
  BY ReasonInit
<1>2. JobInv /\ SlotsInv /\ FailureCarriesReason /\ [JobNext]_jobVars
        => FailureCarriesReason'
  BY ReasonNext
<1> QED BY <1>1, <1>2, JobInvInit, JobInvNext, SlotsInvInit, SlotsInvNext, PTL DEF JobSpec

------------------------------------------------------------------------------
(* The cap.  Only a grant adds to the running rows, and it counts them after  *)
(* its own reclaim and before it adds one.                                    *)

LEMMA RunningFinite ==
  ASSUME JobInv
  PROVE  IsFiniteSet(Running) /\ Cardinality(Running) \in Nat
<1>1. Running \subseteq Stored /\ IsFiniteSet(Stored)
  BY DEF JobInv, Running
<1> QED BY <1>1, FS_Subset, FS_CardinalityType

LEMMA CapKept ==
  ASSUME JobInv, CapRespected, Running' \subseteq Running
  PROVE  CapRespected'
<1>1. Cardinality(Running') <= Cardinality(Running) /\ Cardinality(Running') \in Nat
  BY RunningFinite, FS_Subset, FS_CardinalityType
<1>2. Cardinality(LegacyJobs) \in Nat /\ Cap \in Nat
  BY JobStatesAssumption, FS_Subset, FS_CardinalityType DEF JobStatesAssumption
<1> QED BY <1>1, <1>2, RunningFinite DEF CapRespected

LEMMA CapInit == JobInit => CapRespected
<1> SUFFICES ASSUME JobInit PROVE CapRespected
  OBVIOUS
<1>1. Running \subseteq LegacyJobs /\ IsFiniteSet(LegacyJobs)
  BY JobStatesAssumption DEF JobInit, Running, Stored, JobStatesAssumption
<1>2. Cardinality(Running) <= Cardinality(LegacyJobs)
  BY <1>1, FS_Subset
<1> QED BY <1>2 DEF CapRespected

LEMMA CapGrant ==
  ASSUME JobInv, CapRespected, NEW j \in Jobs, TryStart(j)
  PROVE  CapRespected'
<1> DEFINE held == {k \in Stored : HoldsSlot(AllReclaimed[k])}
<1>1. /\ j \in Stored
      /\ rows' = [AllReclaimed EXCEPT ![j] = IF HoldsSlot(@) THEN @ ELSE GrantedRow(@)]
      /\ HoldsSlot(AllReclaimed[j]) \/ SlotFree
  BY DEF TryStart, Denied
<1>2. held \subseteq Running
  BY ReclaimedRow DEF JobInv, JobTypeOK, AllReclaimed, HoldsSlot, Running
<1>3. DOMAIN AllReclaimed = Stored /\ Stored' = Stored
  BY <1>1 DEF AllReclaimed, Stored
<1>4. CASE HoldsSlot(AllReclaimed[j])
  <2>1. \A k \in Stored : rows'[k] = AllReclaimed[k]
    BY <1>1, <1>3, <1>4
  <2>2. Running' \subseteq held
    BY <1>3, <2>1 DEF Running, HoldsSlot
  <2> QED BY <1>2, <2>2, CapKept DEF JobInv
<1>5. CASE SlotFree
  <2>1. \A k \in Stored \ {j} : rows'[k] = AllReclaimed[k]
    BY <1>1, <1>3
  <2>2. Running' \subseteq held \cup {j}
    BY <1>3, <2>1 DEF Running, HoldsSlot
  <2>3. IsFiniteSet(held) /\ Cardinality(held) \in Nat
    BY <1>2, RunningFinite, FS_Subset, FS_CardinalityType DEF JobInv
  <2>4. IsFiniteSet(held \cup {j}) /\ Cardinality(held \cup {j}) <= Cardinality(held) + 1
    <3> HIDE DEF held
    <3>1. /\ IsFiniteSet(held \cup {j})
          /\ \/ Cardinality(held \cup {j}) = Cardinality(held)
             \/ Cardinality(held \cup {j}) = Cardinality(held) + 1
      BY <2>3, FS_AddElement
    <3> QED BY <2>3, <3>1
  <2>5. Cardinality(Running') <= Cardinality(held \cup {j})
    BY <2>2, <2>4, FS_Subset
  <2>6. Cardinality(Running') \in Nat /\ Cardinality(held \cup {j}) \in Nat
    BY <2>2, <2>4, FS_Subset, FS_CardinalityType
  <2>7. Cap = 0 \/ Cardinality(held) < Cap
    BY <1>5 DEF SlotFree
  <2>8. Cap \in Nat
    BY JobStatesAssumption DEF JobStatesAssumption
  <2> HIDE DEF held
  <2> QED BY <2>3, <2>4, <2>5, <2>6, <2>7, <2>8 DEF CapRespected
<1> QED BY <1>1, <1>4, <1>5

LEMMA CapNext == JobInv /\ CapRespected /\ [JobNext]_jobVars => CapRespected'
<1> SUFFICES ASSUME JobInv, CapRespected, [JobNext]_jobVars PROVE CapRespected'
  OBVIOUS
<1> USE DEF JobInv, JobTypeOK
<1>1. ASSUME NEW c \in Clients, NEW j \in Jobs, NEW s \in SavedStatuses, UpsertRead(c, j, s)
      PROVE  CapRespected'
  BY <1>1, CapKept DEF UpsertRead, Running, Stored
<1>2. ASSUME NEW c \in Clients, UpsertFlush(c) PROVE CapRespected'
  <2> DEFINE t == txn[c]
  <2>1. LifecycleFor(t.status) # "running"
    BY <1>2, FlushedRows, OnlyGrantsRun
  <2>2. CASE rows' = rows
    BY <2>2, CapKept DEF Running, Stored
  <2>3. CASE t.job \notin Stored /\ rows' = Put(t.job, InsertedRow(t.status))
    <3>1. InsertedRow(t.status).lifecycle # "running"
      BY <2>1 DEF InsertedRow
    <3> QED BY <2>3, <3>1, CapKept DEF Running, Stored, Put
  <2>4. CASE /\ t.loaded.found /\ t.job \in Stored
             /\ rows' = Put(t.job, UpdatedRow(rows[t.job], t.loaded, t.status))
    <3> DEFINE new == UpdatedRow(rows[t.job], t.loaded, t.status)
    <3>1. new.lifecycle = "running" => t.job \in Running
      BY <2>1, <2>4 DEF UpdatedRow, Row, Flushed, Running
    <3> HIDE DEF new
    <3> QED BY <2>4, <3>1, CapKept DEF Running, Stored, Put, new
  <2> QED BY <2>2, <2>3, <2>4, <1>2, FlushedRows
<1>3. ASSUME NEW j \in Jobs, TryStart(j) PROVE CapRespected'
  BY <1>3, CapGrant
<1>4. ASSUME NEW j \in Jobs, Heartbeat(j) PROVE CapRespected'
  BY <1>4, CapKept DEF Heartbeat, Running, Stored, Row
<1>5. ASSUME NEW old \in SUBSET OldEnough, EndOrphanedQueued(old, {}) PROVE CapRespected'
  <2>1. LifecycleFor("discarded") # "running"
    BY DEF LifecycleFor, NativeStatuses, NativeToLifecycle
  <2> DEFINE ended(k) ==
        [rows[k] EXCEPT !.status = "discarded", !.ended = TRUE, !.error = TRUE,
                        !.lifecycle = LifecycleFor("discarded")]
  <2>2. rows' = [k \in Stored |-> IF Orphan(k, old, {}) THEN ended(k) ELSE rows[k]]
    BY <1>5 DEF EndOrphanedQueued
  <2>3. \A k \in Stored : ended(k).lifecycle # "running"
    BY <2>1 DEF Row
  <2> HIDE DEF ended
  <2>4. Running' \subseteq Running
    BY <2>2, <2>3 DEF Running, Stored
  <2> QED BY <2>4, CapKept
<1>6. CASE Tick
  BY <1>6, OlderRow, CapKept DEF Tick, Running, Stored
<1>7. CASE ReclaimExpired
  <2>1. Running' \subseteq Running
    BY <1>7, ReclaimedRow DEF ReclaimExpired, AllReclaimed, Running, Stored, HoldsSlot
  <2> QED BY <2>1, CapKept
<1>8. CASE UNCHANGED jobVars
  BY <1>8, CapKept DEF jobVars, Running, Stored
<1>9. ASSUME NEW c \in Clients, Rollback(c) PROVE CapRespected'
  BY <1>9, CapKept DEF Rollback, Running, Stored
<1> QED BY <1>1, <1>2, <1>3, <1>4, <1>5, <1>6, <1>7, <1>8, <1>9 DEF JobNext

\* store.py: "the cap can never be exceeded", for every cap and every number of
\* jobs and clients, beyond the slots an earlier release had already leaked.
THEOREM CapHolds == JobSpec => []CapRespected
<1> QED BY JobInvInit, JobInvNext, CapInit, CapNext, PTL DEF JobSpec

------------------------------------------------------------------------------
(* What each statement does to the ids, the ages and the leases of the rows, *)
(* for a module that composes this one.                                      *)

\* Rows are never removed, and a row that was old enough stays so.
Ages == \A k \in Stored : k \in Stored' /\ rows'[k].age >= rows[k].age /\ rows'[k].age \in 0..SweepAge

LEMMA OldStay ==
  ASSUME JobInv, Ages
  PROVE  OldEnough \subseteq OldEnough'
<1>1. ASSUME NEW k \in OldEnough PROVE k \in OldEnough'
  <2>1. k \in Stored' /\ rows'[k].age >= SweepAge /\ rows'[k].age \in 0..SweepAge
    BY DEF Ages, OldEnough
  <2>2. rows'[k].age = SweepAge
    BY <2>1, JobStatesAssumption DEF JobStatesAssumption
  <2> QED BY <2>1, <2>2 DEF OldEnough
<1> QED BY <1>1

LEMMA AgesGrow ==
  ASSUME JobInv, [JobNext]_jobVars
  PROVE  Ages
<1> USE DEF JobInv, JobTypeOK
<1>0. \A k \in Stored : rows[k] \in Row /\ rows[k].age \in 0..SweepAge
  BY DEF Row
<1>9. SweepAge \in Nat
  BY JobStatesAssumption DEF JobStatesAssumption
<1>1. CASE rows' = rows
  BY <1>0, <1>1, <1>9 DEF Ages, Stored
<1>2. ASSUME NEW c \in Clients, UpsertFlush(c) PROVE Ages
  <2> DEFINE t == txn[c]
  <2>1. CASE t.job \notin Stored /\ rows' = Put(t.job, InsertedRow(t.status))
    BY <1>0, <1>9, <2>1 DEF Ages, Stored, Put
  <2>2. CASE /\ t.loaded.found /\ t.job \in Stored
             /\ rows' = Put(t.job, UpdatedRow(rows[t.job], t.loaded, t.status))
    <3>1. UpdatedRow(rows[t.job], t.loaded, t.status).age = rows[t.job].age
      BY <1>0, <2>2 DEF UpdatedRow, Row
    <3> QED BY <1>0, <1>9, <2>2, <3>1 DEF Ages, Stored, Put
  <2> QED BY <1>1, <1>2, <2>1, <2>2, FlushedRows
<1>3. ASSUME NEW j \in Jobs, TryStart(j) PROVE Ages
  <2>1. rows' = [AllReclaimed EXCEPT ![j] = IF HoldsSlot(@) THEN @ ELSE GrantedRow(@)]
    BY <1>3 DEF TryStart
  <2>2. ASSUME NEW k \in Stored
        PROVE  k \in Stored' /\ rows'[k].age = rows[k].age
    <3>1. Reclaimed(rows[k]) \in Row /\ Reclaimed(rows[k]).age = rows[k].age
      BY <1>0, ReclaimedRow DEF Reclaimed, Row
    <3>2. rows'[k] = Reclaimed(rows[k]) \/ rows'[k] = GrantedRow(Reclaimed(rows[k]))
      BY <2>1 DEF AllReclaimed
    <3>3. GrantedRow(Reclaimed(rows[k])).age = rows[k].age
      BY <3>1 DEF GrantedRow, Row
    <3> QED BY <2>1, <3>1, <3>2, <3>3 DEF Stored, AllReclaimed
  <2> QED BY <1>0, <1>9, <2>2 DEF Ages
<1>4. ASSUME NEW j \in Jobs, Heartbeat(j) PROVE Ages
  <2>1. \A k \in Stored : k \in Stored' /\ rows'[k].age = rows[k].age
    BY <1>4 DEF Heartbeat, Running, Row, Stored
  <2> QED BY <1>0, <1>9, <2>1 DEF Ages
<1>5. ASSUME NEW old \in SUBSET OldEnough, EndOrphanedQueued(old, {}) PROVE Ages
  <2>1. \A k \in Stored : k \in Stored' /\ rows'[k].age = rows[k].age
    BY <1>0, <1>5 DEF EndOrphanedQueued, Row, Stored
  <2> QED BY <1>0, <1>9, <2>1 DEF Ages
<1>6. CASE Tick
  <2>1. ASSUME NEW k \in Stored
        PROVE  k \in Stored' /\ rows'[k].age >= rows[k].age /\ rows'[k].age \in 0..SweepAge
    <3>1. k \in Stored' /\ rows'[k] = Older(rows[k])
      BY <1>6 DEF Tick, Stored
    <3>2. rows'[k].age = IF rows[k].age < SweepAge THEN rows[k].age + 1 ELSE rows[k].age
      BY <1>0, <3>1 DEF Older, Row
    <3> QED BY <1>0, <1>9, <3>1, <3>2
  <2> QED BY <2>1 DEF Ages
<1>7. CASE ReclaimExpired
  <2>1. \A k \in Stored : k \in Stored' /\ rows'[k].age = rows[k].age
    BY <1>0, <1>7 DEF ReclaimExpired, AllReclaimed, Reclaimed, Row, Stored
  <2> QED BY <1>0, <1>9, <2>1 DEF Ages
<1> QED
  BY <1>1, <1>2, <1>3, <1>4, <1>5, <1>6, <1>7 DEF JobNext, jobVars, UpsertRead, Rollback

(* The rows that run, and their leases. *)
LEMMA FlushRuns ==
  ASSUME JobInv, NEW c \in Clients, UpsertFlush(c), NEW k \in Running'
  PROVE  /\ k \in Running /\ rows'[k].lease = rows[k].lease
         /\ k = txn[c].job /\ txn[c].loaded.found => txn[c].loaded.lifecycle # "running"
<1> USE DEF JobInv, JobTypeOK
<1> DEFINE t == txn[c]
<1>1. LifecycleFor(t.status) # "running"
  BY FlushedRows, OnlyGrantsRun
<1>2. CASE rows' = rows /\ ~t.loaded.found
  BY <1>2 DEF Running, Stored
<1>3. CASE t.job \notin Stored /\ rows' = Put(t.job, InsertedRow(t.status))
  <2>1. InsertedRow(t.status).lifecycle # "running"
    BY <1>1 DEF InsertedRow
  <2> QED BY <1>3, <2>1 DEF Running, Stored, Put
<1>4. CASE /\ t.loaded.found /\ t.job \in Stored
           /\ rows' = Put(t.job, UpdatedRow(rows[t.job], t.loaded, t.status))
  <2> DEFINE new == UpdatedRow(rows[t.job], t.loaded, t.status)
  <2>1. rows[t.job] \in Row
    BY <1>4
  <2>2. /\ new.lease = rows[t.job].lease
        /\ new.lifecycle = "running" =>
             rows[t.job].lifecycle = "running" /\ t.loaded.lifecycle # "running"
    BY <1>1, <2>1 DEF UpdatedRow, Row, Flushed
  <2> HIDE DEF new
  <2> QED BY <1>4, <2>2 DEF Running, Stored, Put, new
<1>5. t.loaded.found => t.job \in Stored
  BY DEF UpsertFlush, TxnInv
<1> QED BY <1>2, <1>3, <1>4, <1>5, FlushedRows DEF UpsertFlush

LEMMA GrantRuns ==
  ASSUME JobInv, NEW j \in Jobs, TryStart(j), NEW k \in Running'
  PROVE  \/ k \in Running /\ rows'[k].lease = rows[k].lease
         \/ k = j /\ rows'[k].lease = FreshLease
<1> USE DEF JobInv, JobTypeOK
<1>1. j \in Stored /\ rows' = [AllReclaimed EXCEPT ![j] = IF HoldsSlot(@) THEN @ ELSE GrantedRow(@)]
  BY DEF TryStart, Denied
<1>2. k \in Stored /\ rows'[k].lifecycle = "running"
  BY <1>1 DEF Running, Stored, AllReclaimed
<1>3. Reclaimed(rows[k]) \in Row /\ (HoldsSlot(Reclaimed(rows[k])) => Reclaimed(rows[k]) = rows[k])
  BY <1>2, ReclaimedRow
<1>4. CASE rows'[k] = Reclaimed(rows[k])
  BY <1>2, <1>3, <1>4 DEF HoldsSlot, Running
<1>5. CASE k = j /\ rows'[k] = GrantedRow(Reclaimed(rows[k]))
  BY <1>3, <1>5 DEF GrantedRow, Row
<1> QED BY <1>1, <1>2, <1>4, <1>5 DEF AllReclaimed

LEMMA HeartbeatRuns ==
  ASSUME JobInv, NEW j \in Jobs, Heartbeat(j), NEW k \in Running'
  PROVE  k \in Running /\ rows'[k].lease = IF k = j THEN FreshLease ELSE rows[k].lease
BY DEF JobInv, JobTypeOK, Heartbeat, Running, Stored, Row

LEMMA OrphansRun ==
  ASSUME JobInv, NEW old, NEW live, EndOrphanedQueued(old, live), NEW k \in Running'
  PROVE  k \in Running /\ rows'[k].lease = rows[k].lease
<1> USE DEF JobInv, JobTypeOK
<1>1. k \in Stored /\ rows[k] \in Row
  BY DEF EndOrphanedQueued, Running, Stored
<1>2. LifecycleFor("discarded") # "running"
  BY DEF LifecycleFor, NativeStatuses, NativeToLifecycle
<1>3. ~Orphan(k, old, live)
  BY <1>1, <1>2 DEF EndOrphanedQueued, Running, Row
<1> QED BY <1>1, <1>3 DEF EndOrphanedQueued, Running

LEMMA TickRuns ==
  ASSUME JobInv, Tick, NEW k \in Running'
  PROVE  /\ k \in Running
         /\ rows'[k].lease = IF rows[k].lease > Lapsed THEN rows[k].lease - 1 ELSE rows[k].lease
<1>1. k \in Stored /\ rows'[k] = Older(rows[k]) /\ rows[k] \in Row
  BY DEF JobInv, JobTypeOK, Tick, Running, Stored
<1>2. rows'[k].lease = IF rows[k].lease > Lapsed THEN rows[k].lease - 1 ELSE rows[k].lease
  BY <1>1 DEF Older, Row
<1> QED BY <1>1, <1>2, OlderRow DEF Running

(* An orphan pass is one of the passes of JobNext: the ids it lists as alive *)
(* might as well not be in its first list.                                   *)
LEMMA OrphanPassIsStep ==
  ASSUME NEW old \in SUBSET OldEnough, NEW live, EndOrphanedQueued(old, live)
  PROVE  JobNext
<1>1. \A k : Orphan(k, old, live) <=> Orphan(k, old \ live, {})
  BY DEF Orphan
<1>2. EndOrphanedQueued(old \ live, {})
  BY <1>1 DEF EndOrphanedQueued
<1> QED BY <1>2 DEF JobNext
==============================================================================
