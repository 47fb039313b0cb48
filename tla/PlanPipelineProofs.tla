-------------------------- MODULE PlanPipelineProofs --------------------------
(***************************************************************************)
(* What holds of the whole pipeline for every number of sessions and       *)
(* calls, every cap, every lease and every bound on the crashes.           *)
(*                                                                         *)
(* The pipeline is put together from what is proved of its parts: its      *)
(* steps are steps of PlanSessions on the sessions and of JobStates on the *)
(* rows, so their invariants hold of it.  What is new is how they meet:    *)
(* which transaction belongs to which call, which rows the orphan pass may *)
(* end, and, without crashes, who keeps the lease of a row that runs.      *)
(***************************************************************************)
EXTENDS PlanPipeline, PlanSessionsProofs, FiniteSetTheorems

StoreP == INSTANCE JobStatesProofs WITH Jobs <- Sessions, Clients <- Calls,
                                        SavedStatuses <- Statuses, LegacyJobs <- {}

(***************************************************************************)
(* The inductive invariant.                                                *)
(***************************************************************************)

\* What a call that is admitted, or waits to be, is doing.
AdmissionOK(c) ==
  /\ ~Phase(c, "none") => run[c].job \in minted
  /\ Phase(c, "waiting") => call[c] = Idle
  /\ Executing(c) /\ Busy(c) =>
       call[c].job = run[c].job /\ call[c].op = "process" /\ call[c].pc = "act"
  /\ (Phase(c, "returned") \/ Phase(c, "raised")) /\ Busy(c) =>
       call[c].job = run[c].job /\ call[c].pc = "mirror"

\* An upsert is in the mirror of its call, or it is the one that marks the
\* row of a call that raised.
TxnOK(c) ==
  txn[c] # NoTxn =>
    /\ txn[c].job \in minted
    /\ \/ Mirroring(c) /\ txn[c].job = call[c].job
       \/ Phase(c, "raised") /\ call[c] = Idle /\ txn[c].job = run[c].job

\* The rows a sweep will end were old, and belong to no session, whatever was
\* ingested since.
SweepOK ==
  sweep # NoSweep =>
    /\ sweep.old \subseteq Store!OldEnough
    /\ \A j \in sweep.old \ sweep.live : j \notin Stored

AdmissionInv ==
  /\ run \in [Calls -> Run] /\ sweep \in Sweep /\ crashes \in 0..MaxCrashes
  /\ Store!Stored \subseteq minted
  /\ \A c \in Calls : AdmissionOK(c) /\ TxnOK(c)
  /\ SweepOK

PipelineInv == SessionsInv /\ StoreP!JobInv /\ AdmissionInv

\* A call whose renew task works for row j, and whose last upsert, still to
\* come, takes the row off running.
Serves(g, j) ==
  /\ Renewing(g) /\ run[g].job = j
  /\ ~(Phase(g, "returned") /\ call[g] = Idle)
  /\ txn[g] # NoTxn => txn[g].loaded.found /\ txn[g].loaded.lifecycle = "running"

\* The call that keeps the lease of row j: it heartbeats before the lease lapses.
Keeps(g, j) == Serves(g, j) /\ rows[j].lease >= run[g].due + 2

HealthInv ==
  crashes = 0 => \A j \in Store!Running : \E g \in Calls : Keeps(g, j)

(***************************************************************************)
(* The parts: JobStates, of which this module has two instances, one with  *)
(* its theorems, and PlanSessions.                                         *)
(***************************************************************************)

(* Counting is the same wherever the standard module is instantiated. *)
LEMMA SameCount ==
  /\ \A S : StoreP!IsFiniteSet(S) <=> IsFiniteSet(S)
  /\ \A S : Store!Cardinality(S) = StoreP!Cardinality(S)
BY DEF IsFiniteSet, StoreP!IsFiniteSet, Store!IsFiniteSet, Store!Cardinality,
       StoreP!Cardinality

(* The assumptions of JobStates hold here; no session status is a running one. *)
LEMMA StoreAssumptions == StoreP!JobStatesAssumption /\ StoreP!OnlyGrantsRun
<1>1. StoreP!OnlyGrantsRun
  BY DEF StoreP!LifecycleFor, Statuses, StoreP!NativeToLifecycle, StoreP!NativeStatuses
<1>2. Statuses \subseteq StoreP!NativeStatuses
  BY DEF Statuses, StoreP!NativeToLifecycle, StoreP!NativeStatuses
<1>3. {} \subseteq Sessions /\ IsFiniteSet({})
  BY FS_EmptySet
<1>4. Cap \in Nat /\ SweepAge \in Nat /\ LeaseTTL \in Nat \ {0}
  BY PipelineAssumption DEF PipelineAssumption
<1>5. NoTxn \notin StoreP!Txn
  BY PipelineAssumption
  DEF PipelineAssumption, Store!Txn, StoreP!Txn, Store!Loaded, StoreP!Loaded,
      Store!NativeStatuses, StoreP!NativeStatuses, Store!LifecycleStates,
      StoreP!LifecycleStates, Store!NativeToLifecycle, StoreP!NativeToLifecycle
<1>6. StoreP!JobStatesAssumption
  BY <1>2, <1>3, <1>4, <1>5, SameCount DEF StoreP!JobStatesAssumption
<1> QED BY <1>1, <1>6

LEMMA SameSets ==
  /\ Store!Stored = StoreP!Stored /\ Store!Running = StoreP!Running
  /\ Store!OldEnough = StoreP!OldEnough
BY DEF Store!Stored, StoreP!Stored, Store!Running, StoreP!Running,
       Store!OldEnough, StoreP!OldEnough

LEMMA SameRead ==
  ASSUME NEW c, NEW j, NEW s, Store!UpsertRead(c, j, s)
  PROVE  StoreP!UpsertRead(c, j, s)
BY DEF Store!UpsertRead, StoreP!UpsertRead, Store!Stored, StoreP!Stored

LEMMA SameFlush ==
  ASSUME NEW c, Store!UpsertFlush(c)
  PROVE  StoreP!UpsertFlush(c)
BY DEF Store!UpsertFlush, StoreP!UpsertFlush, Store!Put, StoreP!Put, Store!Stored, StoreP!Stored,
       Store!UpdatedRow, StoreP!UpdatedRow, Store!Flushed, StoreP!Flushed,
       Store!InsertedRow, StoreP!InsertedRow, Store!LifecycleFor, StoreP!LifecycleFor,
       Store!NativeStatuses, StoreP!NativeStatuses, Store!NativeToLifecycle,
       StoreP!NativeToLifecycle, Store!TerminalLifecycle, StoreP!TerminalLifecycle,
       Store!NoLease, StoreP!NoLease

LEMMA SameHeartbeat ==
  ASSUME NEW j, Store!Heartbeat(j)
  PROVE  StoreP!Heartbeat(j)
BY DEF Store!Heartbeat, StoreP!Heartbeat, Store!Running, StoreP!Running, Store!Stored,
       StoreP!Stored, Store!FreshLease, StoreP!FreshLease

LEMMA SameTick ==
  ASSUME Store!Tick
  PROVE  StoreP!Tick
BY DEF Store!Tick, StoreP!Tick, Store!Older, StoreP!Older, Store!Stored, StoreP!Stored,
       Store!Lapsed, StoreP!Lapsed

LEMMA SameOrphans ==
  ASSUME NEW old, NEW live, Store!EndOrphanedQueued(old, live)
  PROVE  StoreP!EndOrphanedQueued(old, live)
BY DEF Store!EndOrphanedQueued, StoreP!EndOrphanedQueued, Store!Orphan, StoreP!Orphan,
       Store!Stored, StoreP!Stored, Store!LifecycleFor, StoreP!LifecycleFor,
       Store!NativeStatuses, StoreP!NativeStatuses, Store!NativeToLifecycle,
       StoreP!NativeToLifecycle

LEMMA SameReclaim ==
  /\ Store!AllReclaimed = StoreP!AllReclaimed
  /\ \A r : Store!HoldsSlot(r) <=> StoreP!HoldsSlot(r)
  /\ \A r : Store!GrantedRow(r) = StoreP!GrantedRow(r)
BY DEF Store!AllReclaimed, StoreP!AllReclaimed, Store!Reclaimed,
       StoreP!Reclaimed, Store!LeaseExpired, StoreP!LeaseExpired, Store!LeakedSlot,
       StoreP!LeakedSlot, Store!HoldsSlot, StoreP!HoldsSlot, Store!GrantedRow,
       StoreP!GrantedRow, Store!FreshLease, StoreP!FreshLease, Store!Lapsed, StoreP!Lapsed,
       Store!NoLease, StoreP!NoLease, Store!Stored, StoreP!Stored,
       Store!TerminalNativeStatuses, StoreP!TerminalNativeStatuses,
       Store!TerminalLifecycle, StoreP!TerminalLifecycle, Store!LifecycleFor,
       StoreP!LifecycleFor, Store!NativeStatuses, StoreP!NativeStatuses,
       Store!NativeToLifecycle, StoreP!NativeToLifecycle

LEMMA SameGrant ==
  ASSUME NEW j, Store!TryStart(j)
  PROVE  StoreP!TryStart(j)
<1>1. {k \in Store!Stored : Store!HoldsSlot(Store!AllReclaimed[k])}
        = {k \in StoreP!Stored : StoreP!HoldsSlot(StoreP!AllReclaimed[k])}
  BY SameSets, SameReclaim
<1>2. Store!SlotFree => StoreP!SlotFree
  BY <1>1, SameCount DEF Store!SlotFree, StoreP!SlotFree
<1>3. ~StoreP!Denied(j)
  BY <1>2, SameSets, SameReclaim DEF Store!TryStart, Store!Denied, StoreP!Denied
<1> QED BY <1>3, SameReclaim DEF Store!TryStart, StoreP!TryStart

(* The two instances of JobStates agree on the rest of what is used here. *)
LEMMA SameInit == Store!JobInit => StoreP!JobInit
BY DEF Store!JobInit, StoreP!JobInit, Store!LegacyRow, StoreP!LegacyRow, Store!NoLease,
       StoreP!NoLease

LEMMA SameTypeOK == StoreP!JobTypeOK => Store!JobTypeOK
BY DEF Store!JobTypeOK, StoreP!JobTypeOK, Store!Stored, StoreP!Stored, Store!Row, StoreP!Row,
       Store!Txn, StoreP!Txn, Store!Loaded, StoreP!Loaded, Store!FreshLease,
       StoreP!FreshLease, Store!NoLease, StoreP!NoLease, Store!NativeStatuses,
       StoreP!NativeStatuses, Store!LifecycleStates, StoreP!LifecycleStates,
       Store!NativeToLifecycle, StoreP!NativeToLifecycle

LEMMA SameCap == StoreP!CapRespected => Store!CapRespected
BY SameSets, SameCount DEF Store!CapRespected, StoreP!CapRespected

(* The types of the admission, one fact each. *)
LEMMA AdmissionTypes ==
  ASSUME PipelineInv, NEW c \in Calls
  PROVE  /\ SessionsInv /\ StoreP!JobInv
         /\ run \in [Calls -> Run] /\ run[c] \in Run /\ sweep \in Sweep
         /\ crashes \in 0..MaxCrashes
         /\ AdmissionOK(c) /\ TxnOK(c) /\ SweepOK
         /\ Store!Stored \subseteq minted /\ minted \subseteq Sessions
BY DEF PipelineInv, AdmissionInv, SessionsInv, TableInv

LEMMA RunRecord ==
  ASSUME NEW r \in Run
  PROVE  /\ r.phase \in {"none", "waiting", "executing", "returned", "raised"}
         /\ r.phase # "none" => r.job \in Sessions
         /\ r.phase \in {"executing", "returned", "raised"} =>
              /\ r.renewing \in BOOLEAN /\ r.due \in 0..HeartbeatEvery
              /\ r \in [phase : {"executing", "returned", "raised"}, job : Sessions,
                        renewing : BOOLEAN, due : 0..HeartbeatEvery]
BY DEF Run, NoRun

(* A step on the rows is a step of JobStates. *)
LEMMA StorePart ==
  ASSUME PipelineInv, PipelineNext
  PROVE  [StoreP!JobNext]_(StoreP!jobVars)
<1> DEFINE Same == UNCHANGED <<rows, txn>>
           Step == StoreP!JobNext
<1>1. Same => UNCHANGED StoreP!jobVars
  BY DEF StoreP!jobVars
<1>2. ASSUME NEW c \in Calls, MirrorRead(c) PROVE Step
  <2>1. Busy(c) /\ Store!UpsertRead(c, call[c].job, call[c].doc.status)
    BY <1>2 DEF MirrorRead, Mirroring, At
  <2>2. call[c].job \in Sessions /\ call[c].doc.status \in Statuses
    BY <2>1, CallIsRecord, AdmissionTypes DEF Doc
  <2>3. StoreP!UpsertRead(c, call[c].job, call[c].doc.status)
    BY <2>1, SameRead
  <2> QED BY <2>2, <2>3 DEF StoreP!JobNext
<1>3. ASSUME NEW c \in Calls, Store!UpsertFlush(c) PROVE Step
  BY <1>3, SameFlush DEF StoreP!JobNext
<1>4. ASSUME NEW c \in Calls, MarkFailedRead(c) PROVE Step
  <2>1. Phase(c, "raised") /\ Store!UpsertRead(c, run[c].job, "failed")
    BY <1>4 DEF MarkFailedRead
  <2>2. run[c].job \in Sessions /\ "failed" \in Statuses
    BY <2>1, AdmissionTypes, RunRecord DEF Phase, Statuses
  <2>3. StoreP!UpsertRead(c, run[c].job, "failed")
    BY <2>1, SameRead
  <2> QED BY <2>2, <2>3 DEF StoreP!JobNext
<1>5. ASSUME NEW c \in Calls, Grant(c) PROVE Step
  <2>1. Phase(c, "waiting") /\ Store!TryStart(run[c].job)
    BY <1>5 DEF Grant
  <2>2. run[c].job \in Sessions
    BY <2>1, AdmissionTypes, RunRecord DEF Phase
  <2>3. StoreP!TryStart(run[c].job)
    BY <2>1, SameGrant
  <2> QED BY <2>2, <2>3 DEF StoreP!JobNext
<1>6. ASSUME NEW c \in Calls, Renew(c) PROVE Step \/ Same
  <2>1. CASE Renewing(c) /\ Store!Heartbeat(run[c].job)
    <3>1. run[c].job \in Sessions
      BY <2>1, AdmissionTypes, RunRecord DEF Renewing, Admitted
    <3>2. StoreP!Heartbeat(run[c].job)
      BY <2>1, SameHeartbeat
    <3> QED BY <3>1, <3>2 DEF StoreP!JobNext
  <2> QED BY <1>6, <2>1 DEF Renew
<1>7. CASE SweepOrphans
  <2>1. Store!EndOrphanedQueued(sweep.old, sweep.live) /\ sweep.old \subseteq Store!OldEnough
    BY <1>7 DEF SweepOrphans, PipelineInv, AdmissionInv, SweepOK
  <2>2. StoreP!EndOrphanedQueued(sweep.old, sweep.live)
    BY <2>1, SameOrphans
  <2>3. sweep.old \in SUBSET StoreP!OldEnough
    BY <2>1, SameSets
  <2> QED BY <2>2, <2>3, StoreAssumptions, StoreP!OrphanPassIsStep
<1>8. CASE Elapse
  BY <1>8, SameTick DEF Elapse, StoreP!JobNext
<1>9. ASSUME NEW c \in Calls, Crash(c) PROVE Step \/ Same
  <2>1. CASE txn[c] # NoTxn
    BY <1>9, <2>1 DEF Crash, StoreP!JobNext, StoreP!Rollback
  <2>2. CASE txn[c] = NoTxn
    BY <1>9, <2>2 DEF Crash, PipelineInv, StoreP!JobInv, StoreP!JobTypeOK
  <2> QED BY <2>1, <2>2
<1>10. ASSUME NEW c \in Calls, CallStep(c)
       PROVE  Same \/ MirrorRead(c) \/ MarkFailedRead(c) \/ Store!UpsertFlush(c)
  BY <1>10 DEF CallStep, SessionStep, MirrorFlush, BeginPipeline, EndPipeline, FailPipeline,
       MarkFailedFlush, Finish, admissionVars
<1>11. ASSUME NEW c \in Calls, NEW j \in Sessions, RequestProcess(c, j) PROVE Same
  BY <1>11 DEF RequestProcess
<1>12. SweepList => Same
  BY DEF SweepList
<1> HIDE DEF Same, Step
<1> QED
  BY <1>1, <1>2, <1>3, <1>4, <1>5, <1>6, <1>7, <1>8, <1>9, <1>10, <1>11, <1>12
  DEF PipelineNext, Step

(* A call outside admission does what it may do in PlanSessions. *)
LEMMA SessionStepMay ==
  ASSUME NEW c \in Calls, SessionStep(c)
  PROVE  CallMay(c)
<1>1. ASSUME NEW j \in Sessions, NEW op \in Ops, Load(c, j, op) PROVE CallMay(c)
  BY <1>1, PlanSessionsAssumption
  DEF PlanSessionsAssumption, Load, Reads, ReadCopy, CallMay
<1> QED BY <1>1 DEF SessionStep, CallMay

(* A step on the sessions is a step of a call of PlanSessions. *)
LEMMA SessionsPart ==
  ASSUME PipelineInv, PipelineNext
  PROVE  [SessionsMay]_sessionVars
<1> DEFINE Same == UNCHANGED sessionVars
<1>1. ASSUME NEW c \in Calls, SessionStep(c) PROVE CallMay(c)
  BY <1>1, SessionStepMay
<1>2. ASSUME NEW c \in Calls, MirrorFlush(c) PROVE CallMay(c)
  BY <1>2 DEF MirrorFlush, Mirror, CallMay
<1>3. ASSUME NEW c \in Calls, BeginPipeline(c) PROVE CallMay(c) \/ Same
  <2>1. CASE run[c].job \in Stored
    <3>1. run[c].job \in Sessions
      BY <2>1, AdmissionTypes DEF SessionsInv, TableInv
    <3>2. ~Prepares("process", table[run[c].job].doc)
      BY DEF Prepares, Refreshing, Gates
    <3>3. Reads(c, run[c].job, "process")
      BY <1>3, <2>1, <3>2 DEF BeginPipeline, Reads, ReadCopy, Admissible, Gates
    <3>4. "process" \in AllOps
      BY DEF AllOps
    <3> QED BY <3>1, <3>3, <3>4 DEF CallMay
  <2>2. CASE run[c].job \notin Stored
    BY <1>3, <2>2 DEF BeginPipeline, sessionVars
  <2> QED BY <2>1, <2>2
<1>4. ASSUME NEW c \in Calls, EndPipeline(c) \/ FailPipeline(c) PROVE CallMay(c)
  BY <1>4 DEF EndPipeline, FailPipeline, Operation, CallMay
<1>5. ASSUME NEW c \in Calls, Crash(c) PROVE CallMay(c)
  BY <1>5 DEF Crash, Forget, CallMay
<1>6. ASSUME NEW c \in Calls, CallStep(c)
      PROVE  \/ Same \/ SessionStep(c) \/ MirrorFlush(c) \/ BeginPipeline(c)
             \/ EndPipeline(c) \/ FailPipeline(c)
  BY <1>6 DEF CallStep, MirrorRead, MarkFailedRead, MarkFailedFlush, Finish
<1>7. ASSUME NEW c \in Calls,
             Grant(c) \/ Renew(c) \/ \E j \in Sessions : RequestProcess(c, j)
      PROVE  Same
  BY <1>7 DEF Grant, Renew, RequestProcess
<1>8. SweepList \/ SweepOrphans \/ Elapse => Same
  BY DEF SweepList, SweepOrphans, Elapse
<1> HIDE DEF Same
<1>9. ASSUME NEW c \in Calls, CallMay(c) PROVE SessionsMay
  BY <1>9 DEF SessionsMay
<1> QED
  BY <1>1, <1>2, <1>3, <1>4, <1>5, <1>6, <1>7, <1>8, <1>9 DEF PipelineNext, Same

(* What the parts give, of every step. *)
LEMMA PartsKept ==
  ASSUME PipelineInv, PipelineNext
  PROVE  /\ SessionsInv' /\ StoreP!JobInv' /\ Grows
         /\ StoreP!OldEnough \subseteq StoreP!OldEnough'
<1>1. SessionsInv' /\ Grows
  BY SessionsPart, StepKeeps DEF PipelineInv
<1>2. StoreP!JobInv /\ [StoreP!JobNext]_(StoreP!jobVars)
  BY StorePart DEF PipelineInv
<1>3. StoreP!JobInv'
  BY <1>2, StoreAssumptions, StoreP!JobInvNext
<1>4. StoreP!Ages
  BY <1>2, StoreAssumptions, StoreP!AgesGrow
<1>5. StoreP!OldEnough \subseteq StoreP!OldEnough'
  BY <1>2, <1>4, StoreAssumptions, StoreP!OldStay
<1> QED BY <1>1, <1>3, <1>5

(***************************************************************************)
(* The admission.                                                          *)
(***************************************************************************)

\* What a step of call c leaves alone.
OthersSame(c) ==
  \A d \in Calls \ {c} : call'[d] = call[d] /\ run'[d] = run[d] /\ txn'[d] = txn[d]

\* What is known of a call that a step leaves alone stays.
LEMMA OtherKept ==
  ASSUME NEW d \in Calls, AdmissionOK(d), TxnOK(d), minted \subseteq minted',
         call'[d] = call[d], run'[d] = run[d], txn'[d] = txn[d]
  PROVE  AdmissionOK(d)' /\ TxnOK(d)'
BY DEF AdmissionOK, TxnOK, Phase, Executing, Busy, Mirroring, At

\* A call outside its mirror, and outside admission, is in no upsert.
LEMMA NoUpsert ==
  ASSUME NEW c \in Calls, TxnOK(c), ~Mirroring(c), ~(Phase(c, "raised") /\ call[c] = Idle)
  PROVE  txn[c] = NoTxn
BY DEF TxnOK

(* A step that makes one call's copy k. *)
LEMMA OneCall ==
  ASSUME SessionsInv, NEW c \in Calls, NEW k, call' = [call EXCEPT ![c] = k]
  PROVE  call'[c] = k /\ \A d \in Calls \ {c} : call'[d] = call[d]
BY DEF SessionsInv, CallsInv

(* A last save: the call ends, or has its mirror to do. *)
LEMMA LastSaveShape ==
  ASSUME SessionsInv, NEW c \in Calls, Busy(c), NEW doc, Save(c, doc, "mirror"),
         UNCHANGED minted
  PROVE  /\ \A d \in Calls \ {c} : call'[d] = call[d]
         /\ call'[c] = Idle \/ (call'[c].job = call[c].job /\ call'[c].pc = "mirror")
         /\ Current(c) /\ doc \in Doc => call'[c] # Idle
<1>1. CASE ~Current(c)
  BY <1>1, OneCall DEF Save, End
<1>2. CASE Current(c)
  <2>1. Overwrite(c, call[c].ver + 1, doc, "mirror")
    BY <1>2 DEF Save, Overwrite
  <2>2. call[c] \in CallRecord /\ call \in [Calls -> CallRecord \cup {Idle}]
    BY CallIsGood DEF SessionsInv, CallsInv
  <2>3. call' = [call EXCEPT ![c] = SavedCopy(c, doc, "mirror")]
    BY <2>1, <2>2, Overwritten DEF SavedCopy
  <2>4. call'[c] = SavedCopy(c, doc, "mirror") /\ \A d \in Calls \ {c} : call'[d] = call[d]
    BY <2>3, OneCall
  <2>5. ASSUME doc \in Doc
        PROVE  SavedCopy(c, doc, "mirror") \in CallRecord
    <3>1. call[c].op \in AllOps /\ call[c].job \in Sessions /\ call[c].ver \in Nat
      BY CallIsRecord
    <3>2. call[c].ver + 1 \in Nat
      BY <3>1
    <3> QED BY <2>5, <3>1, <3>2 DEF SavedCopy, CallRecord, Steps
  <2>6. doc \in Doc => SavedCopy(c, doc, "mirror") # Idle
    BY <2>5, PlanSessionsAssumption DEF PlanSessionsAssumption
  <2> QED BY <2>4, <2>6 DEF SavedCopy
<1> QED BY <1>1, <1>2

\* The pipeline's last step: the call ends, or has its mirror to do; it has one
\* when its results are saved.
LEMMA DoneShape ==
  ASSUME SessionsInv, NEW c \in Calls, ProcessDone(c) \/ ProcessFailed(c)
  PROVE  /\ Busy(c) /\ call[c].pc = "act" /\ call[c].op = "process"
         /\ \A d \in Calls \ {c} : call'[d] = call[d]
         /\ call'[c] = Idle \/ (call'[c].job = call[c].job /\ call'[c].pc = "mirror")
<1>1. Busy(c) /\ call[c].pc = "act" /\ call[c].op = "process" /\ UNCHANGED minted
  BY DEF ProcessDone, ProcessFailed, Doing, At
<1>2. CASE \E doc : Save(c, doc, "mirror")
  BY <1>1, <1>2, LastSaveShape
<1>3. CASE End(c)
  BY <1>1, <1>3, OneCall DEF End
<1>4. (\E doc : Save(c, doc, "mirror")) \/ End(c)
  BY DEF ProcessDone, ProcessFailed
<1> QED BY <1>1, <1>2, <1>3, <1>4

LEMMA DoneHasMirror ==
  ASSUME SessionsInv, NEW c \in Calls, ProcessDone(c), Current(c)
  PROVE  call'[c] # Idle
<1>1. Busy(c) /\ call[c].op = "process" /\ UNCHANGED minted
  BY DEF ProcessDone, Doing, At
<1>2. PICK doc \in Processed(call[c].doc) : Save(c, doc, "mirror")
  BY DEF ProcessDone
<1>3. call[c].doc \in Doc /\ Attested(call[c].doc)
  BY <1>1, CopyIsRow, RowIsTyped DEF Current, Row
<1>4. doc \in Atomic!Outcomes(call[c].doc)
  BY <1>2, OutcomeCases
<1>5. doc \in Doc
  BY <1>3, <1>4, OutcomesSound
<1> QED BY <1>1, <1>2, <1>5, LastSaveShape

(* Changing one field of an admission. *)
LEMMA PhaseEdit ==
  ASSUME NEW r \in Run, r.phase \in {"executing", "returned", "raised"},
         NEW p \in {"executing", "returned", "raised"}, NEW e, e = [r EXCEPT !.phase = p]
  PROVE  e \in Run /\ e.phase = p /\ e.job = r.job /\ e.renewing = r.renewing /\ e.due = r.due
<1> DEFINE Adm == [phase : {"executing", "returned", "raised"}, job : Sessions,
                   renewing : BOOLEAN, due : 0..HeartbeatEvery]
<1>1. r \in Adm
  BY RunRecord
<1>2. e \in Adm /\ e.phase = p /\ e.job = r.job /\ e.renewing = r.renewing /\ e.due = r.due
  BY <1>1
<1> QED BY <1>2 DEF Run

LEMMA DueEdit ==
  ASSUME NEW r \in Run, r.phase \in {"executing", "returned", "raised"},
         NEW n \in 0..HeartbeatEvery, NEW e, e = [r EXCEPT !.due = n]
  PROVE  e \in Run /\ e.phase = r.phase /\ e.job = r.job /\ e.renewing = r.renewing /\ e.due = n
<1> DEFINE Adm == [phase : {"executing", "returned", "raised"}, job : Sessions,
                   renewing : BOOLEAN, due : 0..HeartbeatEvery]
<1>1. r \in Adm
  BY RunRecord
<1>2. e \in Adm /\ e.phase = r.phase /\ e.job = r.job /\ e.renewing = r.renewing /\ e.due = n
  BY <1>1
<1> QED BY <1>2 DEF Run

LEMMA RenewingEdit ==
  ASSUME NEW r \in Run, r.phase \in {"executing", "returned", "raised"},
         NEW e, e = [r EXCEPT !.renewing = FALSE]
  PROVE  e \in Run /\ e.phase = r.phase /\ e.job = r.job /\ ~e.renewing
<1> DEFINE Adm == [phase : {"executing", "returned", "raised"}, job : Sessions,
                   renewing : BOOLEAN, due : 0..HeartbeatEvery]
<1>1. r \in Adm
  BY RunRecord
<1>2. e \in Adm /\ e.phase = r.phase /\ e.job = r.job /\ ~e.renewing
  BY <1>1
<1> QED BY <1>2 DEF Run

\* What a step of call c keeps of the admission.
Settles(c) ==
  /\ run' \in [Calls -> Run]
  /\ OthersSame(c)
  /\ AdmissionOK(c)' /\ TxnOK(c)'

(* A step of a call of PlanSessions changes no other call. *)
LEMMA OnlyCall ==
  ASSUME SessionsInv, NEW c \in Calls, CallMay(c)
  PROVE  \A d \in Calls \ {c} : call'[d] = call[d]
<1>1. \E k : call' = [call EXCEPT ![c] = k]
  BY CallShape DEF Ingest, SoundCommit, Commits, SoundLeave, Leaves, Delete, End
<1> QED BY <1>1, OneCall

(* The functions that a step of one call updates at that call. *)
LEMMA UpdateTypes ==
  ASSUME PipelineInv
  PROVE  /\ call = [d \in Calls |-> call[d]]
         /\ run = [d \in Calls |-> run[d]]
         /\ txn = [d \in Calls |-> txn[d]]
<1>1. call \in [Calls -> CallRecord \cup {Idle}]
  BY DEF PipelineInv, SessionsInv, CallsInv
<1>2. run \in [Calls -> Run]
  BY DEF PipelineInv, AdmissionInv
<1>3. txn \in [Calls -> StoreP!Txn \cup {NoTxn}]
  BY DEF PipelineInv, StoreP!JobInv, StoreP!JobTypeOK
<1> QED BY <1>1, <1>2, <1>3

LEMMA TxnUpdate ==
  ASSUME PipelineInv, NEW c \in Calls, NEW t, txn' = [txn EXCEPT ![c] = t]
  PROVE  txn'[c] = t /\ \A d \in Calls \ {c} : txn'[d] = txn[d]
BY UpdateTypes

(* What an upsert read. *)
LEMMA ReadTxn ==
  ASSUME PipelineInv, NEW c \in Calls, NEW j, NEW s, Store!UpsertRead(c, j, s)
  PROVE  /\ txn'[c].job = j
         /\ j \in Store!Stored =>
              txn'[c].loaded.found /\ txn'[c].loaded.lifecycle = rows[j].lifecycle
         /\ \A d \in Calls \ {c} : txn'[d] = txn[d]
<1>1. PICK l : /\ l = IF j \in Store!Stored
                      THEN [found |-> TRUE, status |-> rows[j].status,
                            lifecycle |-> rows[j].lifecycle]
                      ELSE [found |-> FALSE]
               /\ txn' = [txn EXCEPT ![c] = [job |-> j, status |-> s, loaded |-> l]]
  BY DEF Store!UpsertRead
<1>2. /\ txn'[c] = [job |-> j, status |-> s, loaded |-> l]
      /\ \A d \in Calls \ {c} : txn'[d] = txn[d]
  BY <1>1, TxnUpdate
<1>3. j \in Store!Stored => l.found /\ l.lifecycle = rows[j].lifecycle
  BY <1>1
<1> QED BY <1>2, <1>3

LEMMA RunUpdate ==
  ASSUME PipelineInv, NEW c \in Calls, NEW r, run' = [run EXCEPT ![c] = r]
  PROVE  /\ run'[c] = r /\ \A d \in Calls \ {c} : run'[d] = run[d]
         /\ r \in Run => run' \in [Calls -> Run]
BY UpdateTypes DEF PipelineInv, AdmissionInv

(* An operation works on its copy; it is not in a mirror. *)
LEMMA OperationActs ==
  ASSUME NEW c, Operation(c)
  PROVE  Busy(c) /\ call[c].pc \in {"first", "act", "finish"} /\ ~Mirroring(c)
<1>1. Busy(c) /\ call[c].pc \in {"first", "act", "finish"}
  BY DEF Operation, StampIntake, RefreshReadiness, Approve, Waive, Reject, ReloadForSweep,
       Discard, UpdatePlan, ApplySuggestion, ReloadForApply, ProcessDone, ProcessFailed,
       CreateIssues, RefuseContract, SaveResult, Posting, SaveEmitted, Delete, Doing, At
<1> QED BY <1>1 DEF Mirroring, At

(* A call whose record is none has nothing to keep. *)
LEMMA Unadmitted ==
  ASSUME NEW c, Phase(c, "none")
  PROVE  AdmissionOK(c)
BY DEF AdmissionOK, Phase, Executing

(* Every call with a session works on one that was handed out. *)
LEMMA CallMinted ==
  ASSUME SessionsInv, NEW c \in Calls, Busy(c)
  PROVE  call[c].job \in minted
BY CallIsGood DEF GoodCall, CopyOK

LEMMA SessionStepSettles ==
  ASSUME PipelineInv, NEW c \in Calls, SessionStep(c), CallMay(c)
  PROVE  Settles(c)
<1>1. Phase(c, "none") /\ UNCHANGED <<txn, run>>
  BY DEF SessionStep, admissionVars
<1>2. ~Mirroring(c)
  BY OperationActs DEF SessionStep, Ingest, Load, Mirroring, At, Busy
<1>3. txn[c] = NoTxn
  BY <1>1, <1>2, AdmissionTypes, NoUpsert DEF Phase
<1>4. \A d \in Calls \ {c} : call'[d] = call[d]
  BY AdmissionTypes, OnlyCall
<1>5. Phase(c, "none")' /\ txn'[c] = NoTxn
  BY <1>1, <1>3 DEF Phase
<1> QED
  BY <1>1, <1>4, <1>5, AdmissionTypes, Unadmitted DEF Settles, OthersSame, TxnOK, AdmissionOK,
     Phase, Executing

LEMMA MirrorReadSettles ==
  ASSUME PipelineInv, NEW c \in Calls, MirrorRead(c)
  PROVE  Settles(c)
<1>1. UNCHANGED <<call, run, minted>>
  BY DEF MirrorRead, sessionVars, admissionVars
<1>2. Mirroring(c) /\ Busy(c)
  BY DEF MirrorRead, Mirroring, At
<1>3. txn'[c].job = call[c].job /\ \A d \in Calls \ {c} : txn'[d] = txn[d]
  BY ReadTxn DEF MirrorRead
<1>4. call[c].job \in minted
  BY <1>2, AdmissionTypes, CallMinted
<1>5. TxnOK(c)'
  BY <1>1, <1>2, <1>3, <1>4 DEF TxnOK, Mirroring, At, Busy
<1>6. AdmissionOK(c)'
  BY <1>1, AdmissionTypes DEF AdmissionOK, Phase, Executing, Busy
<1> QED BY <1>1, <1>3, <1>5, <1>6, AdmissionTypes DEF Settles, OthersSame

LEMMA MirrorFlushSettles ==
  ASSUME PipelineInv, NEW c \in Calls, MirrorFlush(c)
  PROVE  Settles(c)
<1>1. UNCHANGED <<run, minted>>
  BY DEF MirrorFlush, admissionVars
<1>2. Mirroring(c) /\ Busy(c) /\ call[c].pc \in {"mirrorFirst", "mirrorAct", "mirror"}
  BY DEF MirrorFlush, Mirroring, At
<1>3. txn'[c] = NoTxn /\ \A d \in Calls \ {c} : txn'[d] = txn[d]
  BY TxnUpdate DEF MirrorFlush, Store!UpsertFlush
<1>4. /\ \A d \in Calls \ {c} : call'[d] = call[d]
      /\ call[c].pc = "mirror" => call'[c] = Idle
  BY AdmissionTypes, UpdateTypes, OneCall DEF MirrorFlush, Mirrored, At, Doing, End
<1>5. Phase(c, "none") \/ Phase(c, "returned") \/ Phase(c, "raised")
  BY <1>2, AdmissionTypes, RunRecord DEF AdmissionOK, Phase, Executing, Busy
<1>6. AdmissionOK(c)'
  BY <1>1, <1>2, <1>4, <1>5, AdmissionTypes DEF AdmissionOK, Phase, Executing, Busy
<1> QED BY <1>1, <1>3, <1>4, <1>6, AdmissionTypes DEF Settles, OthersSame, TxnOK

LEMMA RequestSettles ==
  ASSUME PipelineInv, NEW c \in Calls, NEW j \in Sessions, RequestProcess(c, j)
  PROVE  Settles(c)
<1>1. call[c] = Idle /\ Phase(c, "none") /\ UNCHANGED <<call, txn, minted>>
  BY DEF RequestProcess, sessionVars
<1>2. txn[c] = NoTxn
  BY <1>1, AdmissionTypes, NoUpsert DEF Mirroring, At, Busy, Phase
<1>3. j \in minted
  BY AdmissionTypes DEF RequestProcess, SessionsInv, TableInv
<1>4. [phase |-> "waiting", job |-> j] \in Run
  BY DEF Run
<1>5. /\ run'[c] = [phase |-> "waiting", job |-> j]
      /\ run' \in [Calls -> Run] /\ \A d \in Calls \ {c} : run'[d] = run[d]
  BY <1>4, RunUpdate DEF RequestProcess
<1>6. AdmissionOK(c)'
  BY <1>1, <1>3, <1>5 DEF AdmissionOK, Phase, Executing, Busy
<1> QED BY <1>1, <1>2, <1>5, <1>6 DEF Settles, OthersSame, TxnOK

LEMMA GrantSettles ==
  ASSUME PipelineInv, NEW c \in Calls, Grant(c)
  PROVE  Settles(c)
<1> DEFINE r == [phase |-> "executing", job |-> run[c].job, renewing |-> TRUE,
                 due |-> HeartbeatEvery]
<1>1. Phase(c, "waiting") /\ UNCHANGED <<call, txn, minted>>
  BY DEF Grant, sessionVars, Store!TryStart
<1>2. call[c] = Idle /\ run[c].job \in minted /\ run[c].job \in Sessions
  BY <1>1, AdmissionTypes DEF AdmissionOK, Phase
<1>3. txn[c] = NoTxn
  BY <1>1, <1>2, AdmissionTypes, NoUpsert DEF Mirroring, At, Busy, Phase
<1>4. r \in Run
  BY <1>2, PipelineAssumption DEF Run, PipelineAssumption
<1>5. /\ run'[c] = r
      /\ run' \in [Calls -> Run] /\ \A d \in Calls \ {c} : run'[d] = run[d]
  BY <1>4, RunUpdate DEF Grant
<1>6. AdmissionOK(c)'
  BY <1>1, <1>2, <1>5 DEF AdmissionOK, Phase, Executing, Busy
<1> QED BY <1>1, <1>3, <1>5, <1>6 DEF Settles, OthersSame, TxnOK

(* A call that executes, and has no session in hand or is about to save its
   results, is in no upsert. *)
LEMMA ExecutesAlone ==
  ASSUME PipelineInv, NEW c \in Calls, Executing(c), ~Mirroring(c)
  PROVE  txn[c] = NoTxn
BY AdmissionTypes, NoUpsert DEF Executing, Phase

(* An admission that moves on to another phase. *)
LEMMA PhaseMoves ==
  ASSUME PipelineInv, NEW c \in Calls, Admitted(c),
         NEW p \in {"executing", "returned", "raised"}, run' = [run EXCEPT ![c].phase = p]
  PROVE  /\ run' \in [Calls -> Run] /\ \A d \in Calls \ {c} : run'[d] = run[d]
         /\ run'[c].phase = p /\ run'[c].job = run[c].job
         /\ run'[c].renewing = run[c].renewing /\ run'[c].due = run[c].due
<1>1. PICK e : e = [run[c] EXCEPT !.phase = p]
  OBVIOUS
<1>2. /\ e \in Run /\ e.phase = p /\ e.job = run[c].job
      /\ e.renewing = run[c].renewing /\ e.due = run[c].due
  BY <1>1, AdmissionTypes, PhaseEdit DEF Admitted
<1>3. run' = [run EXCEPT ![c] = e]
  BY <1>1
<1>4. run'[c] = e /\ run' \in [Calls -> Run] /\ \A d \in Calls \ {c} : run'[d] = run[d]
  BY <1>2, <1>3, RunUpdate
<1> QED BY <1>2, <1>4

LEMMA BeginSettles ==
  ASSUME PipelineInv, NEW c \in Calls, BeginPipeline(c)
  PROVE  Settles(c)
<1>1. Executing(c) /\ call[c] = Idle /\ UNCHANGED <<txn, minted>>
  BY DEF BeginPipeline
<1>2. txn[c] = NoTxn
  BY <1>1, ExecutesAlone DEF Mirroring, At, Busy
<1>3. run[c].job \in minted
  BY <1>1, AdmissionTypes DEF AdmissionOK, Phase, Executing
<1>4. CASE run[c].job \in Stored
  <2> DEFINE k == [op |-> "process", job |-> run[c].job, pc |-> "act",
                   ver |-> table[run[c].job].version, doc |-> table[run[c].job].doc]
  <2>1. call'[c] = k /\ UNCHANGED run /\ \A d \in Calls \ {c} : call'[d] = call[d]
    BY <1>4, AdmissionTypes, OneCall DEF BeginPipeline
  <2>2. AdmissionOK(c)'
    BY <1>1, <1>3, <2>1 DEF AdmissionOK, Phase, Executing, Busy
  <2> QED BY <1>1, <1>2, <2>1, <2>2, AdmissionTypes DEF Settles, OthersSame, TxnOK
<1>5. CASE run[c].job \notin Stored
  <2>1. UNCHANGED call /\ run' = [run EXCEPT ![c].phase = "raised"]
    BY <1>5 DEF BeginPipeline
  <2>2. /\ run' \in [Calls -> Run] /\ \A d \in Calls \ {c} : run'[d] = run[d]
        /\ run'[c].phase = "raised" /\ run'[c].job = run[c].job
    BY <1>1, <2>1, PhaseMoves DEF Admitted, Executing, Phase
  <2>3. AdmissionOK(c)'
    BY <1>1, <1>3, <2>1, <2>2 DEF AdmissionOK, Phase, Executing, Busy
  <2> QED BY <1>1, <1>2, <2>1, <2>2, <2>3 DEF Settles, OthersSame, TxnOK
<1> QED BY <1>4, <1>5

LEMMA DoneSettles ==
  ASSUME PipelineInv, NEW c \in Calls, EndPipeline(c) \/ FailPipeline(c)
  PROVE  Settles(c)
<1>1. Executing(c) /\ UNCHANGED <<txn, minted>> /\ (ProcessDone(c) \/ ProcessFailed(c))
  BY DEF EndPipeline, FailPipeline, ProcessDone, ProcessFailed
<1>2. /\ Busy(c) /\ call[c].pc = "act" /\ call[c].op = "process"
      /\ \A d \in Calls \ {c} : call'[d] = call[d]
      /\ call'[c] = Idle \/ (call'[c].job = call[c].job /\ call'[c].pc = "mirror")
  BY <1>1, AdmissionTypes, DoneShape
<1>3. PICK p \in {"returned", "raised"} : run' = [run EXCEPT ![c].phase = p]
  BY DEF EndPipeline, FailPipeline
<1>4. /\ run' \in [Calls -> Run] /\ \A d \in Calls \ {c} : run'[d] = run[d]
      /\ run'[c].phase = p /\ run'[c].job = run[c].job
  BY <1>1, <1>3, PhaseMoves DEF Admitted, Executing, Phase
<1>5. txn[c] = NoTxn
  BY <1>1, <1>2, ExecutesAlone DEF Mirroring, At
<1>6. run[c].job \in minted /\ call[c].job = run[c].job
  BY <1>1, <1>2, AdmissionTypes DEF AdmissionOK, Phase, Executing
<1>7. AdmissionOK(c)'
  BY <1>1, <1>2, <1>4, <1>6 DEF AdmissionOK, Phase, Executing, Busy
<1> QED BY <1>1, <1>2, <1>4, <1>5, <1>7 DEF Settles, OthersSame, TxnOK

LEMMA MarkReadSettles ==
  ASSUME PipelineInv, NEW c \in Calls, MarkFailedRead(c)
  PROVE  Settles(c)
<1>1. Phase(c, "raised") /\ call[c] = Idle /\ UNCHANGED <<call, run, minted>>
  BY DEF MarkFailedRead, sessionVars, admissionVars
<1>2. txn'[c].job = run[c].job /\ \A d \in Calls \ {c} : txn'[d] = txn[d]
  BY ReadTxn DEF MarkFailedRead
<1>3. run[c].job \in minted
  BY <1>1, AdmissionTypes DEF AdmissionOK, Phase
<1>4. TxnOK(c)'
  BY <1>1, <1>2, <1>3 DEF TxnOK, Phase
<1>5. AdmissionOK(c)'
  BY <1>1, AdmissionTypes DEF AdmissionOK, Phase, Executing, Busy
<1> QED BY <1>1, <1>2, <1>4, <1>5, AdmissionTypes DEF Settles, OthersSame

(* A call that ends its admission. *)
LEMMA EndedSettles ==
  ASSUME PipelineInv, NEW c \in Calls, run' = [run EXCEPT ![c] = NoRun], txn'[c] = NoTxn,
         \A d \in Calls \ {c} : call'[d] = call[d] /\ txn'[d] = txn[d]
  PROVE  Settles(c)
<1>1. NoRun \in Run
  BY DEF Run
<1>2. run'[c] = NoRun /\ run' \in [Calls -> Run] /\ \A d \in Calls \ {c} : run'[d] = run[d]
  BY <1>1, RunUpdate
<1>3. Phase(c, "none")'
  BY <1>2 DEF Phase, NoRun
<1> QED BY <1>2, <1>3 DEF Settles, OthersSame, TxnOK, AdmissionOK, Phase, Executing

LEMMA MarkFlushSettles ==
  ASSUME PipelineInv, NEW c \in Calls, MarkFailedFlush(c)
  PROVE  Settles(c)
<1>1. txn'[c] = NoTxn /\ \A d \in Calls \ {c} : txn'[d] = txn[d]
  BY TxnUpdate DEF MarkFailedFlush, Store!UpsertFlush
<1> QED BY <1>1, EndedSettles DEF MarkFailedFlush, sessionVars

LEMMA FinishSettles ==
  ASSUME PipelineInv, NEW c \in Calls, Finish(c)
  PROVE  Settles(c)
<1>1. txn[c] = NoTxn
  BY AdmissionTypes, NoUpsert DEF Finish, Mirroring, At, Busy, Phase
<1> QED BY <1>1, EndedSettles DEF Finish, sessionVars

LEMMA CrashSettles ==
  ASSUME PipelineInv, NEW c \in Calls, Crash(c)
  PROVE  Settles(c)
<1>1. txn'[c] = NoTxn /\ \A d \in Calls \ {c} : txn'[d] = txn[d]
  BY TxnUpdate DEF Crash
<1>2. \A d \in Calls \ {c} : call'[d] = call[d]
  BY AdmissionTypes, OneCall DEF Crash, End
<1> QED BY <1>1, <1>2, EndedSettles DEF Crash

LEMMA RenewSettles ==
  ASSUME PipelineInv, NEW c \in Calls, Renew(c)
  PROVE  Settles(c)
<1>1. Admitted(c) /\ UNCHANGED <<call, txn, minted>>
  BY DEF Renew, Renewing, sessionVars, Store!Heartbeat
<1>2. PICK e : e \in {[run[c] EXCEPT !.due = HeartbeatEvery], [run[c] EXCEPT !.renewing = FALSE]}
               /\ run' = [run EXCEPT ![c] = e]
  BY DEF Renew
<1>3. HeartbeatEvery \in 0..HeartbeatEvery
  BY PipelineAssumption DEF PipelineAssumption
<1>4. e \in Run /\ e.phase = run[c].phase /\ e.job = run[c].job
  BY <1>1, <1>2, <1>3, AdmissionTypes, DueEdit, RenewingEdit DEF Admitted
<1>5. run'[c] = e /\ run' \in [Calls -> Run] /\ \A d \in Calls \ {c} : run'[d] = run[d]
  BY <1>2, <1>4, RunUpdate
<1>6. AdmissionOK(c)' /\ TxnOK(c)'
  BY <1>1, <1>4, <1>5, AdmissionTypes DEF AdmissionOK, TxnOK, Phase, Executing, Busy, Mirroring, At
<1> QED BY <1>1, <1>5, <1>6 DEF Settles, OthersSame

(* The step of one call keeps what is known of all. *)
LEMMA SettledAll ==
  ASSUME PipelineInv, minted \subseteq minted', NEW c \in Calls, Settles(c)
  PROVE  run' \in [Calls -> Run] /\ \A d \in Calls : AdmissionOK(d)' /\ TxnOK(d)'
<1>1. ASSUME NEW d \in Calls \ {c} PROVE AdmissionOK(d)' /\ TxnOK(d)'
  <2>1. call'[d] = call[d] /\ run'[d] = run[d] /\ txn'[d] = txn[d]
    BY DEF Settles, OthersSame
  <2>2. AdmissionOK(d) /\ TxnOK(d)
    BY AdmissionTypes
  <2> QED BY <2>1, <2>2, OtherKept
<1> QED BY <1>1 DEF Settles

(* Time moves the next heartbeat of a renew task, and nothing else. *)
LEMMA ElapsedRun ==
  ASSUME PipelineInv, Elapse, NEW d \in Calls
  PROVE  /\ run'[d] \in Run /\ run'[d].phase = run[d].phase
         /\ Renewing(d) => /\ run[d].due > 0 /\ run[d].due \in Nat
                           /\ run'[d].due = run[d].due - 1
                           /\ run'[d].renewing = run[d].renewing
         /\ ~Phase(d, "none") => run'[d].job = run[d].job
         /\ ~Renewing(d) => run'[d] = run[d]
<1>1. run'[d] = IF Renewing(d) THEN [run[d] EXCEPT !.due = @ - 1] ELSE run[d]
  BY DEF Elapse
<1>2. run[d] \in Run
  BY AdmissionTypes
<1>3. CASE ~Renewing(d)
  BY <1>1, <1>2, <1>3
<1>4. CASE Renewing(d)
  <2>1. run[d].phase \in {"executing", "returned", "raised"} /\ run[d].due > 0
    BY <1>4 DEF Elapse, Renewing, Admitted
  <2>2. run[d].due \in 0..HeartbeatEvery /\ HeartbeatEvery \in Nat
    BY <1>2, <2>1, RunRecord, PipelineAssumption DEF PipelineAssumption
  <2>3. run[d].due \in Nat /\ run[d].due - 1 \in 0..HeartbeatEvery
    BY <2>1, <2>2
  <2>4. run'[d] = [run[d] EXCEPT !.due = run[d].due - 1]
    BY <1>1, <1>4
  <2>5. /\ run'[d] \in Run /\ run'[d].phase = run[d].phase /\ run'[d].job = run[d].job
        /\ run'[d].renewing = run[d].renewing /\ run'[d].due = run[d].due - 1
    BY <1>2, <2>1, <2>3, <2>4, DueEdit
  <2> QED BY <1>4, <2>1, <2>3, <2>5
<1> QED BY <1>3, <1>4

LEMMA ElapseSettles ==
  ASSUME PipelineInv, Elapse
  PROVE  run' \in [Calls -> Run] /\ \A d \in Calls : AdmissionOK(d)' /\ TxnOK(d)'
<1>1. UNCHANGED <<call, minted, txn>>
  BY DEF Elapse, sessionVars, Store!Tick
<1>2. ASSUME NEW d \in Calls PROVE AdmissionOK(d)' /\ TxnOK(d)'
  <2>1. run'[d].phase = run[d].phase /\ (~Phase(d, "none") => run'[d].job = run[d].job)
    BY ElapsedRun
  <2>2. AdmissionOK(d) /\ TxnOK(d)
    BY AdmissionTypes
  <2> QED
    BY <1>1, <2>1, <2>2
    DEF AdmissionOK, TxnOK, Phase, Executing, Busy, Mirroring, At
<1>3. run' = [d \in Calls |-> run'[d]]
  BY DEF Elapse
<1>4. run' \in [Calls -> Run]
  BY <1>3, ElapsedRun
<1> QED BY <1>2, <1>4

(* Every step of a call settles. *)
LEMMA CallsSettle ==
  ASSUME PipelineInv, NEW c \in Calls,
         \/ CallStep(c) \/ Grant(c) \/ Renew(c) \/ Crash(c)
         \/ \E j \in Sessions : RequestProcess(c, j)
  PROVE  Settles(c)
<1>1. CASE SessionStep(c)
  <2>1. CallMay(c)
    BY <1>1, SessionStepMay
  <2> QED BY <1>1, <2>1, SessionStepSettles
<1> QED
  BY <1>1, MirrorReadSettles, MirrorFlushSettles, BeginSettles, DoneSettles,
     MarkReadSettles, MarkFlushSettles, FinishSettles, GrantSettles, RenewSettles,
     CrashSettles, RequestSettles
  DEF CallStep

(* Only the flush of an upsert, whose session was handed out, adds a row. *)
LEMMA RowsMinted ==
  ASSUME PipelineInv, PipelineNext
  PROVE  Store!Stored' \subseteq minted'
<1>1. minted \subseteq minted' /\ Store!Stored \subseteq minted
  BY PartsKept DEF Grows, PipelineInv, AdmissionInv
<1>2. ASSUME NEW c \in Calls, Store!UpsertFlush(c) PROVE Store!Stored' \subseteq minted'
  <2>1. StoreP!Stored' = StoreP!Stored \/ StoreP!Stored' = StoreP!Stored \cup {txn[c].job}
    BY <1>2, SameFlush, StoreAssumptions, StoreP!FlushedIds DEF PipelineInv
  <2>2. txn[c].job \in minted
    BY <1>2, AdmissionTypes DEF TxnOK, Store!UpsertFlush
  <2>3. Store!Stored' = StoreP!Stored' /\ Store!Stored = StoreP!Stored
    BY DEF Store!Stored, StoreP!Stored
  <2> QED BY <1>1, <2>1, <2>2, <2>3
<1>3. ASSUME NEW j, Store!TryStart(j) PROVE Store!Stored' = Store!Stored
  BY <1>3 DEF Store!TryStart, Store!AllReclaimed, Store!Stored
<1>4. ASSUME NEW j, Store!Heartbeat(j) PROVE Store!Stored' = Store!Stored
  BY <1>4 DEF Store!Heartbeat, Store!Stored
<1>5. ASSUME NEW old, NEW live, Store!EndOrphanedQueued(old, live)
      PROVE  Store!Stored' = Store!Stored
  BY <1>5 DEF Store!EndOrphanedQueued, Store!Stored
<1>6. Store!Tick => Store!Stored' = Store!Stored
  BY DEF Store!Tick, Store!Stored
<1>7. UNCHANGED rows => Store!Stored' = Store!Stored
  BY DEF Store!Stored
<1>8. \/ UNCHANGED rows \/ Store!Tick
      \/ \E c \in Calls : Store!UpsertFlush(c)
      \/ \E j : Store!TryStart(j) \/ Store!Heartbeat(j)
      \/ \E old, live : Store!EndOrphanedQueued(old, live)
  BY DEF PipelineNext, CallStep, SessionStep, MirrorRead, MirrorFlush, BeginPipeline,
       EndPipeline, FailPipeline, MarkFailedRead, MarkFailedFlush, Finish, Grant, Renew,
       Crash, RequestProcess, SweepList, SweepOrphans, Elapse, Store!UpsertRead
<1> QED BY <1>1, <1>2, <1>3, <1>4, <1>5, <1>6, <1>7, <1>8

(* The sweep keeps a list of old rows, and no session is ever added to it. *)
LEMMA SweepKept ==
  ASSUME PipelineInv, PipelineNext
  PROVE  sweep' \in Sweep /\ SweepOK'
<1>1. /\ Grows /\ SessionsInv'
      /\ StoreP!OldEnough \subseteq StoreP!OldEnough'
      /\ sweep \in Sweep /\ SweepOK /\ Store!Stored \subseteq minted /\ minted \subseteq Sessions
      /\ Stored \subseteq Sessions
  BY PartsKept DEF PipelineInv, AdmissionInv, SessionsInv, TableInv
<1>2. Store!OldEnough = StoreP!OldEnough /\ Store!OldEnough' = StoreP!OldEnough'
  BY DEF Store!OldEnough, StoreP!OldEnough, Store!Stored, StoreP!Stored
<1>3. Store!OldEnough \subseteq Store!Stored /\ NoSweep \in Sweep
  BY DEF Store!OldEnough, Sweep
<1>4. CASE SweepList
  <2>1. PICK old \in SUBSET Store!OldEnough :
          sweep' = [phase |-> "listed", old |-> old, live |-> Stored]
    BY <1>4 DEF SweepList
  <2>2. sweep' \in Sweep
    BY <1>1, <1>3, <2>1 DEF Sweep
  <2>3. sweep'.old = old /\ sweep'.live = Stored /\ UNCHANGED table /\ UNCHANGED rows
    BY <1>4, <2>1 DEF SweepList, sessionVars
  <2>4. old \subseteq Store!OldEnough'
    BY <1>1, <1>2, <2>1
  <2>5. Stored' = Stored
    BY <2>3 DEF Stored
  <2> QED BY <2>2, <2>3, <2>4, <2>5 DEF SweepOK
<1>5. CASE sweep' = NoSweep
  BY <1>3, <1>5 DEF SweepOK
<1>6. CASE UNCHANGED sweep
  <2>1. SUFFICES ASSUME sweep # NoSweep
                 PROVE  /\ sweep.old \subseteq Store!OldEnough'
                        /\ \A j \in sweep.old \ sweep.live : j \notin Stored'
    BY <1>1, <1>6 DEF SweepOK
  <2>2. sweep.old \subseteq Store!OldEnough /\ \A j \in sweep.old \ sweep.live : j \notin Stored
    BY <1>1, <2>1 DEF SweepOK
  <2>3. ASSUME NEW j \in sweep.old \ sweep.live PROVE j \notin Stored'
    <3>1. j \in minted /\ j \notin Stored
      BY <1>1, <1>3, <2>2
    <3> QED BY <1>1, <3>1 DEF Grows
  <2>4. sweep.old \subseteq Store!OldEnough'
    BY <1>1, <1>2, <2>2
  <2> QED BY <2>3, <2>4
<1>7. SweepList \/ sweep' = NoSweep \/ UNCHANGED sweep
  BY DEF PipelineNext, CallStep, SessionStep, MirrorRead, MirrorFlush, BeginPipeline,
       EndPipeline, FailPipeline, MarkFailedRead, MarkFailedFlush, Finish, Grant, Renew,
       Crash, RequestProcess, SweepOrphans, Elapse, admissionVars
<1> QED BY <1>4, <1>5, <1>6, <1>7

LEMMA CrashesKept ==
  ASSUME PipelineInv, PipelineNext
  PROVE  crashes' \in 0..MaxCrashes /\ (crashes' = 0 => crashes = 0 /\ ~\E c \in Calls : Crash(c))
<1>1. crashes \in 0..MaxCrashes /\ MaxCrashes \in Nat
  BY PipelineAssumption DEF PipelineInv, AdmissionInv, PipelineAssumption
<1>2. ASSUME NEW c \in Calls, Crash(c)
      PROVE  crashes' \in 0..MaxCrashes /\ crashes' # 0
  BY <1>1, <1>2 DEF Crash
<1>3. UNCHANGED crashes \/ \E c \in Calls : Crash(c)
  BY DEF PipelineNext, CallStep, SessionStep, MirrorRead, MirrorFlush, BeginPipeline,
       EndPipeline, FailPipeline, MarkFailedRead, MarkFailedFlush, Finish, Grant, Renew,
       RequestProcess, SweepList, SweepOrphans, Elapse, admissionVars
<1> QED BY <1>1, <1>2, <1>3

LEMMA AdmissionKept ==
  ASSUME PipelineInv, PipelineNext
  PROVE  run' \in [Calls -> Run] /\ \A d \in Calls : AdmissionOK(d)' /\ TxnOK(d)'
<1>1. minted \subseteq minted'
  BY PartsKept DEF Grows
<1>2. CASE \E c \in Calls : Settles(c)
  BY <1>1, <1>2, SettledAll
<1>3. CASE Elapse
  BY <1>3, ElapseSettles
<1>4. CASE SweepList \/ SweepOrphans
  <2>1. UNCHANGED <<call, run, txn>>
    BY <1>4 DEF SweepList, SweepOrphans, sessionVars, Store!EndOrphanedQueued
  <2>2. ASSUME NEW d \in Calls PROVE AdmissionOK(d)' /\ TxnOK(d)'
    BY <1>1, <2>1, AdmissionTypes, OtherKept
  <2> QED BY <2>1, <2>2 DEF PipelineInv, AdmissionInv
<1>5. (\E c \in Calls : Settles(c)) \/ Elapse \/ SweepList \/ SweepOrphans
  BY CallsSettle DEF PipelineNext
<1> QED BY <1>2, <1>3, <1>4, <1>5

LEMMA PipelineKeeps ==
  ASSUME PipelineInv, PipelineNext
  PROVE  PipelineInv'
BY PartsKept, AdmissionKept, RowsMinted, SweepKept, CrashesKept DEF PipelineInv, AdmissionInv

LEMMA PipelineStarts == PipelineInit => PipelineInv
<1> SUFFICES ASSUME PipelineInit PROVE PipelineInv
  OBVIOUS
<1>1. SessionsInv /\ minted = {} /\ call = [c \in Calls |-> Idle]
  BY InitKeeps DEF PipelineInit, SessionsInit
<1>2. StoreP!JobInit /\ StoreP!JobInv
  BY SameInit, StoreAssumptions, StoreP!JobInvInit DEF PipelineInit
<1>3. Store!Stored = {} /\ \A c \in Calls : txn[c] = NoTxn
  BY DEF PipelineInit, Store!JobInit, Store!Stored
<1>4. /\ run \in [Calls -> Run] /\ sweep = NoSweep /\ sweep \in Sweep
      /\ \A c \in Calls : Phase(c, "none")
  BY DEF PipelineInit, Run, NoRun, Sweep, Phase
<1>5. crashes \in 0..MaxCrashes
  BY PipelineAssumption DEF PipelineInit, PipelineAssumption
<1>6. \A c \in Calls : AdmissionOK(c) /\ TxnOK(c)
  BY <1>3, <1>4, Unadmitted DEF TxnOK
<1>7. SweepOK
  BY <1>4 DEF SweepOK
<1> QED BY <1>1, <1>2, <1>3, <1>4, <1>5, <1>6, <1>7 DEF PipelineInv, AdmissionInv

LEMMA PipelineStutters ==
  ASSUME PipelineInv, UNCHANGED pipelineVars
  PROVE  PipelineInv'
<1>1. UNCHANGED <<sessionVars, rows, txn, run, sweep, crashes>>
  BY DEF pipelineVars, admissionVars
<1>2. SessionsInv'
  BY <1>1, StutterKeeps DEF PipelineInv
<1>3. StoreP!JobInv'
  BY <1>1, StoreAssumptions, StoreP!JobInvNext DEF PipelineInv, StoreP!jobVars
<1>4. AdmissionInv'
  <2>1. UNCHANGED <<table, minted, call, rows, txn, run, sweep, crashes>>
    BY <1>1 DEF sessionVars
  <2>2. Store!Stored' = Store!Stored /\ Store!OldEnough' = Store!OldEnough /\ Stored' = Stored
    BY <2>1 DEF Store!Stored, Store!OldEnough, Stored
  <2>3. ASSUME NEW d \in Calls PROVE AdmissionOK(d)' /\ TxnOK(d)'
    BY <2>1, AdmissionTypes, OtherKept
  <2>4. SweepOK'
    BY <2>1, <2>2 DEF PipelineInv, AdmissionInv, SweepOK
  <2> QED BY <2>1, <2>2, <2>3, <2>4 DEF PipelineInv, AdmissionInv
<1> QED BY <1>2, <1>3, <1>4 DEF PipelineInv

LEMMA PipelineInvHolds == PipelineSpec => []PipelineInv
<1>1. PipelineInv /\ [PipelineNext]_pipelineVars => PipelineInv'
  BY PipelineKeeps, PipelineStutters
<1> QED BY <1>1, PipelineStarts, PTL DEF PipelineSpec

(***************************************************************************)
(* The theorems that the parts give.                                       *)
(***************************************************************************)

\* Every variable of the pipeline has its type, however admission, the
\* mirrors, the sweep and crashes interleave.
THEOREM PipelineTyped == PipelineSpec => []PipelineTypeOK
<1>1. PipelineInv => PipelineTypeOK
  BY InvImplies, SameTypeOK DEF PipelineInv, AdmissionInv, StoreP!JobInv, PipelineTypeOK
<1> QED BY <1>1, PipelineInvHolds, PTL

(* Of every step of the pipeline, a stutter included. *)
LEMMA PipelineIsStore ==
  ASSUME PipelineInv, [PipelineNext]_pipelineVars
  PROVE  [StoreP!JobNext]_(StoreP!jobVars)
<1>1. CASE UNCHANGED pipelineVars
  BY <1>1 DEF pipelineVars, StoreP!jobVars
<1> QED BY <1>1, StorePart

LEMMA PipelineIsSessions ==
  ASSUME PipelineInv, [PipelineNext]_pipelineVars
  PROVE  [SessionsMay]_sessionVars
<1>1. CASE UNCHANGED pipelineVars
  BY <1>1 DEF pipelineVars
<1> QED BY <1>1, SessionsPart

\* The rows of the pipeline behave as JobStates says of any clients: the
\* planner's mirrors, grants, heartbeats, sweeps and crashes are among the
\* calls that JobStates allows.
THEOREM PipelineRefinesJobs == PipelineSpec => StoreP!JobSpec
<1>1. PipelineInit => StoreP!JobInit
  BY SameInit DEF PipelineInit
<1>2. PipelineInv /\ [PipelineNext]_pipelineVars => [StoreP!JobNext]_(StoreP!jobVars)
  BY PipelineIsStore
<1> QED BY <1>1, <1>2, PipelineInvHolds, PTL DEF PipelineSpec, StoreP!JobSpec

\* The cap is never exceeded by the rows of the pipeline, whatever mirrors,
\* sweeps and crashes come between the grants.
THEOREM PipelineCapHolds == PipelineSpec => []SlotsWithinCap
<1>1. PipelineSpec => []StoreP!CapRespected
  <2>1. StoreP!JobSpec => []StoreP!CapRespected
    BY StoreAssumptions, StoreP!CapHolds
  <2> QED BY <2>1, PipelineRefinesJobs
<1>2. StoreP!CapRespected => SlotsWithinCap
  BY SameCap DEF SlotsWithinCap
<1> QED BY <1>1, <1>2, PTL

\* Admission, crashes and the real mirror add nothing to what the table may do:
\* each operation still takes effect in one step, on the current document.
THEOREM PipelineIsAtomic == PipelineSpec => AtomicSpec
<1>1. PipelineInit => Atomic!Init
  BY InitRefines DEF PipelineInit
<1>2. PipelineInv /\ [PipelineNext]_pipelineVars => [Atomic!Next]_(Atomic!vars)
  BY PipelineIsSessions, StepRefines DEF PipelineInv
<1> QED BY <1>1, <1>2, PipelineInvHolds, PTL DEF PipelineSpec, AtomicSpec, Atomic!Spec

\* What is proved of the sessions holds under admission too: copies are current,
\* stored approvals attest to the stored text.
THEOREM PipelineApprovalsAttest == PipelineSpec => [](CopyIsCurrent /\ ApprovalAttestsText)
<1>1. PipelineInv => CopyIsCurrent /\ ApprovalAttestsText
  BY InvImplies DEF PipelineInv
<1> QED BY <1>1, PipelineInvHolds, PTL

\* No worker thread that outlives a deletion, and no crash, brings a deleted
\* session back (#828).
THEOREM PipelineNoResurrection == PipelineSpec => DeletedStaysDeleted
<1> DEFINE Gone == \A j \in minted : j \notin Stored => j \notin Stored'
<1>1. PipelineInv /\ [PipelineNext]_pipelineVars => [Gone]_sessionVars
  <2>1. ASSUME SessionsInv, [SessionsMay]_sessionVars PROVE Gone
    BY <2>1, StepKeeps DEF Grows
  <2> QED BY <2>1, PipelineIsSessions DEF PipelineInv
<1> QED BY <1>1, PipelineInvHolds, PTL DEF PipelineSpec, DeletedStaysDeleted

\* The orphan pass of the sweep, however old its list of sessions, ends no row
\* of a session that exists (#901).
THEOREM SweepSparesLive == PipelineSpec => OrphanPassSparesLive
<1> DEFINE Spares == \A j \in Store!Stored :
                       SweepOrphans /\ rows'[j] # rows[j] => j \notin Stored
<1>1. ASSUME PipelineInv, SweepOrphans PROVE Spares
  <2>1. SweepOK /\ sweep # NoSweep
    BY <1>1 DEF PipelineInv, AdmissionInv, SweepOrphans
  <2>2. ASSUME NEW j \in Store!Stored, rows'[j] # rows[j]
        PROVE  j \in sweep.old \ sweep.live
    BY <1>1, <2>2 DEF SweepOrphans, Store!EndOrphanedQueued, Store!Orphan
  <2> QED BY <2>1, <2>2 DEF SweepOK
<1>2. PipelineInv /\ [PipelineNext]_pipelineVars => [Spares]_pipelineVars
  BY <1>1
<1> QED BY <1>2, PipelineInvHolds, PTL DEF PipelineSpec, OrphanPassSparesLive

(***************************************************************************)
(* Without crashes, every row that runs has a call that keeps its lease.   *)
(***************************************************************************)

(* The numbers of the lease, and what a keeper's record holds. *)
LEMMA LeaseNumbers ==
  ASSUME PipelineInv, NEW g \in Calls, Renewing(g)
  PROVE  /\ run[g].phase \in {"executing", "returned", "raised"}
         /\ run[g].due \in Nat /\ run[g].due + 2 <= Store!FreshLease
         /\ HeartbeatEvery + 2 <= Store!FreshLease
<1>1. run[g].phase \in {"executing", "returned", "raised"}
  BY DEF Renewing, Admitted
<1>2. run[g].due \in 0..HeartbeatEvery
  BY <1>1, AdmissionTypes, RunRecord
<1> QED BY <1>1, <1>2, PipelineAssumption DEF PipelineAssumption, Store!FreshLease

(* A keeper that a step leaves alone still serves its row. *)
LEMMA ServesStill ==
  ASSUME NEW g, NEW j, Serves(g, j),
         call'[g] = call[g], run'[g] = run[g], txn'[g] = txn[g]
  PROVE  Serves(g, j)'
BY DEF Serves, Renewing, Admitted, Phase

(* A keeper that goes on serving, at the same distance to its next heartbeat. *)
LEMMA KeepsStill ==
  ASSUME PipelineInv, NEW g \in Calls, NEW j, Keeps(g, j), Serves(g, j)',
         run'[g].due = run[g].due,
         rows'[j].lease = rows[j].lease \/ rows'[j].lease = Store!FreshLease
  PROVE  Keeps(g, j)'
<1>1. rows'[j].lease >= run[g].due + 2
  BY LeaseNumbers DEF Keeps, Serves
<1> QED BY <1>1 DEF Keeps

(* Reading its row, a keeper finds it running. *)
LEMMA ReadServes ==
  ASSUME PipelineInv, NEW g \in Calls, NEW j \in Store!Running, Serves(g, j),
         NEW s, Store!UpsertRead(g, j, s), UNCHANGED <<call, run>>
  PROVE  Serves(g, j)'
<1>1. txn'[g].loaded.found /\ txn'[g].loaded.lifecycle = "running"
  BY ReadTxn DEF Store!Running
<1> QED BY <1>1 DEF Serves, Renewing, Admitted, Phase

LEMMA MirrorReadServes ==
  ASSUME PipelineInv, NEW g \in Calls, NEW j \in Store!Running, Serves(g, j), MirrorRead(g)
  PROVE  Serves(g, j)' /\ run'[g] = run[g]
<1>1. UNCHANGED <<call, run>> /\ Mirroring(g) /\ Busy(g)
  BY DEF MirrorRead, sessionVars, admissionVars, Mirroring, At
<1>2. call[g].job = j
  BY <1>1, AdmissionTypes DEF Serves, Renewing, Admitted, AdmissionOK, Phase, Executing,
     Mirroring, At
<1>3. Store!UpsertRead(g, j, call[g].doc.status)
  BY <1>2 DEF MirrorRead
<1> QED BY <1>1, <1>3, ReadServes

LEMMA MarkReadServes ==
  ASSUME PipelineInv, NEW g \in Calls, NEW j \in Store!Running, Serves(g, j), MarkFailedRead(g)
  PROVE  Serves(g, j)' /\ run'[g] = run[g]
<1>1. UNCHANGED <<call, run>> /\ Store!UpsertRead(g, j, "failed")
  BY DEF MarkFailedRead, sessionVars, admissionVars, Serves
<1> QED BY <1>1, ReadServes

LEMMA BeginServes ==
  ASSUME PipelineInv, NEW g \in Calls, NEW j, Serves(g, j), BeginPipeline(g)
  PROVE  Serves(g, j)' /\ run'[g].due = run[g].due
<1>1. Executing(g) /\ UNCHANGED txn /\ Admitted(g)
  BY DEF BeginPipeline, Executing, Phase, Admitted
<1>2. CASE UNCHANGED run
  BY <1>1, <1>2 DEF Serves, Renewing, Admitted, Phase, Executing
<1>3. CASE run' = [run EXCEPT ![g].phase = "raised"]
  <2>1. /\ run'[g].phase = "raised" /\ run'[g].job = run[g].job
        /\ run'[g].renewing = run[g].renewing /\ run'[g].due = run[g].due
    BY <1>1, <1>3, PhaseMoves
  <2> QED BY <1>1, <2>1 DEF Serves, Renewing, Admitted, Phase
<1> QED BY <1>2, <1>3 DEF BeginPipeline

LEMMA DoneServes ==
  ASSUME PipelineInv, NEW g \in Calls, NEW j, Serves(g, j), EndPipeline(g) \/ FailPipeline(g)
  PROVE  Serves(g, j)' /\ run'[g].due = run[g].due
<1>1. UNCHANGED txn /\ Admitted(g)
  BY DEF EndPipeline, FailPipeline, Executing, Phase, Admitted
<1>2. PICK p \in {"returned", "raised"} : /\ run' = [run EXCEPT ![g].phase = p]
                                          /\ p = "returned" => ProcessDone(g) /\ Current(g)
  BY DEF EndPipeline, FailPipeline
<1>3. /\ run'[g].phase = p /\ run'[g].job = run[g].job
      /\ run'[g].renewing = run[g].renewing /\ run'[g].due = run[g].due
  BY <1>1, <1>2, PhaseMoves
<1>4. p = "returned" => call'[g] # Idle
  BY <1>2, AdmissionTypes, DoneHasMirror
<1> QED BY <1>1, <1>3, <1>4 DEF Serves, Renewing, Admitted, Phase

(* A keeper's own step that leaves the rows alone. *)
LEMMA QuietServes ==
  ASSUME PipelineInv, NEW g \in Calls, NEW j \in Store!Running, Serves(g, j),
         \/ SessionStep(g) \/ MirrorRead(g) \/ BeginPipeline(g) \/ EndPipeline(g)
         \/ FailPipeline(g) \/ MarkFailedRead(g) \/ Finish(g)
         \/ \E i \in Sessions : RequestProcess(g, i)
  PROVE  Serves(g, j)' /\ run'[g].due = run[g].due
<1>1. ~SessionStep(g) /\ ~Finish(g) /\ ~\E i \in Sessions : RequestProcess(g, i)
  BY DEF Serves, Renewing, Admitted, SessionStep, Finish, RequestProcess, Phase
<1> QED BY <1>1, MirrorReadServes, MarkReadServes, BeginServes, DoneServes

(* The last upsert of a keeper takes its row off running. *)
LEMMA FlushEndsRun ==
  ASSUME PipelineInv, NEW g \in Calls, NEW j, Serves(g, j), MirrorFlush(g) \/ MarkFailedFlush(g)
  PROVE  j \notin Store!Running'
<1>1. Store!UpsertFlush(g) /\ txn[g] # NoTxn
  BY DEF MirrorFlush, MarkFailedFlush, Store!UpsertFlush
<1>2. /\ txn[g].job = j /\ txn[g].loaded.found /\ txn[g].loaded.lifecycle = "running"
  BY <1>1, AdmissionTypes
  DEF Serves, Renewing, Admitted, AdmissionOK, TxnOK, Phase, Executing, Mirroring, At, MirrorFlush,
      MarkFailedFlush, Busy
<1>3. StoreP!UpsertFlush(g)
  BY <1>1, SameFlush
<1>4. ASSUME j \in StoreP!Running' PROVE FALSE
  BY <1>2, <1>3, <1>4, StoreAssumptions, StoreP!FlushRuns DEF PipelineInv
<1> QED BY <1>4 DEF Store!Running, Store!Stored, StoreP!Running, StoreP!Stored

(* A row that runs ran before with this lease, or a better one, or was granted. *)
LEMMA RanBefore ==
  ASSUME PipelineInv, PipelineNext, ~Elapse, NEW j \in Store!Running'
  PROVE  \/ /\ j \in Store!Running
            /\ rows'[j].lease = rows[j].lease \/ rows'[j].lease = Store!FreshLease
         \/ \E c \in Calls : Grant(c) /\ run[c].job = j /\ rows'[j].lease = Store!FreshLease
<1> DEFINE Before == /\ j \in Store!Running
                     /\ rows'[j].lease = rows[j].lease \/ rows'[j].lease = Store!FreshLease
<1>1. j \in StoreP!Running' /\ StoreP!JobInv /\ Store!FreshLease = StoreP!FreshLease
  BY DEF Store!Running, Store!Stored, StoreP!Running, StoreP!Stored, PipelineInv,
     Store!FreshLease, StoreP!FreshLease
<1>2. StoreP!Running = Store!Running
  BY SameSets
<1>3. UNCHANGED rows => Before
  BY DEF Store!Running, Store!Stored
<1>4. ASSUME NEW c \in Calls, Store!UpsertFlush(c) PROVE Before
  BY <1>1, <1>2, <1>4, SameFlush, StoreAssumptions, StoreP!FlushRuns
<1>5. ASSUME NEW c \in Calls, Grant(c)
      PROVE  Before \/ (run[c].job = j /\ rows'[j].lease = Store!FreshLease)
  <2>1. run[c].job \in Sessions
    BY <1>5, AdmissionTypes, RunRecord DEF Grant, Phase
  <2>2. StoreP!TryStart(run[c].job)
    BY <1>5, SameGrant DEF Grant
  <2> QED BY <1>1, <1>2, <2>1, <2>2, StoreAssumptions, StoreP!GrantRuns
<1>6. ASSUME NEW c \in Calls, Renew(c) PROVE Before
  <2>1. CASE Store!Heartbeat(run[c].job)
    <3>1. run[c].job \in Sessions
      BY <1>6, AdmissionTypes, RunRecord DEF Renew, Renewing, Admitted
    <3>2. StoreP!Heartbeat(run[c].job)
      BY <2>1, SameHeartbeat
    <3> QED BY <1>1, <1>2, <3>1, <3>2, StoreAssumptions, StoreP!HeartbeatRuns
  <2> QED BY <1>3, <1>6, <2>1 DEF Renew
<1>7. SweepOrphans => Before
  BY <1>1, <1>2, SameOrphans, StoreAssumptions, StoreP!OrphansRun DEF SweepOrphans
<1>8. \/ UNCHANGED rows \/ SweepOrphans
      \/ \E c \in Calls : Store!UpsertFlush(c) \/ Grant(c) \/ Renew(c)
  BY DEF PipelineNext, CallStep, SessionStep, MirrorRead, MirrorFlush, BeginPipeline,
       EndPipeline, FailPipeline, MarkFailedRead, MarkFailedFlush, Finish,
       Crash, RequestProcess, SweepList, Store!UpsertRead
<1> HIDE DEF Before
<1>9. Before \/ \E c \in Calls : Grant(c) /\ run[c].job = j /\ rows'[j].lease = Store!FreshLease
  BY <1>3, <1>4, <1>5, <1>6, <1>7, <1>8
<1> QED BY <1>9 DEF Before

(* The call that is granted a row keeps its lease. *)
LEMMA GrantKeeps ==
  ASSUME PipelineInv, NEW c \in Calls, Grant(c), NEW j, run[c].job = j,
         rows'[j].lease = Store!FreshLease
  PROVE  Keeps(c, j)'
<1> DEFINE r == [phase |-> "executing", job |-> run[c].job, renewing |-> TRUE,
                 due |-> HeartbeatEvery]
<1>1. Phase(c, "waiting") /\ UNCHANGED <<call, txn>> /\ run' = [run EXCEPT ![c] = r]
  BY DEF Grant, sessionVars, Store!TryStart
<1>2. call[c] = Idle
  BY <1>1, AdmissionTypes DEF AdmissionOK
<1>3. txn[c] = NoTxn
  BY <1>1, <1>2, AdmissionTypes, NoUpsert DEF Mirroring, At, Busy, Phase
<1>4. run'[c] = r
  BY <1>1, RunUpdate
<1>5. HeartbeatEvery + 2 <= Store!FreshLease /\ Store!FreshLease \in Nat
  BY PipelineAssumption DEF PipelineAssumption, Store!FreshLease
<1>6. Serves(c, j)'
  BY <1>1, <1>3, <1>4 DEF Serves, Renewing, Admitted, Phase
<1>7. run'[c].due = HeartbeatEvery
  BY <1>4
<1>8. rows'[j].lease >= run'[c].due + 2
  BY <1>5, <1>7
<1> QED BY <1>6, <1>8 DEF Keeps

(* A heartbeat of its keeper renews the lease of a row. *)
LEMMA RenewKeeps ==
  ASSUME PipelineInv, NEW g \in Calls, NEW j \in Store!Running, Keeps(g, j), Renew(g)
  PROVE  Keeps(g, j)'
<1>1. run[g].job = j /\ Renewing(g) /\ Serves(g, j)
  BY DEF Keeps, Serves
<1>2. /\ Store!Heartbeat(j) /\ run' = [run EXCEPT ![g].due = HeartbeatEvery]
      /\ UNCHANGED <<call, txn>>
  BY <1>1 DEF Renew, sessionVars, Store!Heartbeat
<1>3. rows'[j].lease = Store!FreshLease
  BY <1>2, AdmissionTypes DEF Store!Heartbeat, Store!Running, Store!Stored, StoreP!JobInv,
     StoreP!JobTypeOK, StoreP!Row
<1>4. PICK e : e = [run[g] EXCEPT !.due = HeartbeatEvery]
  OBVIOUS
<1>5. HeartbeatEvery \in 0..HeartbeatEvery
  BY PipelineAssumption DEF PipelineAssumption
<1>6. /\ e \in Run /\ e.phase = run[g].phase /\ e.job = run[g].job
      /\ e.renewing = run[g].renewing /\ e.due = HeartbeatEvery
  <2>1. run[g] \in Run /\ run[g].phase \in {"executing", "returned", "raised"}
    BY <1>1, AdmissionTypes DEF Renewing, Admitted
  <2> QED BY <1>4, <1>5, <2>1, DueEdit
<1>7. run'[g] = e
  BY <1>2, <1>4, RunUpdate
<1>8. Serves(g, j)'
  BY <1>1, <1>2, <1>6, <1>7 DEF Serves, Renewing, Admitted, Phase
<1>9. HeartbeatEvery + 2 <= Store!FreshLease /\ Store!FreshLease \in Nat
  BY PipelineAssumption DEF PipelineAssumption, Store!FreshLease
<1> QED BY <1>3, <1>6, <1>7, <1>8, <1>9, PipelineAssumption DEF Keeps, PipelineAssumption

(* Time takes one tick of the lease and one of the wait for the heartbeat. *)
LEMMA ElapseKeeps ==
  ASSUME PipelineInv, Elapse, NEW j \in Store!Running', NEW g \in Calls, Keeps(g, j)
  PROVE  Keeps(g, j)'
<1>1. Serves(g, j) /\ Renewing(g) /\ rows[j].lease >= run[g].due + 2
  BY DEF Keeps, Serves
<1>2. /\ run'[g].phase = run[g].phase /\ run[g].due > 0 /\ run[g].due \in Nat
      /\ run'[g].due = run[g].due - 1 /\ run'[g].renewing = run[g].renewing
      /\ run'[g].job = run[g].job
  BY <1>1, ElapsedRun DEF Renewing, Admitted, Phase
<1>3. UNCHANGED <<call, txn>>
  BY DEF Elapse, sessionVars, Store!Tick
<1>4. Serves(g, j)'
  BY <1>1, <1>2, <1>3 DEF Serves, Renewing, Admitted, Phase
<1>5. j \in StoreP!Running' /\ StoreP!JobInv
  BY DEF Store!Running, Store!Stored, StoreP!Running, StoreP!Stored, PipelineInv
<1>6. /\ j \in StoreP!Running
      /\ rows'[j].lease = IF rows[j].lease > StoreP!Lapsed THEN rows[j].lease - 1
                                                            ELSE rows[j].lease
  BY <1>5, SameTick, StoreAssumptions, StoreP!TickRuns DEF Elapse
<1>7. rows[j].lease \in StoreP!NoLease..StoreP!FreshLease
  BY <1>5, <1>6 DEF StoreP!JobInv, StoreP!JobTypeOK, StoreP!Running, StoreP!Row
<1>8. rows[j].lease \in Nat
  BY <1>7, PipelineAssumption
  DEF StoreP!NoLease, StoreP!FreshLease, PipelineAssumption
<1>9. rows'[j].lease >= run'[g].due + 2
  BY <1>1, <1>2, <1>6, <1>8 DEF StoreP!Lapsed
<1> QED BY <1>4, <1>9 DEF Keeps

(* A call that a step of another call leaves alone. *)
LEMMA OtherKeeps ==
  ASSUME PipelineInv, NEW c \in Calls, Settles(c), NEW g \in Calls \ {c}, NEW j, Keeps(g, j),
         rows'[j].lease = rows[j].lease \/ rows'[j].lease = Store!FreshLease
  PROVE  Keeps(g, j)'
<1>1. call'[g] = call[g] /\ run'[g] = run[g] /\ txn'[g] = txn[g]
  BY DEF Settles, OthersSame
<1>2. Serves(g, j)'
  BY <1>1, ServesStill DEF Keeps
<1> QED BY <1>1, <1>2, KeepsStill

(* Whatever step comes, short of a crash, the keeper of a row that goes on
   running keeps it. *)
LEMMA KeeperKeeps ==
  ASSUME PipelineInv, PipelineNext, ~\E c \in Calls : Crash(c),
         NEW j \in Store!Running, j \in Store!Running', NEW g \in Calls, Keeps(g, j), ~Elapse,
         rows'[j].lease = rows[j].lease \/ rows'[j].lease = Store!FreshLease
  PROVE  Keeps(g, j)'
<1> DEFINE Quiet == \/ SessionStep(g) \/ MirrorRead(g) \/ BeginPipeline(g) \/ EndPipeline(g)
                    \/ FailPipeline(g) \/ MarkFailedRead(g) \/ Finish(g)
                    \/ \E i \in Sessions : RequestProcess(g, i)
<1>1. CASE Quiet
  <2>1. Serves(g, j)
    BY DEF Keeps
  <2>2. Serves(g, j)' /\ run'[g].due = run[g].due
    BY <1>1, <2>1, QuietServes
  <2> QED BY <2>2, KeepsStill
<1>2. CASE MirrorFlush(g) \/ MarkFailedFlush(g)
  BY <1>2, FlushEndsRun DEF Keeps
<1>3. CASE Renew(g)
  BY <1>3, RenewKeeps
<1>4. ~Grant(g)
  BY DEF Keeps, Serves, Renewing, Admitted, Grant, Phase
<1>5. CASE SweepList \/ SweepOrphans
  <2>1. UNCHANGED <<call, run, txn>>
    BY <1>5 DEF SweepList, SweepOrphans, sessionVars, Store!EndOrphanedQueued
  <2>2. Serves(g, j)'
    BY <2>1, ServesStill DEF Keeps
  <2> QED BY <2>1, <2>2, KeepsStill
<1>6. ASSUME NEW c \in Calls, c # g,
             \/ CallStep(c) \/ Grant(c) \/ Renew(c)
             \/ \E i \in Sessions : RequestProcess(c, i)
      PROVE  Keeps(g, j)'
  <2>1. Settles(c)
    BY <1>6, CallsSettle
  <2> QED BY <1>6, <2>1, OtherKeeps
<1>7. \/ Quiet \/ MirrorFlush(g) \/ MarkFailedFlush(g) \/ Renew(g)
      \/ SweepList \/ SweepOrphans
      \/ \E c \in Calls : /\ c # g
                          /\ \/ CallStep(c) \/ Grant(c) \/ Renew(c)
                             \/ \E i \in Sessions : RequestProcess(c, i)
  <2> HIDE DEF CallStep
  <2>1. PICK c \in Calls : \/ CallStep(c) \/ Grant(c) \/ Renew(c)
                           \/ \E i \in Sessions : RequestProcess(c, i)
                           \/ SweepList \/ SweepOrphans
    BY DEF PipelineNext
  <2>2. CASE c = g
    BY <1>4, <2>1, <2>2 DEF CallStep
  <2>3. CASE c # g
    BY <2>1, <2>3
  <2> QED BY <2>2, <2>3
<1> QED BY <1>1, <1>2, <1>3, <1>5, <1>6, <1>7

LEMMA HealthKept ==
  ASSUME PipelineInv, HealthInv, [PipelineNext]_pipelineVars
  PROVE  HealthInv'
<1>1. CASE UNCHANGED pipelineVars
  BY <1>1
  DEF pipelineVars, sessionVars, admissionVars, HealthInv, Keeps, Serves, Renewing, Admitted, Phase,
      Store!Running, Store!Stored
<1>2. ASSUME PipelineNext, crashes' = 0, NEW j \in Store!Running'
      PROVE  \E g \in Calls : Keeps(g, j)'
  <2>1. crashes = 0 /\ ~\E c \in Calls : Crash(c)
    BY <1>2, CrashesKept
  <2>2. \A i \in Store!Running : \E g \in Calls : Keeps(g, i)
    BY <2>1 DEF HealthInv
  <2>3. CASE Elapse
    <3>1. j \in Store!Running
      <4>1. j \in StoreP!Running' /\ StoreP!Tick /\ StoreP!JobInv
        BY <1>2, <2>3, SameTick
        DEF Elapse, Store!Running, Store!Stored, StoreP!Running, StoreP!Stored, PipelineInv
      <4> QED BY <4>1, StoreAssumptions, StoreP!TickRuns, SameSets
    <3> QED BY <1>2, <2>2, <2>3, <3>1, ElapseKeeps
  <2>4. CASE ~Elapse
    <3>1. CASE \E c \in Calls : Grant(c) /\ run[c].job = j /\ rows'[j].lease = Store!FreshLease
      BY <3>1, GrantKeeps
    <3>2. CASE /\ j \in Store!Running
               /\ rows'[j].lease = rows[j].lease \/ rows'[j].lease = Store!FreshLease
      BY <1>2, <2>1, <2>2, <2>4, <3>2, KeeperKeeps
    <3> QED BY <1>2, <2>4, <3>1, <3>2, RanBefore
  <2> QED BY <2>3, <2>4
<1> QED BY <1>1, <1>2 DEF HealthInv

LEMMA HealthStarts == PipelineInit => HealthInv
BY DEF PipelineInit, Store!JobInit, HealthInv, Store!Running, Store!Stored

LEMMA HealthImplies == PipelineInv /\ HealthInv => HealthyNeverReclaimed
<1> SUFFICES ASSUME PipelineInv, HealthInv, crashes = 0, NEW c \in Calls, Renewing(c),
                    run[c].job \in Store!Running
             PROVE  rows[run[c].job].lease # Store!Lapsed
  BY DEF HealthyNeverReclaimed
<1>1. PICK g \in Calls : Keeps(g, run[c].job)
  BY DEF HealthInv
<1>2. run[g].due \in Nat /\ rows[run[c].job].lease >= run[g].due + 2
  BY <1>1, LeaseNumbers DEF Keeps, Serves
<1> QED BY <1>2 DEF Store!Lapsed

\* A healthy long plan is never taken for a dead one: without crashes, the row
\* that holds the slot of a call whose renew task runs never has a lapsed lease.
THEOREM HealthyKeepTheirSlot == PipelineSpec => []HealthyNeverReclaimed
<1>1. PipelineInit => HealthInv
  BY HealthStarts
<1>2. PipelineInv /\ HealthInv /\ [PipelineNext]_pipelineVars => HealthInv'
  BY HealthKept
<1>3. PipelineInv /\ HealthInv => HealthyNeverReclaimed
  BY HealthImplies
<1> QED BY <1>1, <1>2, <1>3, PipelineInvHolds, PTL DEF PipelineSpec
==============================================================================
