------------------------------ MODULE JobStates ------------------------------
(***************************************************************************)
(* The job_states table: one durable row per planning job, shared by every *)
(* replica.  The row carries the job's status, its lifecycle state and the *)
(* lease that keeps its admission slot, and the number of running rows is  *)
(* what the admission cap limits.                                          *)
(*                                                                         *)
(* Source: apps/web-server/server/jobstore/store.py and models.py.         *)
(*                                                                         *)
(* One action is one statement or one transaction that the database runs   *)
(* atomically.  `upsert` is two: it loads the row without locking it, and  *)
(* its flush later UPDATEs only the columns whose value differs from what  *)
(* was loaded, so a transaction of another client may commit in between.   *)
(* `try_start` is one: it takes the admission advisory lock and its own    *)
(* row FOR UPDATE, and a denied grant rolls back whatever it reclaimed.    *)
(*                                                                         *)
(* The callers are not modelled here: any client may call any method at    *)
(* any time.  PlanPipeline restricts them to the calls the planner makes.  *)
(***************************************************************************)
EXTENDS Naturals, FiniteSets, Lifecycle

CONSTANTS
  Jobs,          \* job ids (the plan session ids)
  Clients,       \* threads that may be inside an upsert
  SavedStatuses, \* the native statuses that callers pass to upsert
  LegacyJobs,    \* rows a release without the `discarded` mapping left behind
  Cap,           \* PFACTORY_MAX_CONCURRENT_PLANS; 0 stands for unlimited
  LeaseTTL,      \* PFACTORY_PLAN_LEASE_TTL_SECONDS, in ticks
  SweepAge,      \* age after which a queued row may be an orphan, in ticks
  NoTxn          \* a client that is not inside an upsert

VARIABLES rows, txn
jobVars == <<rows, txn>>

\* Time is relative: a lease is the number of ticks it has left, plus one.
NoLease    == 0                  \* lease_expires_at IS NULL
Lapsed     == 1                  \* lease_expires_at < now
FreshLease == LeaseTTL + 1

Row == [ status    : NativeStatuses,        \* service_status
         lifecycle : LifecycleStates,       \* lifecycle_state
         lease     : NoLease..FreshLease,   \* lease_expires_at
         ended     : BOOLEAN,               \* ended_at IS NOT NULL
         error     : BOOLEAN,               \* error IS NOT NULL
         age       : 0..SweepAge ]          \* now - created_at, up to SweepAge

\* What session.get returned: no row, or the columns that a flush compares.
Loaded == [found : {TRUE}, status : NativeStatuses, lifecycle : LifecycleStates]
            \cup [found : {FALSE}]

Txn == [job : Jobs, status : NativeStatuses, loaded : Loaded]

ASSUME JobStatesAssumption ==
  /\ SavedStatuses \subseteq NativeStatuses
  /\ LegacyJobs \subseteq Jobs /\ IsFiniteSet(LegacyJobs)
  /\ Cap \in Nat /\ SweepAge \in Nat
  /\ LeaseTTL \in Nat \ {0}
  /\ NoTxn \notin Txn

\* No caller passes upsert a status that maps to running: process() sets its two
\* running statuses on a private copy and saves it only afterwards.
ASSUME OnlyGrantsRun == \A s \in SavedStatuses : LifecycleFor(s) # "running"

Stored  == DOMAIN rows
Running == {j \in Stored : rows[j].lifecycle = "running"}

Put(j, r) == [k \in Stored \cup {j} |-> IF k = j THEN r ELSE rows[k]]

\* A row written by the release that did not map `discarded`: the running
\* fallback gave it a slot, and only try_start ever stamps a lease.
LegacyRow == [status |-> "discarded", lifecycle |-> "running", lease |-> NoLease,
              ended |-> FALSE, error |-> FALSE, age |-> 0]

JobInit ==
  /\ rows = [j \in LegacyJobs |-> LegacyRow]
  /\ txn = [c \in Clients |-> NoTxn]

------------------------------------------------------------------------------
(* upsert *)

\* session.get(JobState, job_id): the row as committed now, not locked.
UpsertRead(c, j, s) ==
  /\ txn[c] = NoTxn
  /\ txn' = [txn EXCEPT ![c] =
       [job |-> j, status |-> s,
        loaded |-> IF j \in Stored
                   THEN [found |-> TRUE, status |-> rows[j].status,
                         lifecycle |-> rows[j].lifecycle]
                   ELSE [found |-> FALSE]]]
  /\ UNCHANGED rows

\* An attribute assigned the value it was loaded with is not in the UPDATE.
Flushed(new, loaded, current) == IF new # loaded THEN new ELSE current

InsertedRow(s) ==
  [status |-> s, lifecycle |-> LifecycleFor(s), lease |-> NoLease,
   ended |-> LifecycleFor(s) \in TerminalLifecycle,
   error |-> LifecycleFor(s) = "failed", age |-> 0]

\* Mutants: the native status lands in the lifecycle column; no reason is written.
UpdatedRowUnmapped(cur, loaded, s) ==
  [cur EXCEPT !.status = Flushed(s, loaded.status, @), !.lifecycle = s]

UpdatedRowNoReason(cur, loaded, s) ==
  [cur EXCEPT
    !.status    = Flushed(s, loaded.status, @),
    !.lifecycle = Flushed(LifecycleFor(s), loaded.lifecycle, @),
    !.ended     = @ \/ LifecycleFor(s) \in TerminalLifecycle]

\* ended_at is a fresh timestamp, so always written; no path clears ended_at,
\* error or the lease.
UpdatedRow(cur, loaded, s) ==
  [cur EXCEPT
    !.status    = Flushed(s, loaded.status, @),
    !.lifecycle = Flushed(LifecycleFor(s), loaded.lifecycle, @),
    !.ended     = @ \/ LifecycleFor(s) \in TerminalLifecycle,
    !.error     = @ \/ LifecycleFor(s) = "failed"]

\* Flush and commit.  An INSERT that finds the row there fails, and the caller
\* swallows the error.
UpsertFlush(c) ==
  /\ txn[c] # NoTxn
  /\ LET t == txn[c] IN
       rows' = IF t.loaded.found
               THEN Put(t.job, UpdatedRow(rows[t.job], t.loaded, t.status))
               ELSE IF t.job \in Stored THEN rows
               ELSE Put(t.job, InsertedRow(t.status))
  /\ txn' = [txn EXCEPT ![c] = NoTxn]

\* session.begin(): an upsert that raises, or whose process dies, between its
\* read and its flush leaves nothing behind.
Rollback(c) ==
  /\ txn[c] # NoTxn
  /\ txn' = [txn EXCEPT ![c] = NoTxn]
  /\ UNCHANGED rows

------------------------------------------------------------------------------
(* leases: reclaim, heartbeat, grant *)

LeaseExpired(r) == r.lifecycle = "running" /\ r.lease = Lapsed

LeakedSlot(r) ==
  r.lifecycle = "running" /\ r.lease = NoLease /\ r.status \in TerminalNativeStatuses

\* _reclaim_on: expired leases first, then leaseless rows whose own status is
\* terminal (these keep their status, and get no error).
Reclaimed(r) ==
  IF LeaseExpired(r)
  THEN [r EXCEPT !.lifecycle = "failed", !.status = "failed", !.error = TRUE,
                 !.ended = TRUE, !.lease = NoLease]
  ELSE IF LeakedSlot(r)
  THEN [r EXCEPT !.lifecycle = LifecycleFor(r.status), !.ended = TRUE]
  ELSE r

AllReclaimed == [j \in Stored |-> Reclaimed(rows[j])]

\* The reclaim in a transaction of its own; a grant runs it in its own.
ReclaimExpired ==
  /\ rows' = AllReclaimed
  /\ UNCHANGED txn

HoldsSlot(r) == r.lifecycle = "running"

\* Mutant: the cap is compared with <=.
SlotFreeOffByOne ==
  Cap = 0 \/ Cardinality({j \in Stored : HoldsSlot(AllReclaimed[j])}) <= Cap

SlotFree == Cap = 0 \/ Cardinality({j \in Stored : HoldsSlot(AllReclaimed[j])}) < Cap

\* Mutant: the grant leaves lease_expires_at as it finds it.
GrantedRowNoLease(r) == [r EXCEPT !.lifecycle = "running", !.status = "processing"]

GrantedRow(r) == [r EXCEPT !.lifecycle = "running", !.status = "processing",
                           !.lease = FreshLease]

\* try_start raises SlotDenied: no row, or the cap is full.
Denied(j) ==
  j \notin Stored \/ (~HoldsSlot(AllReclaimed[j]) /\ ~SlotFree)

\* A job already running is answered as it is: no second slot, no new lease.
TryStart(j) ==
  /\ ~Denied(j)
  /\ rows' = [AllReclaimed EXCEPT ![j] = IF HoldsSlot(@) THEN @ ELSE GrantedRow(@)]
  /\ UNCHANGED txn

\* Mutant: the heartbeat reports the row and does not extend its lease.
HeartbeatNoRenewal(j) == j \in Running /\ UNCHANGED jobVars

\* True for the caller exactly when the row is still running.
Heartbeat(j) ==
  /\ j \in Running
  /\ rows' = [rows EXCEPT ![j].lease = FreshLease]
  /\ UNCHANGED txn

------------------------------------------------------------------------------
(* the orphan pass of the stale-ingest sweep *)

\* created_at never changes: a row once old enough stays in every later limit.
OldEnough == {j \in Stored : rows[j].age = SweepAge}

Orphan(j, old, live) ==
  /\ j \in old \ live
  /\ rows[j].lifecycle = "queued" /\ ~rows[j].ended

\* old: the rows created before the caller's limit; live: the caller's list of
\* sessions.  The UPDATE repeats the predicate, the two sets are the caller's.
EndOrphanedQueued(old, live) ==
  /\ rows' = [j \in Stored |->
       IF Orphan(j, old, live)
       THEN [rows[j] EXCEPT !.status = "discarded", !.ended = TRUE, !.error = TRUE,
                            !.lifecycle = LifecycleFor("discarded")]
       ELSE rows[j]]
  /\ UNCHANGED txn

------------------------------------------------------------------------------
\* One tick of time.  A lease lapses, and a row is old enough to be an orphan,
\* once and for good.
Older(r) == [r EXCEPT !.lease = IF @ > Lapsed THEN @ - 1 ELSE @,
                      !.age   = IF @ < SweepAge THEN @ + 1 ELSE @]

Tick ==
  /\ rows' = [j \in Stored |-> Older(rows[j])]
  /\ UNCHANGED txn

JobNext ==
  \/ \E c \in Clients, j \in Jobs, s \in SavedStatuses : UpsertRead(c, j, s)
  \/ \E c \in Clients : UpsertFlush(c) \/ Rollback(c)
  \/ \E j \in Jobs : TryStart(j)
  \/ \E j \in Jobs : Heartbeat(j)
  \/ ReclaimExpired
  \/ \E old \in SUBSET OldEnough : EndOrphanedQueued(old, {})
  \/ Tick

JobSpec == JobInit /\ [][JobNext]_jobVars

------------------------------------------------------------------------------
(* Properties *)

\* Every variable has its type.
JobTypeOK ==
  /\ Stored \subseteq Jobs
  /\ rows \in [Stored -> Row]
  /\ txn \in [Clients -> Txn \cup {NoTxn}]

\* store.py: "the cap can never be exceeded".  However grants, flushes of stale
\* reads, reclaims and sweeps interleave, no more rows run than the cap allows,
\* or than an earlier release had already leaked.
CapRespected ==
  Cap = 0 \/ Cardinality(Running) <= Cap \/ Cardinality(Running) <= Cardinality(LegacyJobs)

\* store.py, _reclaim_leaseless_terminal_on: no running row is out of reach of
\* both reclaim paths.  A row that runs holds a lease, which will lapse, or is
\* leaseless and already terminal by its own status.
SlotsReclaimable ==
  \A j \in Running : rows[j].lease # NoLease \/ LeakedSlot(rows[j])

\* store.py, upsert: "a terminal failure MUST carry a reason".  A slot that an
\* earlier release leaked is reclaimed as failed without one.
FailureCarriesReason ==
  \A j \in Stored \ LegacyJobs : rows[j].lifecycle = "failed" => rows[j].error
==============================================================================
