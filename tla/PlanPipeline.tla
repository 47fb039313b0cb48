----------------------------- MODULE PlanPipeline -----------------------------
(***************************************************************************)
(* The planning pipeline end to end: the sessions of PlanSessions, the     *)
(* job_states rows of JobStates that mirror them, and the durable          *)
(* admission that runs process() under a slot and a lease.                 *)
(*                                                                         *)
(* Source: apps/backend/plan/service.py (process_async, _durable_admit,    *)
(* _renew_lease, _mirror, discard_stale_ingested) over jobstore/store.py.  *)
(*                                                                         *)
(* A call that processes a session waits for a slot, runs the pipeline in  *)
(* a worker thread while a task renews the lease, and ends.  A crash takes *)
(* a call with everything it holds in memory, and no cleanup runs.         *)
(***************************************************************************)
EXTENDS PlanSessions

CONSTANTS
  Cap,             \* PFACTORY_MAX_CONCURRENT_PLANS
  LeaseTTL,        \* PFACTORY_PLAN_LEASE_TTL_SECONDS, in ticks
  HeartbeatEvery,  \* lease_heartbeat_interval, in ticks
  SweepAge,        \* PFACTORY_INGESTED_TTL of the sweep, in ticks
  MaxCrashes,      \* bound on the crashes
  NoTxn            \* a call that is not inside an upsert

VARIABLES
  rows,     \* job_states
  txn,      \* the upsert each call is in
  run,      \* the admission of each call that processes a session
  sweep,    \* the stale-ingest sweep between its list and its orphan pass
  crashes   \* crashes so far
admissionVars == <<run, sweep, crashes>>
pipelineVars  == <<sessionVars, rows, txn, admissionVars>>

Store == INSTANCE JobStates WITH Jobs <- Sessions, Clients <- Calls,
                                 SavedStatuses <- Statuses, LegacyJobs <- {}

\* The lease outlives the wait for the next heartbeat.
ASSUME PipelineAssumption ==
  /\ HeartbeatEvery \in Nat \ {0} /\ LeaseTTL \in Nat
  /\ HeartbeatEvery < LeaseTTL
  /\ Cap \in Nat /\ SweepAge \in Nat /\ MaxCrashes \in Nat
  /\ NoTxn \notin Store!Txn

NoRun   == [phase |-> "none"]
NoSweep == [phase |-> "none"]

\* renewing: the renew task runs; due: ticks until its next heartbeat.
Run == [phase : {"waiting"}, job : Sessions]
         \cup [phase : {"executing", "returned", "raised"}, job : Sessions,
               renewing : BOOLEAN, due : 0..HeartbeatEvery]
         \cup {NoRun}

Sweep == [phase : {"listed"}, old : SUBSET Sessions, live : SUBSET Sessions]
           \cup {NoSweep}

PipelineInit ==
  /\ SessionsInit
  /\ Store!JobInit
  /\ run = [c \in Calls |-> NoRun]
  /\ sweep = NoSweep
  /\ crashes = 0

Phase(c, phase) == run[c].phase = phase
Admitted(c)  == run[c].phase \in {"executing", "returned", "raised"}
Executing(c) == Phase(c, "executing")
Renewing(c)  == Admitted(c) /\ run[c].renewing

------------------------------------------------------------------------------
(* calls that do not process: PlanSessions with the mirror made concrete *)

\* Everything but the mirror, for a call outside admission.
SessionStep(c) ==
  /\ Phase(c, "none")
  /\ \/ \E j \in Sessions : Ingest(c, j)
     \/ \E j \in Sessions, op \in Ops \ {"process"} : Load(c, j, op)
     \/ Operation(c)
  /\ UNCHANGED <<rows, txn, admissionVars>>

\* _mirror, first half: the upsert loads the row of the session just saved.
Mirroring(c) == At(c, "mirrorFirst") \/ At(c, "mirrorAct") \/ At(c, "mirror")

MirrorRead(c) ==
  /\ Mirroring(c)
  /\ Store!UpsertRead(c, call[c].job, call[c].doc.status)
  /\ UNCHANGED <<sessionVars, admissionVars>>

\* _mirror, second half: the row is written and the call goes on.
MirrorFlush(c) ==
  /\ Mirroring(c)
  /\ Store!UpsertFlush(c)
  /\ Mirrored(c)
  /\ UNCHANGED <<table, minted, events, admissionVars>>

------------------------------------------------------------------------------
(* _durable_admit *)

\* The request got through its guards; it polls try_start until it is granted.
RequestProcess(c, j) ==
  /\ "process" \in Ops
  /\ call[c] = Idle /\ Phase(c, "none")
  /\ j \in Stored /\ table[j].version < MaxVersion
  /\ run' = [run EXCEPT ![c] = [phase |-> "waiting", job |-> j]]
  /\ UNCHANGED <<sessionVars, rows, txn, sweep, crashes>>

\* A denied poll changes nothing.  A granted one starts the renew task, whose
\* first heartbeat comes one interval later.
Grant(c) ==
  /\ Phase(c, "waiting")
  /\ Store!TryStart(run[c].job)
  /\ run' = [run EXCEPT ![c] = [phase |-> "executing", job |-> run[c].job,
                                renewing |-> TRUE, due |-> HeartbeatEvery]]
  /\ UNCHANGED <<sessionVars, sweep, crashes>>

\* The worker thread reads the session; a session deleted meanwhile raises.
BeginPipeline(c) ==
  /\ Executing(c) /\ call[c] = Idle
  /\ IF run[c].job \in Stored
     THEN /\ call' = [call EXCEPT ![c] =
               [op |-> "process", job |-> run[c].job, pc |-> "act",
                ver |-> table[run[c].job].version, doc |-> table[run[c].job].doc]]
          /\ UNCHANGED run
     ELSE /\ run' = [run EXCEPT ![c].phase = "raised"]
          /\ UNCHANGED call
  /\ UNCHANGED <<table, minted, events, rows, txn, sweep, crashes>>

\* process() saved its results, or was refused and raises StaleSessionError.
EndPipeline(c) ==
  /\ Executing(c)
  /\ ProcessDone(c)
  /\ run' = [run EXCEPT ![c].phase = IF Current(c) THEN "returned" ELSE "raised"]
  /\ UNCHANGED <<rows, txn, sweep, crashes>>

\* process() raised, whether or not it could save the failed status.
FailPipeline(c) ==
  /\ Executing(c)
  /\ ProcessFailed(c)
  /\ run' = [run EXCEPT ![c].phase = "raised"]
  /\ UNCHANGED <<rows, txn, sweep, crashes>>

\* The except branch: any exception marks the row failed, whatever the session.
MarkFailedRead(c) ==
  /\ Phase(c, "raised") /\ call[c] = Idle
  /\ Store!UpsertRead(c, run[c].job, "failed")
  /\ UNCHANGED <<sessionVars, admissionVars>>

\* Mutant: the handler swallows the exception and the call goes on.
MarkFailedAndStay(c) ==
  /\ Phase(c, "raised") /\ call[c] = Idle
  /\ Store!UpsertFlush(c)
  /\ UNCHANGED <<sessionVars, admissionVars>>

MarkFailedFlush(c) ==
  /\ Phase(c, "raised") /\ call[c] = Idle
  /\ Store!UpsertFlush(c)
  /\ run' = [run EXCEPT ![c] = NoRun]
  /\ UNCHANGED <<sessionVars, sweep, crashes>>

\* The call returned: renew.cancel().
Finish(c) ==
  /\ Phase(c, "returned") /\ call[c] = Idle
  /\ run' = [run EXCEPT ![c] = NoRun]
  /\ UNCHANGED <<sessionVars, rows, txn, sweep, crashes>>

\* _renew_lease: a heartbeat that finds the row not running ends the task.
Renew(c) ==
  /\ Renewing(c) /\ run[c].due = 0
  /\ IF run[c].job \in Store!Running
     THEN /\ Store!Heartbeat(run[c].job)
          /\ run' = [run EXCEPT ![c].due = HeartbeatEvery]
     ELSE /\ run' = [run EXCEPT ![c].renewing = FALSE]
          /\ UNCHANGED <<rows, txn>>
  /\ UNCHANGED <<sessionVars, sweep, crashes>>

------------------------------------------------------------------------------
(* the orphan pass of discard_stale_ingested *)

\* The age limit is taken before the sessions are listed.
SweepList ==
  /\ sweep = NoSweep /\ "sweep" \in Ops
  /\ \E old \in SUBSET Store!OldEnough :
       sweep' = [phase |-> "listed", old |-> old, live |-> Stored]
  /\ UNCHANGED <<sessionVars, rows, txn, run, crashes>>

\* Mutant: the age limit is taken when the rows are updated.
SweepLateLimit ==
  /\ sweep # NoSweep
  /\ Store!EndOrphanedQueued(Store!OldEnough, sweep.live)
  /\ sweep' = NoSweep
  /\ UNCHANGED <<sessionVars, run, crashes>>

SweepOrphans ==
  /\ sweep # NoSweep
  /\ Store!EndOrphanedQueued(sweep.old, sweep.live)
  /\ sweep' = NoSweep
  /\ UNCHANGED <<sessionVars, run, crashes>>

------------------------------------------------------------------------------
(* time and crashes *)

\* A healthy renew task is never late: time waits for a heartbeat that is due.
Elapse ==
  /\ \A c \in Calls : Renewing(c) => run[c].due > 0
  /\ Store!Tick
  /\ run' = [c \in Calls |-> IF Renewing(c) THEN [run[c] EXCEPT !.due = @ - 1]
                                            ELSE run[c]]
  /\ UNCHANGED <<sessionVars, sweep, crashes>>

\* SIGKILL, OOM or eviction: no except, no finally; an open transaction aborts.
Crash(c) ==
  /\ crashes < MaxCrashes
  /\ call[c] # Idle \/ ~Phase(c, "none")
  /\ crashes' = crashes + 1
  /\ End(c)
  /\ txn' = [txn EXCEPT ![c] = NoTxn]
  /\ run' = [run EXCEPT ![c] = NoRun]
  /\ UNCHANGED <<table, minted, events, rows, sweep>>

------------------------------------------------------------------------------
CallStep(c) ==
  \/ SessionStep(c) \/ MirrorRead(c) \/ MirrorFlush(c)
  \/ BeginPipeline(c) \/ EndPipeline(c) \/ FailPipeline(c)
  \/ MarkFailedRead(c) \/ MarkFailedFlush(c) \/ Finish(c)

PipelineNext ==
  \/ \E c \in Calls :
       \/ CallStep(c) \/ Grant(c) \/ Renew(c) \/ Crash(c)
       \/ \E j \in Sessions : RequestProcess(c, j)
  \/ SweepList \/ SweepOrphans
  \/ Elapse

\* A call that has begun, polls for its slot or holds it.
Begun(c) == Busy(c) \/ ~Phase(c, "none")

\* A thread that can take its next step takes it, the poll of a waiting call
\* is repeated for ever, the event loop runs the renew task, time passes.
Fairness ==
  /\ \A c \in Calls : /\ WF_pipelineVars(Begun(c) /\ (CallStep(c) \/ Grant(c)))
                      /\ WF_pipelineVars(Renew(c))
  /\ WF_pipelineVars(Elapse)

PipelineSpec     == PipelineInit /\ [][PipelineNext]_pipelineVars
FairPipelineSpec == PipelineSpec /\ Fairness

------------------------------------------------------------------------------
(* Properties *)

\* Every variable has its type.
PipelineTypeOK ==
  /\ SessionsTypeOK
  /\ Store!JobTypeOK
  /\ run \in [Calls -> Run]
  /\ sweep \in Sweep
  /\ crashes \in 0..MaxCrashes

\* store.py: "the cap can never be exceeded": rows in state running.
SlotsWithinCap == Store!CapRespected

\* _durable_admit: "a HEALTHY long plan is never reclaimed as a dead one".  While
\* a call executes its pipeline and its renew task keeps time, the row that
\* holds its slot never has a lapsed lease, so no grant takes the slot away.
\* (A call granted the row of a session whose owner crashed, whose first
\* heartbeat comes after that lease lapses, is not covered.)
HealthyNeverReclaimed ==
  crashes = 0 =>
    \A c \in Calls :
      Renewing(c) /\ run[c].job \in Store!Running =>
        rows[run[c].job].lease # Store!Lapsed

\* #901: rows whose session is listed are left alone.  The orphan pass never
\* ends the row of a session that exists, however old its list is.
OrphanPassSparesLive ==
  [][\A j \in Store!Stored :
       SweepOrphans /\ rows'[j] # rows[j] => j \notin Stored]_pipelineVars

\* #300: the slot of a dead owner is not leaked.  If a call keeps waiting while
\* a row runs that no call works on, then in the end that row stops running,
\* or the wait ends.
Orphaned(j) ==
  /\ j \in Store!Running
  /\ \A c \in Calls : run[c].phase = "none" \/ run[c].job # j

SlotRecovered ==
  \A c \in Calls, j \in Sessions :
    (Phase(c, "waiting") /\ Orphaned(j)) ~> (~Phase(c, "waiting") \/ ~Orphaned(j))

\* A call that was granted a slot ends, and its exception or its result is the
\* last thing it writes: it is never left admitted.
AdmittedEnds == \A c \in Calls : Admitted(c) ~> Phase(c, "none")

\* store.py: "a job_id cannot be double-started": one pipeline per session.
OnePipelinePerJob ==
  \A c, d \in Calls :
    Executing(c) /\ Executing(d) /\ run[c].job = run[d].job => c = d
==============================================================================
