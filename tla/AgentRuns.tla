------------------------------ MODULE AgentRuns ------------------------------
(***************************************************************************)
(* Agent processes of one task on several replicas, and the run lease that *)
(* is to keep a second replica from starting the task while one runs it.   *)
(*                                                                         *)
(* Source, under apps/web-server/server/services: run_leases.py, the start *)
(* and stop of agent_service.py, the monitor of agent_process_monitor.py   *)
(* with the restarts of agent_failover.py; the calls are those of          *)
(* routes/execution.py and routes/tasks.py.                                *)
(*                                                                         *)
(* Each replica has one event loop: a step is what runs between two        *)
(* awaits, a statement on the lease row is a step of its own.  The row is  *)
(* shared; running_tasks, _task_stopped, the watcher and the monitors      *)
(* belong to a replica and die with it, and so do its agent processes.     *)
(* The lease table answers: the fail-open paths of an outage are not       *)
(* modelled.  Time passes only when no renewal is due and no start or stop *)
(* is under way: those take seconds, the lease a minute.                   *)
(***************************************************************************)
EXTENDS Naturals, Sequences, FiniteSets

CONSTANTS
  Replicas,     \* the server processes
  Kinds,        \* what requests start: "spec" (spec creation), "exec"
  Retrying,     \* failed executions are retried, unfinished ones continued
  Stops,        \* the local stop calls: "stop", "recover", "approve"
  LeaseTTL,     \* PFACTORY_RUN_LEASE_TTL_SECONDS, in ticks
  Heartbeat,    \* the renew interval, in ticks
  MaxRuns,      \* bound on runs, respawned and refused ones included
  MaxStarts,    \* bound on the starts under way on one replica
  MaxCrashes    \* bound on crashes

ASSUME AgentRunsAssumption ==
  /\ Kinds \subseteq {"spec", "exec"} /\ Retrying \in BOOLEAN
  /\ Stops \subseteq {"stop", "recover", "approve"}
  /\ LeaseTTL \in Nat /\ Heartbeat \in Nat \ {0} /\ Heartbeat * 3 <= LeaseTTL
  /\ MaxRuns \in Nat /\ MaxStarts \in Nat /\ MaxCrashes \in Nat
  /\ "dead" \notin Replicas

VARIABLES
  lease,    \* the run_leases row of the task
  runs,     \* the runs, in the order of their starts
  tracked,  \* running_tasks[task_id] of each replica, 0 when absent
  stopped,  \* task_id in _task_stopped
  stop,     \* the run whose process a stop call of a replica waits for
  watcher,  \* the lease watcher of each replica
  crashes   \* crashes so far
agentVars == <<lease, runs, tracked, stopped, stop, watcher, crashes>>

NoLease == [owner |-> "dead", left |-> 0, stop |-> FALSE]

\* One start, its agent process and its monitor.  agent: the process, with its
\* exit code; again: the monitor has the command to run it again; from: the run
\* whose monitor made this start, 0 for a request.
Run == [home : Replicas, kind : {"spec", "exec"},
        pc : {"claim", "spawn", "emit",                        \* the start
              "monitor", "respawn", "restart", "cleanup", "done"},
        agent : {"none", "live", "zero", "failed"},
        again : BOOLEAN, from : Nat]

Callers == Stops \cup {"watcher"}  \* who calls terminate()
NoStop  == [pc |-> "none", run |-> 0]
Off     == [pc |-> "off", due |-> 0, stopping |-> FALSE]

AgentInit ==
  /\ lease = NoLease
  /\ runs = <<>>
  /\ tracked = [r \in Replicas |-> 0]
  /\ stopped = [r \in Replicas |-> FALSE]
  /\ stop = [r \in Replicas |-> [w \in Callers |-> NoStop]]
  /\ watcher = [r \in Replicas |-> Off]
  /\ crashes = 0

Active == lease.left > 0                  \* is_active, request_stop: not expired
Last   == Len(runs)
Live   == {i \in DOMAIN runs : runs[i].agent = "live"}
StartsOf(r) ==
  {i \in DOMAIN runs : runs[i].home = r /\ runs[i].pc \in {"claim", "spawn", "emit"}}
\* Of a run that is over nothing is read again.
Over(run) == [run EXCEPT !.pc = "done", !.agent = "none", !.again = FALSE, !.from = 0]
NoStops(r) == \A w \in Callers : stop[r][w] = NoStop

------------------------------------------------------------------------------
(* the lease *)

\* Mutant: acquire does not look at the lease of another owner.
GrantableStolen(r) == TRUE

\* acquire: a free key, an expired lease, or one this owner already holds.
Grantable(r) == ~Active \/ lease.owner = r

Granted(r) == [owner |-> r, left |-> LeaseTTL, stop |-> FALSE]

\* release: only its own.
Released(r) == IF lease.owner = r THEN NoLease ELSE lease

------------------------------------------------------------------------------
(* start_spec_creation, start_task_execution *)

NewRun(r, kind, from) ==
  [home |-> r, kind |-> kind, pc |-> "claim", agent |-> "none",
   again |-> TRUE, from |-> from]

\* The call looks at running_tasks of its own replica, then awaits the claim.
\* Approval, recovery, delegation and auto-fix get here whatever the lease says;
\* the start route reads it first.
BeginStart(r) ==
  /\ tracked[r] = 0
  /\ Last < MaxRuns /\ Cardinality(StartsOf(r)) < MaxStarts
  /\ \E kind \in Kinds : runs' = Append(runs, NewRun(r, kind, 0))
  /\ UNCHANGED <<lease, tracked, stopped, stop, watcher, crashes>>

\* The start is done; the monitor that made it ends with it.
Started(i) ==
  [j \in DOMAIN runs |->
     IF j = i THEN [runs[j] EXCEPT !.pc = "monitor", !.from = 0]
     ELSE IF j = runs[i].from THEN Over(runs[j]) ELSE runs[j]]

\* The start failed: the monitor of an execution falls through to its cleanup,
\* that of a spec creation only writes the plan.
StartFailed(i) ==
  [j \in DOMAIN runs |->
     IF j = runs[i].from /\ runs[j].kind = "exec"
     THEN [runs[j] EXCEPT !.pc = "cleanup"]
     ELSE IF j \in {i, runs[i].from} THEN Over(runs[j]) ELSE runs[j]]

ClaimLease(i) ==
  /\ runs[i].pc = "claim"
  /\ IF Grantable(runs[i].home)
     THEN lease' = Granted(runs[i].home) /\ runs' = [runs EXCEPT ![i].pc = "spawn"]
     ELSE lease' = lease /\ runs' = StartFailed(i)
  /\ UNCHANGED <<tracked, stopped, stop, watcher, crashes>>

\* create_subprocess_exec returned; the entry is made before the next await.
SpawnProc(i) ==
  /\ runs[i].pc = "spawn"
  /\ runs' = [runs EXCEPT ![i].pc = "emit", ![i].agent = "live"]
  /\ tracked' = [tracked EXCEPT ![runs[i].home] = i]
  /\ UNCHANGED <<lease, stopped, stop, watcher, crashes>>

SpawnFails(i) ==
  /\ runs[i].pc = "spawn"
  /\ lease' = Released(runs[i].home)
  /\ runs' = StartFailed(i)
  /\ UNCHANGED <<tracked, stopped, stop, watcher, crashes>>

Watching == [pc |-> "tick", due |-> Heartbeat, stopping |-> FALSE]

\* The progress was sent: the monitor and the watcher start, unless a watcher
\* of an earlier run is not done yet.
WatchRun(i) ==
  /\ runs[i].pc = "emit"
  /\ runs' = Started(i)
  /\ LET r == runs[i].home IN
       watcher' = IF watcher[r].pc = "off" THEN [watcher EXCEPT ![r] = Watching] ELSE watcher
  /\ UNCHANGED <<lease, tracked, stopped, stop, crashes>>

------------------------------------------------------------------------------
(* stop_task, the recover route, the approval of a plan *)

\* The flag goes up first; the recover route sets none.
Flagged(r, w) == [stopped EXCEPT ![r] = @ \/ w # "recover"]

\* terminate() reached the process; the call waits for its end.
Signalled(r, w) == [stop EXCEPT ![r][w] = [pc |-> "wait", run |-> tracked[r]]]

\* terminate() on a process that has ended raises: stop_task ends there, the
\* other two routes remove the entry all the same.
UserStop(r) ==
  /\ tracked[r] # 0
  /\ \E w \in Stops :
       /\ stop[r][w] = NoStop
       /\ stopped' = Flagged(r, w)
       /\ \/ tracked[r] \in Live
             /\ stop' = Signalled(r, w) /\ tracked' = tracked
          \/ tracked[r] \notin Live
             /\ stop' = stop
             /\ tracked' = [tracked EXCEPT ![r] = IF w = "stop" THEN @ ELSE 0]
  /\ UNCHANGED <<lease, runs, watcher, crashes>>

\* The process ended after terminate(), or after kill() five seconds later.
StopWaited(r, w) ==
  /\ stop[r][w].pc = "wait"
  /\ LET i == stop[r][w].run IN
       runs' = IF i \in Live THEN [runs EXCEPT ![i].agent = "failed"] ELSE runs
  /\ stop' = [stop EXCEPT ![r][w].pc = "pop"]
  /\ UNCHANGED <<lease, tracked, stopped, watcher, crashes>>

\* Logs and plan are written: the entry goes, whichever process it holds now.
\* A watcher's call returns to the watcher.
StopPops(r, w) ==
  /\ stop[r][w].pc = "pop"
  /\ tracked' = [tracked EXCEPT ![r] = 0]
  /\ stop' = [stop EXCEPT ![r][w] = NoStop]
  /\ watcher' = IF w # "watcher" THEN watcher
                ELSE [watcher EXCEPT ![r] = IF @.pc = "lost" THEN Off
                                            ELSE [@ EXCEPT !.pc = "tick"]]
  /\ UNCHANGED <<lease, runs, stopped, crashes>>

\* request_stop, of any replica that does not track the task: it marks the live
\* lease, whoever owns it.
RequestStop(r) ==
  /\ tracked[r] = 0
  /\ Active /\ ~lease.stop
  /\ lease' = [lease EXCEPT !.stop = TRUE]
  /\ UNCHANGED <<runs, tracked, stopped, stop, watcher, crashes>>

------------------------------------------------------------------------------
(* the watcher *)

\* Mutant: the watcher goes on renewing when the run is gone.
NextLookBlind(r) == IF watcher[r].due = 0 THEN "renew" ELSE "tick"

\* alive() looks at running_tasks; then the lease is released, or it is renewed
\* when the time has come.
NextLook(r) ==
  IF tracked[r] = 0 THEN "release" ELSE IF watcher[r].due = 0 THEN "renew" ELSE "tick"

WatcherLooks(r) ==
  /\ watcher[r].pc = "tick"
  /\ watcher' = [watcher EXCEPT ![r].pc = NextLook(r),
                                ![r].due = IF NextLook(r) = "renew" THEN Heartbeat ELSE @]
  /\ UNCHANGED <<lease, runs, tracked, stopped, stop, crashes>>

WatcherReleases(r) ==
  /\ watcher[r].pc = "release"
  /\ lease' = Released(r)
  /\ watcher' = [watcher EXCEPT ![r].pc = "exit"]
  /\ UNCHANGED <<runs, tracked, stopped, stop, crashes>>

\* The release returned: _WATCHERS loses the watcher.
WatcherEnds(r) ==
  /\ watcher[r].pc = "exit"
  /\ watcher' = [watcher EXCEPT ![r] = Off]
  /\ UNCHANGED <<lease, runs, tracked, stopped, stop, crashes>>

\* Mutants: the renewal extends the lease by a heartbeat only; it adds the TTL to
\* what is left.
RenewedOnTop   == [lease EXCEPT !.left = @ + LeaseTTL]
RenewedShortly == [lease EXCEPT !.left = Heartbeat]

Renewed  == [lease EXCEPT !.left = LeaseTTL]
Owned(r) == lease.owner = r

\* Mutants: the answer does not carry stop_requested; nobody asks whether the
\* renewal found a row.
AnswerOwner(r) == IF Owned(r) THEN "tick" ELSE "lost"
AnswerStop(r)  == IF lease.stop /\ ~watcher[r].stopping THEN "asked" ELSE "tick"

\* What the row tells the watcher: the lease is lost, a stop is asked for, or go
\* on.  A watcher passes one stop on.
Answer(r) ==
  IF ~Owned(r) THEN "lost"
  ELSE IF lease.stop /\ ~watcher[r].stopping THEN "asked" ELSE "tick"

RenewLease(r) ==
  /\ watcher[r].pc = "renew"
  /\ watcher' = [watcher EXCEPT ![r].pc = Answer(r)]
  /\ lease' = IF Owned(r) THEN Renewed ELSE lease
  /\ UNCHANGED <<runs, tracked, stopped, stop, crashes>>

\* The watcher calls stop_task, which returns at once when there is no entry and
\* raises when the process has ended: that ends the watcher too.
PassStop(r) ==
  /\ watcher[r].pc \in {"asked", "lost"} /\ stop[r]["watcher"] = NoStop
  /\ LET told == [watcher[r] EXCEPT !.stopping = (watcher[r].pc = "asked") \/ @]
         back == IF told.pc = "lost" THEN Off ELSE [told EXCEPT !.pc = "tick"]
     IN \/ /\ tracked[r] = 0
           /\ watcher' = [watcher EXCEPT ![r] = back]
           /\ UNCHANGED <<stopped, stop>>
        \/ /\ tracked[r] # 0 /\ tracked[r] \in Live
           /\ watcher' = [watcher EXCEPT ![r] = told]
           /\ stopped' = Flagged(r, "watcher") /\ stop' = Signalled(r, "watcher")
        \/ /\ tracked[r] # 0 /\ tracked[r] \notin Live
           /\ watcher' = [watcher EXCEPT ![r] = Off]
           /\ stopped' = Flagged(r, "watcher") /\ stop' = stop
  /\ UNCHANGED <<lease, runs, tracked, crashes>>

------------------------------------------------------------------------------
(* the process and its monitor *)

\* The event loop learns that the process ended, with its exit code.
ProcExits(i) ==
  /\ i \in Live
  /\ \E code \in {"zero", "failed"} : runs' = [runs EXCEPT ![i].agent = code]
  /\ UNCHANGED <<lease, tracked, stopped, stop, watcher, crashes>>

Monitored(i) == i \notin Live /\ runs[i].pc = "monitor"

\* Profile failover or model fallback: decided before _task_stopped is read.
BeginRespawn(i) ==
  /\ Monitored(i)
  /\ Retrying /\ runs[i].agent = "failed" /\ runs[i].again
  /\ runs' = [runs EXCEPT ![i].pc = "respawn"]
  /\ UNCHANGED <<lease, tracked, stopped, stop, watcher, crashes>>

\* The new process takes the entry; its monitor cannot run it again.
Respawned(i) ==
  /\ runs[i].pc = "respawn" /\ Last < MaxRuns
  /\ runs' = Append([runs EXCEPT ![i] = Over(@)],
                    [runs[i] EXCEPT !.pc = "monitor", !.agent = "live",
                                    !.again = FALSE, !.from = 0])
  /\ tracked' = [tracked EXCEPT ![runs[i].home] = Last + 1]
  /\ UNCHANGED <<lease, stopped, stop, watcher, crashes>>

\* The new process cannot be created: the handler cleans up.
RespawnFails(i) ==
  /\ runs[i].pc = "respawn"
  /\ runs' = [runs EXCEPT ![i].pc = "cleanup"]
  /\ UNCHANGED <<lease, tracked, stopped, stop, watcher, crashes>>

\* The flag is consumed and the cleanup left to stop_task.
DeferToStop(i) ==
  /\ Monitored(i)
  /\ LET r == runs[i].home IN
       stopped[r] /\ stopped' = [stopped EXCEPT ![r] = FALSE]
  /\ runs' = [runs EXCEPT ![i] = Over(@)]
  /\ UNCHANGED <<lease, tracked, stop, watcher, crashes>>

\* A created spec is executed, whatever the exit code and the flag say; an
\* execution that left subtasks is continued after exit code 0.  The entry goes
\* and a new start begins, up to its claim.
Continue(i) ==
  /\ Monitored(i) /\ Last < MaxRuns
  /\ LET r == runs[i].home IN
       /\ \/ runs[i].kind = "spec"
          \/ Retrying /\ runs[i].agent = "zero" /\ runs[i].again /\ ~stopped[r]
       /\ tracked' = [tracked EXCEPT ![r] = 0]
       /\ runs' = Append([runs EXCEPT ![i].pc = "restart"], NewRun(r, "exec", i))
  /\ UNCHANGED <<lease, stopped, stop, watcher, crashes>>

\* The terminal status is written and announced, with awaits.  A task that
\* waits for review gets here without a look at _task_stopped.
BeginCleanup(i) ==
  /\ Monitored(i)
  /\ runs' = [runs EXCEPT ![i].pc = "cleanup"]
  /\ UNCHANGED <<lease, tracked, stopped, stop, watcher, crashes>>

\* Mutant: the cleanup leaves the entry to stop_task.
StillTracked(i) == tracked

\* The entry goes, whichever process it holds now.
Untracked(i) == [tracked EXCEPT ![runs[i].home] = 0]

EndCleanup(i) ==
  /\ runs[i].pc = "cleanup"
  /\ runs' = [runs EXCEPT ![i] = Over(@)]
  /\ tracked' = Untracked(i)
  /\ UNCHANGED <<lease, stopped, stop, watcher, crashes>>

------------------------------------------------------------------------------
(* crashes and time *)

\* The replica dies with its processes.  Its successor has another owner name,
\* or the same one when the container restarts in place.
Crash(r) ==
  /\ crashes < MaxCrashes
  /\ crashes' = crashes + 1
  /\ runs' = [i \in DOMAIN runs |->
       IF runs[i].home = r THEN Over(runs[i]) ELSE runs[i]]
  /\ tracked' = [tracked EXCEPT ![r] = 0]
  /\ stopped' = [stopped EXCEPT ![r] = FALSE]
  /\ stop' = [stop EXCEPT ![r] = [w \in Callers |-> NoStop]]
  /\ watcher' = [watcher EXCEPT ![r] = Off]
  /\ \/ UNCHANGED lease
     \/ lease.owner = r /\ lease' = [lease EXCEPT !.owner = "dead"]

\* Nothing is due before the clock moves on.
Timely(r) ==
  /\ StartsOf(r) = {} /\ NoStops(r)
  /\ \/ watcher[r].pc = "off"
     \/ watcher[r].pc = "tick" /\ NextLook(r) = "tick"

Elapse ==
  /\ \A r \in Replicas : Timely(r)
  /\ lease' = [lease EXCEPT !.left = IF @ = 0 THEN 0 ELSE @ - 1]
  /\ watcher' = [r \in Replicas |->
       [watcher[r] EXCEPT !.due = IF @ = 0 THEN 0 ELSE @ - 1]]
  /\ UNCHANGED <<runs, tracked, stopped, stop, crashes>>

------------------------------------------------------------------------------
StartStep(i) == ClaimLease(i) \/ SpawnProc(i) \/ SpawnFails(i) \/ WatchRun(i)
MonitorStep(i) ==
  \/ BeginRespawn(i) \/ Respawned(i) \/ RespawnFails(i)
  \/ DeferToStop(i) \/ Continue(i) \/ BeginCleanup(i) \/ EndCleanup(i)
StopStep(r, w) == StopWaited(r, w) \/ StopPops(r, w)
WatchStep(r) ==
  WatcherLooks(r) \/ WatcherReleases(r) \/ WatcherEnds(r) \/ RenewLease(r) \/ PassStop(r)

AgentNext ==
  \/ \E r \in Replicas :
       \/ BeginStart(r)
       \/ UserStop(r) \/ RequestStop(r)
       \/ \E w \in Callers : StopStep(r, w)
       \/ WatchStep(r)
       \/ Crash(r)
  \/ \E i \in DOMAIN runs : StartStep(i) \/ ProcExits(i) \/ MonitorStep(i)
  \/ Elapse

\* The event loop runs every task that can go on, and time passes; an agent
\* process need never end by itself.
AgentFairness ==
  /\ \A r \in Replicas :
       WF_agentVars(WatchStep(r)) /\ \A w \in Callers : WF_agentVars(StopStep(r, w))
  /\ \A i \in 1..MaxRuns :
       WF_agentVars(i \in DOMAIN runs /\ (StartStep(i) \/ MonitorStep(i)))
  /\ WF_agentVars(Elapse)

AgentSpec == AgentInit /\ [][AgentNext]_agentVars /\ AgentFairness
------------------------------------------------------------------------------
(* Properties *)

\* Every variable has its type.
AgentTypeOK ==
  /\ lease \in [owner : Replicas \cup {"dead"}, left : 0..LeaseTTL, stop : BOOLEAN]
  /\ runs \in Seq(Run) /\ \A i \in DOMAIN runs : runs[i].from \in 0..Last
  /\ tracked \in [Replicas -> 0..Last]
  /\ stopped \in [Replicas -> BOOLEAN]
  /\ stop \in [Replicas -> [Callers -> [pc : {"none", "wait", "pop"}, run : 0..Last]]]
  /\ watcher \in [Replicas -> [pc : {"off", "tick", "release", "exit", "renew",
                                     "asked", "lost"},
                               due : 0..Heartbeat, stopping : BOOLEAN]]
  /\ crashes \in 0..MaxCrashes

\* The watcher of this replica is at work: it has seen neither the end of the
\* run nor the loss of the lease.
Watches(r) == watcher[r].pc \in {"tick", "renew", "asked"}

\* A stop was asked for, and this replica's watcher is to find it in its lease.
StopDue(r) == Watches(r) /\ lease.owner = r /\ lease.stop

\* heartbeat_seconds: the interval is a third of the TTL at most.  A lease does
\* not expire while a watcher of its owner is at work.
WatchedLeaseLive == \A r \in Replicas : lease.owner = r /\ Watches(r) => Active

\* acquire: "refuse a duplicate start".  However starts, restarts, stops,
\* renewals and time interleave, no other replica is granted a lease whose
\* owner's watcher is at work.
LeaseKept ==
  [][\A r \in Replicas :
       lease.owner = r /\ Watches(r) => lease'.owner \in {r, "dead"}]_agentVars

\* watch: stop is "called when ... the lease is lost".  A replica that tracks and
\* watches a run without holding the lease, as after a lost claim, ends it.
LoserStops ==
  \A r \in Replicas :
    tracked[r] \in Live /\ Watches(r) /\ lease.owner # r
      ~> tracked[r] \notin Live \/ lease.owner = r

\* watch: stop is "called when another replica requests one".  The first stop
\* that a watcher is asked for ends the process that its replica tracks.
FirstStopServed ==
  \A r \in Replicas :
    tracked[r] \in Live /\ StopDue(r) /\ ~watcher[r].stopping
      ~> tracked[r] \notin Live \/ lease.owner # r \/ ~lease.stop

\* "A pod that dies stops claiming its runs within one TTL."  A lease that no
\* replica's entry stands behind, whatever became of its watcher, is released or
\* expires, unless a start makes an entry again.
UntrackedLetGo ==
  Active /\ (\A r \in Replicas : tracked[r] = 0)
    ~> ~Active \/ \E r \in Replicas : tracked[r] # 0

\* watch: "every way a run ends (normal exit, failure, ...) is seen".  The entry
\* of a process that ended under its monitor goes, through cleanup, review, retry
\* or continuation, unless a stop flags the task first.
EndedUntracked ==
  \A r \in Replicas, i \in 1..MaxRuns :
    tracked[r] = i /\ i \notin Live /\ runs[i].pc = "monitor" /\ ~stopped[r]
      ~> tracked[r] # i \/ stopped[r]

\* stop_task: "Mark as stopped BEFORE termination so _monitor_process defers to
\* us".  When a stop is done, no agent of that replica is left.
StopMeansStopped ==
  [][\A r \in Replicas, w \in Callers :
       stop[r][w].pc = "pop" /\ stop'[r][w].pc = "none" =>
         \A i \in Live : runs[i].home # r]_agentVars
==============================================================================
