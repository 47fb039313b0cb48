# PFactory: TLA+ models, checks and proofs

PFactory turns a written request into a reviewed plan and emits it as GitHub
issues and signed contracts; agents then work on those. Several replicas of its
web server share one Postgres database. This directory models the parts where
those replicas meet: the planning session and its operations, the durable job
rows with their admission cap, the emission to GitHub, the agent runs and their
leases, the relay of websocket events and the hash chain of the audit log.

The repository has about 180,000 lines in 837 source files; most of it is
prompts, adapters, HTTP routes and a front end, whose state is in one request
or outside the program. The models stand for the coordination core, about one
line in a hundred. "Not modelled" says what is left out and why.

## Inventory

Paths are relative to `src/`; `service.py` is `apps/backend/plan/service.py`,
`jobstore/` is `apps/web-server/server/jobstore/`, `services/`, `websockets/` and
`jobs/` are under `apps/web-server/server/`.

| Part | State | Operations | What makes it correct |
|---|---|---|---|
| job_states store (`jobstore/store.py`, `models.py`, `lifecycle.py`) | one row per job: status, lifecycle, lease, ended_at, error | upsert, try_start, heartbeat, reclaim_expired, end_orphaned_queued | the cap holds; every slot can be reclaimed; a failure has a reason |
| plan_sessions store (`jobstore/plan_session_store.py`) | one versioned document per session, the id counter, the emit lease, org stamps | compare-and-set upsert, get, delete, next_seq, acquire/release_emit_lease, stamp_org | no write is lost; a deleted session stays deleted |
| PlanService (`service.py`, `plan/review/`, `plan/completion.py`) | private copies of sessions, a cache, completion events | ingest, update_plan, apply_suggestions, process, re_gate, approve, waive, reject, discard, delete_session, emit | approvals attest to the stored text |
| durable admission (`service.py` `_durable_admit`, `_renew_lease`) | the waiting and running process calls, their renew tasks | wait for a slot, run, renew, mark failed | one pipeline per session, within the cap; a healthy owner keeps its slot; a dead one loses it |
| stale-ingest sweep (`background/stale_ingest_sweep.py`, `service.py`) | a session list and an age limit | discard old ingested sessions, end orphaned queued rows | spares whatever is alive |
| emission (`service.py` `emit`, `emit_contract`, `plan/emit/github_emitter.py`) | issue numbers saved as they are created, the emit lock and lease | live and dry emit, contract emit | one emitter; every duplicate issue has a cause; nothing unfinished is announced |
| run leases and agent runs (`services/run_leases.py`, `agent_service.py`, `agent_process_monitor.py`, `agent_failover.py`) | one lease per task, running_tasks, stop flags, watchers, monitors | start, stop, recover, renew, respawn, continue | one agent per task; a live run keeps its lease; a stop stops; a finished run lets go |
| websocket relay (`websockets/relay.py`) | outbox, drain item, inbound queue, listener connection | publish, drain, listen, start, stop | each sender's order; no event blocks those behind it; the listener comes back |
| audit chain (`services/audit_chain.py`, `audit_service.py`, `gdpr.py`, `jobs/audit_retention.py`) | the log, its advisory lock, pending rows and updates | log_audit_event(_bg), erase_user, run_retention, verify_chain | the chain verifies; no event is lost; an erasure is complete |
| gates, ingestion, GitHub rate limiter, terminals, merge, worktrees, secrets, providers, test plan, auth, HTTP, front end | | | listed in `PROJECT.json` with the reason each is not modelled |

**Interaction.** Every operation of PlanService reads the session row into a
private copy (`get`), changes the copy, and saves it (`_save`): a
compare-and-set on plan_sessions, then `_mirror`, an upsert on job_states in a
transaction of its own. `process_async` first asks job_states for a slot
(`try_start`, polled), then runs `process` in a worker thread while a task on
the event loop renews the lease. The sweep reads both tables. `emit` works on
the same session row, under a thread lock and, when live, a lease on the row.
Agent runs use a lease table of their own; a stop asked for on another replica
travels in the lease row. Events go out through the relay's channel, every
operation leaves audit rows through the chain's lock.

**What is hard.** Calls of several replicas interleave at every read and write;
a save may be refused; the mirror lags its save; a replica may die at any point
holding a slot, a lease or a lock; leases lapse and are outlived; a request is
retried while the first still runs, or after its answer was lost; callbacks of
one event loop run between two awaits of another; queues overflow.
`PROJECT.json` lists each such hazard at its line with the property that covers
it, or why none does.

## Modules

| Module | Models | Composed with |
|---|---|---|
| `Lifecycle` | the status taxonomy (`lifecycle.py`), constant level | |
| `JobStates` | the job_states table; one action per statement or transaction | extends `Lifecycle` |
| `SessionDoc` | what a session document is and what each operation makes of it, constant level | |
| `PlanSessions` | the operations of PlanService at their reads and writes of plan_sessions | extends `SessionDoc` |
| `AtomicSessions` | abstract: every operation a single step | refined by `PlanSessions` and `PlanPipeline` |
| `PlanPipeline` | the mirror, admission, renewal, the orphan pass, time and crashes | extends `PlanSessions`, instance of `JobStates` |
| `PlanEmit` | emission of one session by several replicas | |
| `AgentRuns` | the agents of one task on several replicas | |
| `Relay` | the relay between pods | |
| `LossyBroadcast` | abstract: what the relay promises | refined by `Relay` |
| `AuditChain` | the audit log, its writers, erasers and pruning | |
| `JobStatesProofs`, `PlanSessionsProofs`, `PlanEmitProofs`, `AgentRunsProofs`, `RelayProofs`, `AuditChainProofs` | theorems | extend their model |
| `PlanPipelineProofs` | theorems about the composition | extends `PlanPipeline`; `JobStatesProofs` under the mapping of its job table, `PlanSessionsProofs` for its sessions |
| `MC...` | constants, symmetry and initial states for TLC | extend their model |

**JobStates.** `rows` is the table, `txn` what a client inside an upsert has
loaded. `upsert` is two actions because SQLAlchemy loads the row without a lock
and its flush writes only the columns that differ from the loaded ones
(`Flushed`). `try_start` is one action: it holds the advisory lock and the row
lock, reclaims inline, and rolls the reclaim back when it denies, so a denied
poll changes nothing. The time columns are relative: a lease is the number of
ticks left plus one (0 is NULL, 1 is lapsed), an age stops at the sweep's limit.
`Rollback` ends an upsert whose transaction never commits: an exception, or the
replica's death, between the load and the flush.
`LegacyJobs` start as slots leaked by the release that had no mapping for
`discarded`; they are finitely many, the ids of jobs to come need not be. The
result, artifacts and usage columns are left out.

**PlanSessions.** A `call` is a request, a sweep or a worker thread on any
replica: its operation, its copy (`doc`, `ver`) and where it stands. The steps
are the reads and the writes of the table. `Save` is the compare-and-set and a
refused save ends the call. Operations that save twice (intake, approve, waive)
or read twice (apply_suggestions, the sweep) have a step for each. A document
keeps the status, the authored text as a set of edits, the review with the text
it covers, and whether the pipeline and the intake stamps are on it. Emission is
here as far as it reads and writes that document: `emit` refreshes the readiness
and saves, saves its progress (`CreateIssues`: the saves after each issue change
nothing that is kept and are one; a refusal is swallowed), and ends in a result
(`SaveResult`) or as emitted (`SaveEmitted`); `contract` is a live contract emit
with the gate of a hard tier; `record` is what saves a result only, a dry run or
an access approval. The emit lease is not here, so two emits overlap more often
than the code allows.

**PlanPipeline.** Refines each mirror into the two halves of an upsert, replaces
the read that begins `process` by admission (`RequestProcess`, `Grant`,
`BeginPipeline`, ..., `MarkFailedFlush`), and adds `Renew`, the orphan pass,
`Elapse` and `Crash`. `Elapse` waits for a heartbeat that is due: a healthy renew
task is on time. One heartbeat interval is shorter than the lease.

**PlanEmit.** A replica's call goes through the steps of `_emit`: the check of
the status, the copy, the readiness refresh and its save, one creation per issue
with the progress save that follows it (`_save_progress`), the completion event, the final save and the release of the lease. `BeginLive` and
`BeginDry` take the thread lock and, if live, the lease. GitHub is external: it
creates an issue, refuses it, or creates it and the answer is lost, in which
case `_create_issue_resilient` creates it again. `Touch` is any other operation's
save. The row's review is none (its text was edited), open, or signed (gates and
approval hold); an emission without a review has nothing to refresh and is not
refused (`Unreviewed`). A kill leaves the lease to expire (`LeaseLapses`); a slow emission may
outlive its own (`LeaseOutlived`). `issues` records what GitHub holds, `slips`
counts what did not reach the row or was cleared from it.

**AgentRuns.** One task. `runs` holds every start with its process and its
monitor, in order; `tracked` is the entry of running_tasks, `stopped` the flag of
_task_stopped, `stop` what each stop call waits for. A step is what runs between
two awaits, since each replica has one event loop. `BeginStart` is a request for
a spec creation or an execution up to its claim, `StartStep` the claim, the spawn
and the progress that is sent before monitor and watcher begin. `UserStop` and
`StopStep` are stop_task, the recover route and the approval of a plan, which
differ in the flag and in what they do when terminate() raises. `WatchStep` is the
lease watcher: its look at the entry, its release, which is awaited, its end, its
renewal and the stop it passes on. `MonitorStep` is the monitor: the decision to
respawn, the look at the flag, the continuation of an execution and the execution
of a created spec, which start anew, the review and the cleanup. `Crash` ends the
replica's processes and forgets its memory; the lease row stays. `Elapse` ages
the lease.

**Relay.** `Publish` enqueues into the outbox, `DrainStep` takes, notifies and
gives up, `NotifyFails` is an attempt that Postgres does not answer (the
notification may have gone out), `ListenStep` connects, delivers and
reconnects, `ConnectionDies` closes a connection with or without its callback.
`Start`, `PoolMade`, `StopDrain`, `StopListening` are the lifespan. `poison` is an
event that no pg_notify accepts.

**AuditChain.** `log` is the committed table, `lock` the advisory lock.
`RequestStep` is log_audit_event statement by statement; `route` says whether the
caller commits or leaves its transaction to get_db, which closes it.
`EraserStep` is erase_user: take the lock, replace the user's name in its rows,
walk the chain for the links that change, commit with the user's mark. `Retain` prunes a
prefix without the lock, as the job does. `Refuse`, `DieRequest` and `DieEraser`
are the faults. `fk` says whether the database enforces the foreign key from rows
to users: the migrations create it, the audit tests' databases do not enforce it.

## Runs

Each run asks one question of a small instance, and finishes within about three
minutes on two workers.

| Run | Properties | Shows |
|---|---|---|
| jobs_table | JobTypeOK, CapRespected, SlotsReclaimable, FailureCarriesReason | two jobs, one of them leaked, one slot, two upserts in flight with everything else |
| sessions_atomic | SessionsTypeOK, CopyIsCurrent, ApprovalAttestsText, DeletedStaysDeleted, AtomicSpec | every operation, emission included, in two calls; they implement `AtomicSessions` |
| pipeline_mixed | PipelineTypeOK, SlotsWithinCap, HealthyNeverReclaimed, AtomicSpec, OrphanPassSparesLive | one session with every operation, admission, the sweep and a crash, or two sessions that compete for one slot and may be discarded: slots within the cap, a healthy owner keeps its slot, sessions still atomic, the orphan pass spares them |
| pipeline_recovery | AdmittedEnds, SlotRecovered | liveness after an owner died |
| emit_faults | EmitTypeOK, OneEmitter, DuplicatesAreSlips, AnnouncedComplete, EmitEnds, EpicNumberKept | two replicas emit an epic with two children, reviewed or not, under every kind of fault |
| agents_task | AgentTypeOK, WatchedLeaseLive, LeaseKept, LoserStops, FirstStopServed, UntrackedLetGo, EndedUntracked | two runs of a task on two replicas, started, retried, continued, stopped here or from elsewhere, and a crash: a lease whose owner watches stays alive and with its owner; a replica that lost its lease ends the run it watches; the first stop a watcher is asked for is served; ended processes lose their entry, and leases without an entry go |
| relay_faults | RelayTypeOK, OnlyPoisonGivenUp, LossyChannel, BacklogMoves, ListensAgain | three events between two pods, two faults; implements `LossyBroadcast` |
| audit_chain | AuditTypeOK, LogVerifies, OnlyFaultsLoseEvents, ErasureIsComplete, AuditEnds | three writers, an erasure, pruning and one fault |

Four runs end in a counterexample: the code disagrees with what it says of
itself. `PROJECT.json` quotes the lines under "findings".

| Run | Property | What happens |
|---|---|---|
| pipeline_double | OnePipelinePerJob | a retried request is answered as granted and runs as well |
| sessions_ungoverned | EmittedIsGoverned | an edit after the pipeline ends the review and keeps the epic; the emission that follows finds no review and is not refused (the docstring of `emit_to_github` says as much, the module's and the comment in `_emit_contract` say otherwise) |
| emit_forgets | RetryReuses | child 1 is created and child 2 refused; a dry run replaces the record of numbers; the next live emit creates child 1 again |
| agents_revive | StopMeansStopped | the monitor decides on a respawn before it reads the stop flag; the task runs on, untracked |

**Bounds.** *Jobs and sessions.* `Cap = 1` with two competitors is where
admission decides anything. `LeaseTTL = 2` and `HeartbeatEvery = 1` are the least
with which a lease outlives its heartbeat; `JobStates` alone, where a heartbeat
may come at any time, uses one tick. `MaxVersion` bounds the version a call may
start from, so two to five saves happen on a session: enough for a save, its
loser and what follows. Two calls suffice for each race listed, because each is
between one call's read and its write. Two edits tell an old text from a new
one. `MaxCrashes` is at most one. `HardTier` is TRUE: only then does a contract
wait for an approval. The action constraint `MCHalf` keeps `pipeline_mixed` small: from the empty table,
either one session with everything, or a second one ingested once the first is
(`MCFirstIngested`) and then both processed and discarded. With its `MaxVersion = 3` an emission there gets
no further than its refusals; `sessions_atomic` runs all of it. `pipeline_double`
starts after the intake (`MCIngested`, a state that `Ingest`, `StampIntake` and
their mirrors reach), `pipeline_recovery` in that state after
one grant and the crash of its owner (`MCOrphaned`). The saved statuses of `jobs_table` are one that
queues, one that fails and one that is done. *Emission.* Two children are the
least where one is refused and another goes on; three begun emits are a first
attempt, its retry and a third beside it; there is one kill, lost answer,
outlived lease or foreign save (`MaxFaults = 1`), while refusals by GitHub are
unbounded. *Agents.* `LeaseTTL = 3`, `Heartbeat = 1` are the proportion the code
enforces (`run_leases.py` takes a third). Two runs are a run and the one that a
start, a respawn or a continuation puts beside it or in its place; a continuation
can lose its lease to the watcher before it. The instance is kept to a size at which
TLC checks liveness: the local stop is `stop_task`, a replica has one start under way,
and `MCStarts` lets the first start be on one replica, which loses nothing, since the
replicas are alike, and a spec creation be requested only first. The theorems about
the leases hold for every number of starts and all stop calls.
*Relay.* Queues of two with three events overflow; three attempts and two
faults exhaust nothing but poison. *Audit.* Three writers: one before the
erasure's read, one that waits for its lock, one after. Two users would differ
from an event of the system and one of the user only in name.

Symmetry (of calls, of clients) is used only in runs without liveness whose
definitions single none out; the PROPERTIES of `pipeline_mixed` are safety
properties, and `MCFirst` picks a session, not a call. Deadlock is not checked where everything may
end: ids used up, all emits, processes and requests done.

**Fairness.** All of it is weak fairness of steps already begun; nothing makes a
user begin anything, and nothing is assumed of faults.

* `pipeline_recovery`: a call's thread is scheduled, `_durable_admit` polls
  `try_start` without limit, the event loop runs each renew task, time passes. A
  call may lose each race for a slot to another and wait for ever.
* `emit_faults`: the worker thread of an emission runs on, whoever asked for it.
* `agents_task`: the event loop runs starts, stops, watchers and monitors, and time
  passes. An agent process need not end by itself; a signalled one does, after five
  seconds by kill().
* `relay_faults`: the event loop runs both tasks. Postgres answers sooner or
  later: the attempts it leaves unanswered are faults.
* `audit_chain`: Postgres answers a statement that need not wait, and grants the
  lock in turn.

## Further divergences

Met while modelling, without a run of their own: a property that states the
opposite of a known gap would only repeat it.

*Admission and mirror.*
* With a crash, a retry joins the row of a dead owner (`store.py:621` stamps no
  new lease) and the old lease lapses before the retry's first heartbeat, against
  `service.py:1485`, "so a HEALTHY long plan is never reclaimed as a dead one".
  `HealthyNeverReclaimed` speaks of executions without a crash (`crashes = 0`);
  without that guard TLC finds this in `pipeline_mixed`.
* A human operation on a session that executes mirrors its row off running; the
  slot is granted again while the pipeline goes on (`service.py:868`).
* Mirrors of two saves commit in either order, and a refused pipeline marks the
  row of a session that another call completed as failed (`service.py:732`).
* A leaked `discarded` row is reclaimed as failed with no error (`store.py:492`
  against `models.py:18`). Two interleaved flushes can leave the status of one
  upsert with the lifecycle of the other (`store.py:296`). A row that comes back
  to queued keeps ended_at and error (`store.py:322`).

*Sessions.*
* reject and discard announce the end before a save that may be refused
  (`service.py:1880`). A discarded session can be processed and comes back
  (`service.py:1297` against `completion.py:35`, "the session will never change
  again").
* apply_suggestions writes a text made from its first read over an edit that was
  committed before its second (`service.py:1217`). The stale sweep discards a
  session that was processed between the sweep's read and discard's
  (`service.py:1961`). delete_session checks a copy and deletes without
  comparing status or version (`plan_session_store.py:361`). An emitted session
  may be discarded (`service.py:1884` asks only that it is not discarded already)
  and then deleted, which erases the trail of real issues that
  DELETABLE_STATUSES (`service.py:306`) means to keep.
* Intake stamps tenant and organisation in a second save that may be refused
  (`service.py:931`).
* When a store read fails, `get` hands out the cached object that other calls
  share: an edit or approval during process() is then overwritten by its final
  save, whose version matches. A listed copy written after such a hiccup learns
  the current version first (`service.py:758`) and so overwrites every write
  since the listing, or inserts a deleted row again; the comment there speaks of
  a write between the two statements only, which the compare-and-set refuses.

*Emission.*
* A contract emit sets the status emitted; a live emit after it, with an epic
  that is only partly there, returns at once (against `service.py:2114`).
* A conflict in a progress save is swallowed (`github_emitter.py:298`), while
  `spec/2026-09-23-758` says that it stops the run at that write.
* `github_emitter.py:327` assumes "already linked"; after a kill it is not so.
* The completion event is sent before the final save, which may be refused.

*Agent runs.* `AgentRuns` has all of these steps, and its properties are worded so
that they hold with them: they speak of watchers and of leases, not of runs.
* Two agents of one replica: a start looks at running_tasks and makes its entry only
  after its claim and its spawn (`agent_service.py:811`, 1102). Two starts on one
  replica both find none, and `acquire` grants the second the lease its own replica
  holds (against `run_leases.py:124`, "each service's local dict still blocks a real
  duplicate"). The one whose spawn fails releases the other's (`agent_service.py:743`).
* A live run without a lease: a continuation takes the entry away
  (`agent_process_monitor.py:881`) and claims again. The watcher of the finished run
  that looks in between finds no entry (`run_leases.py:256`) and deletes the lease by
  owner, after the claim; `watch()` starts no other watcher while that one is not
  done (against `run_leases.py:96`, "so a live run never lapses").
* A remote stop that is not served: `_watch` never resets `stopping`
  (`run_leases.py:254`, 285), and `watch()` keeps a watcher that is not done (306): a
  run that starts within a tick of a remote stop keeps the old watcher, which passes no
  second stop on (against `run_leases.py:303`). `FirstStopServed` speaks of the first.
  A claim clears a stop asked for elsewhere (`run_leases.py:144`), so a continuation
  that claims before the watcher's renewal undoes it.
* A task that is never let go: `stop_task` lets terminate() raise on a process that has
  ended (`agent_service.py:1200`), where the recover route and the monitor's own restart
  catch it. The flag is up by then and the entry still there; the monitor finds the flag
  (`agent_process_monitor.py:819`) and leaves the cleanup to a stop that is over. The
  entry stays and its watcher renews the lease, or dies of the same exception (against
  `run_leases.py:300`, "every way a run ends ... is seen in one place"). A flag left up
  makes the monitor of the next run leave without cleanup. `EndedUntracked` exempts
  flagged tasks, `UntrackedLetGo` speaks of tasks without an entry.
* The execution that follows a created spec starts whatever the flag says
  (`agent_process_monitor.py:604`), and so a stopped spec creation may run on as an
  execution. An old monitor or stop removes the entry of a newer process
  (`agent_process_monitor.py:1042`, `agent_service.py:1249`).

*Relay.* The comment at `relay.py:456` promises that a half-open connection is
found; the code finds one that the driver knows to be closed.

*Audit.*
* The rows of console.attach and console.detach are never committed: `get_db`
  closes without a commit (`rmux/bridge.py:201`, 249, against its docstring).
* The foreign key of `1b386c99e615` makes the erasure of a user with audit rows
  fail every time: the pseudonym is no user. The test passes because its
  database does not enforce it.
* An event that was under way during an erasure and commits after it keeps the
  plain user id for good; erasing again is a no-op.
* A pruned log does not pass `verify_chain` in its strict form, which the
  docstring of `audit_retention.py` says it does; numbering restarts after the
  log was pruned away entirely. A crash between a deletion and the commit of its
  audit row leaves no trail.
* `rotation.py` says that encrypted columns need not be touched when the root
  key changes; they are encrypted with it directly. A rotation that is run
  again after a crash decrypts rotated rows with the old key.

## Proofs

32 theorems in seven modules, about 9,600 obligations, hold for every value
of the constants. Every invariant and every safety property of a passing run is
one of them.

**`JobStatesProofs`**: `JobsWellTyped`, `SlotsStayReclaimable`, `FailuresHaveReasons`,
`CapHolds`. `JobInv` is the type invariant with what is known of an upsert in
flight: the row it loaded is still there, because rows are never removed
(`TxnInv`). `SlotsReclaimable` is not inductive: a flush might leave the lifecycle
of a leaseless running row alone and change its status to one that is not
terminal. `SlotsInv` says why it does not: such a row has run since the start, so
every upsert in flight loaded it as running, and its flush writes another
lifecycle. The cap rests on the grant counting what is left after its own
reclaim before it adds one, and on every other step leaving the set of running
rows no larger.

**`PlanSessionsProofs`**: `SessionsTyped`, `CopiesAreCurrent`, `ApprovalsAttest`,
`NoResurrection`, `OperationsAreAtomic`. `SessionsInv` has three parts. Every row
attests to what was approved (`TableInv`). A copy is no newer than the row, and
where it carries the row's version it is the row, but for the text that
apply_suggestions took from its first read (`CopyOK`). At each step a call has
passed the checks that lead there (`FoundOut`): the guard was read on the copy,
and the copy is the row whenever the compare-and-set succeeds. The refinement of
`AtomicSessions` maps each save to the whole operation and every other step to a
stutter; the lemmas show, per operation, that the document saved is what the
operation makes of the stored one.

**`PlanPipelineProofs`**: `PipelineTyped`, `PipelineCapHolds`, `PipelineIsAtomic`,
`PipelineApprovalsAttest`, `PipelineNoResurrection`, `PipelineRefinesJobs`,
`SweepSparesLive`, `HealthyKeepTheirSlot`. Nothing about jobs or sessions is
proved twice: every step of the pipeline is a step of `JobStates` under the
mapping of its job table (`Rollback` is there because a crash takes an upsert in
flight with it), and a step of `PlanSessions` or one that leaves sessions and
copies alone. What the composition adds is `AdmissionInv`: where an admitted call
stands and what its request, its slot and its upsert in flight are then
(`AdmissionOK`, `TxnOK`), and that the rows a sweep will end were old and belong
to no session (`SweepOK`). `HealthInv` says that, while no replica has crashed,
every running row is kept by a call whose last upsert is still to come and whose
lease outlasts the wait for its next heartbeat.

**`PlanEmitProofs`**: `EmitWellTyped`, `OneEmitterAlways`, `AnnouncedTruly`,
`EpicNumberStays`, `DuplicatesAccounted`. The chain of invariants is: what a
call's step says of its copy (`CallInv`); an emitting call holds the lease or is
late (`LeaseInv`), which gives one emitter; every number in a row or a copy is an
issue that GitHub holds (`KnownInv`); what is in the row when nobody saved since
the copy was read (`FreshInv`, `OwnInv`); what an emission read of
the epic's number before its refresh (`ReadInv`); and the account (`Accounts`): every
copy of an issue is the recorded one, one a call is about to report, or owed to a
slip.

**`AgentRunsProofs`**: `AgentTyped`, `WatchedLeases` (`WatchedLeaseLive`), `LeasesKept`
(`LeaseKept`). No assumption is made of who starts, stops or retries what. That a
watched lease is alive is not inductive: `WatchOK` adds how much of it is left.
What is left of the lease and of the watcher's interval run down together, from the
full TTL and the full interval that a renewal sets, and time does not pass with the
interval used up. A start has its lease before it has a watcher, so a replica that
is between the two holds a lease of full length. And a watcher has a stop of its own
under way only where it waits for it, so a stop that ends does not put one back to
ticking that has an older lease. That no other replica gets the lease follows with
`Grantable`, since release and renewal look at the owner. Nothing like it holds of
runs instead of watchers: see "Further divergences".

**`RelayProofs`**: `RelayWellTyped`, `TransientFailuresEatNothing`,
`RelayImplementsBroadcast`. The refinement needs that the events of a sender,
read from what a pod delivered last through its inbound queue, the sender's
drain item and its outbox, never decrease. A drain item that may have gone out
though it timed out is why they need not increase.

**`AuditChainProofs`**: `AuditWellTyped`, `ChainAlwaysLinks` (`LogVerifies`),
`EventsSurviveWriters` (`OnlyFaultsLoseEvents`), `ErasureNamesNobody`
(`ErasureIsComplete`). Who is past the lock step holds the lock (`LockInv`); the
log is without gaps, linked, and has one row per request that committed
(`LogInv`); the row made under the lock follows the last row, or the genesis of a
log that was pruned away (`NextInv`); the log an eraser is about to rewrite is the
end of the log it read, since only pruning works without the lock (`PlanInv`).

Assumptions: the named ASSUMEs of the models (types of constants, leases longer
than zero, one heartbeat within a lease) and `OnlyGrantsRun`: no caller upserts
a status that maps to running. In `service.py` the two such statuses are assigned
inside `process()` to the copy that `get` just made for this call, and are
replaced before its save. For the statuses of `PlanPipeline` it is a lemma
(`StoreAssumptions`). This holds while the session store answers; see the
shared object under "Further divergences". `CapRespected` and
`FailureCarriesReason` allow for the rows in `LegacyJobs`, because a leaked row
counts and is reclaimed without a reason.

Only model-checked: liveness, which the prover cannot reach (`AdmittedEnds`,
`SlotRecovered`, `EmitEnds`, `LoserStops`, `FirstStopServed`, `UntrackedLetGo`,
`EndedUntracked`, `BacklogMoves`, `ListensAgain`, `AuditEnds`), and the four
counterexamples. No definition of the models is recursive.

## What the models assume

* The database answers, except where a fault is modelled (relay, audit,
  lost answers of GitHub). The fail-open paths of admission, run leases and the
  session cache in its degraded mode are not modelled.
* Heartbeats of a healthy process are on time: time waits for one that is due.
* Starts and stops of agents take less time than a lease: no tick passes while one
  is under way. Cleanups, respawns and continuations up to their claim may take any time.
* A pod that restarts has a new origin, and so is another member of `Pods`.
* One clock for all replicas, so that retention prunes the oldest rows; a hash
  function without collisions; Postgres, not SQLite.

## Not modelled

* *Sessions*: the id counter and its local fallback, org stamps, the disk mirror and the import at boot, the degraded mode. The in-process
  semaphore used without a job store. Cancellation of a request (its worker
  thread goes on). Lens scores, findings and hashes are one verdict per gate run.
* *Emission*: links from children to the epic, labels, documents and artifacts
  that go with an issue, the signature of the contract.
* *Agents*: how a profile or a model is chosen for a retry, the output of the
  processes.
* *Relay*: the encoding of payloads; the fan-out to local browsers, which is one
  process on one loop.
* *Audit*: columns that nothing changes, the e-mail accounts an erasure removes,
  the exports and reports, which only read.
* *Review gates, ingestion, decomposition, detection, enrichment*: sequential or
  LLM-driven stages inside process(); a run of them is one verdict or a failure.
* *Terminals, worktrees, git, secrets, providers*: the state is in the operating
  system or in an external service.
* *Merge, test plan*: sequential text algorithms. *Routes, front end*: they call
  the operations above; their validation is not repeated.

## Plan

1. `JobStates`, `PlanSessions`, `PlanPipeline`, first theorems. Done.
2. `PlanEmit`, `AgentRuns`, `Relay`, `AuditChain` with proofs of all but
   `AgentRuns`. Done.
3. Proofs about `PlanSessions`, `PlanPipeline` and `AgentRuns`. Done.
4. `SessionCache`: the store's degraded mode with its shared objects and the id
   counter's fallback.
5. As far as they are worth it: the GitHub rate limiter, the conflict rules of
   merge against a reference definition.
