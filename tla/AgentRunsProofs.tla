---------------------------- MODULE AgentRunsProofs ----------------------------
(***************************************************************************)
(* The lease of a task for every number of replicas, every TTL and         *)
(* heartbeat the code allows, every set of stop calls and any number of    *)
(* runs, starts under way and crashes.                                     *)
(*                                                                         *)
(* That the lease of a watched run stays alive, and so is granted to no    *)
(* other replica, needs to be strengthened: what is left of it and what is *)
(* left of the watcher's interval run down together, from values that a    *)
(* grant and a renewal set.                                                *)
(***************************************************************************)
EXTENDS AgentRuns, TLAPS, SequenceTheorems

(***************************************************************************)
(* The inductive invariant.                                                *)
(***************************************************************************)

\* The watcher has a stop of its own under way only where it waits for it.  A
\* lease whose owner watches outlasts the wait for the next renewal; that of a
\* replica that starts a process, whose watcher is to come, is as good as new.
WatchOK(r) ==
  /\ stop[r]["watcher"].pc # "none" => watcher[r].pc \in {"asked", "lost"}
  /\ lease.owner = r =>
       /\ watcher[r].pc \in {"tick", "asked"} =>
            lease.left + Heartbeat >= LeaseTTL + watcher[r].due
       /\ watcher[r].pc = "renew" => lease.left + Heartbeat >= LeaseTTL
       /\ \A i \in DOMAIN runs :
            runs[i].home = r /\ runs[i].pc \in {"spawn", "emit"} => lease.left = LeaseTTL

LeaseInv == AgentTypeOK /\ \A r \in Replicas : WatchOK(r)

(***************************************************************************)
(* What the steps make of the list of runs.                                *)
(***************************************************************************)

RunsOK == runs \in Seq(Run) /\ \A i \in DOMAIN runs : runs[i].from \in 0..Last

Starting(x) == x.pc \in {"spawn", "emit"}

\* x can follow the record old: a run stays on its replica and only the start it
\* is in, if any, goes on to its process and its watcher.
Follows(old, x) ==
  /\ x \in Run /\ x.from \in {old.from, 0} /\ x.home = old.home
  /\ Starting(x) => Starting(old)

\* No start is granted its lease.
NoneGranted ==
  \A i \in DOMAIN runs' :
    Starting(runs'[i]) =>
      i \in DOMAIN runs /\ runs[i].home = runs'[i].home /\ Starting(runs[i])

\* The step keeps the type of the list and drops no run.
RunsKept == RunsOK' /\ Last \in Nat /\ Last' \in Nat /\ Last' >= Last

RunsGoOn == RunsKept /\ NoneGranted

LEMMA RunsTyped ==
  ASSUME RunsOK
  PROVE  /\ Last \in Nat /\ DOMAIN runs = 1..Last /\ runs \in [DOMAIN runs -> Run]
         /\ \A i \in DOMAIN runs : runs[i] \in Run /\ runs[i].home \in Replicas
<1>1. runs \in Seq(Run)
  BY DEF RunsOK
<1>2. Last \in Nat /\ DOMAIN runs = 1..Last /\ runs \in [1..Last -> Run]
  BY <1>1, LenProperties DEF Last
<1> QED BY <1>2 DEF Run

LEMMA SameRuns ==
  ASSUME RunsOK, runs' = runs
  PROVE  RunsGoOn
<1>1. Last' = Last
  BY DEF Last
<1> QED BY <1>1, RunsTyped DEF RunsGoOn, RunsKept, RunsOK, NoneGranted

\* What the steps write to a record.
LEMMA OverFollows ==
  ASSUME NEW x \in Run
  PROVE  Follows(x, Over(x)) /\ Over(x).from = 0
BY DEF Follows, Over, Run, Starting

LEMMA MovedFollows ==
  ASSUME NEW x \in Run, NEW e,
         \/ e = x
         \/ e = [x EXCEPT !.pc = "cleanup"]
         \/ e = [x EXCEPT !.pc = "respawn"]
         \/ e = [x EXCEPT !.pc = "restart"]
         \/ e = [x EXCEPT !.pc = "monitor", !.from = 0]
         \/ \E c \in {"zero", "failed"} : e = [x EXCEPT !.agent = c]
         \/ Starting(x) /\ e = [x EXCEPT !.pc = "emit", !.agent = "live"]
  PROVE  Follows(x, e)
<1>1. CASE e = x BY <1>1 DEF Follows
<1>2. CASE e = [x EXCEPT !.pc = "cleanup"] BY <1>2 DEF Follows, Run, Starting
<1>3. CASE e = [x EXCEPT !.pc = "respawn"] BY <1>3 DEF Follows, Run, Starting
<1>4. CASE e = [x EXCEPT !.pc = "restart"] BY <1>4 DEF Follows, Run, Starting
<1>5. CASE e = [x EXCEPT !.pc = "monitor", !.from = 0] BY <1>5 DEF Follows, Run, Starting
<1>6. CASE \E c \in {"zero", "failed"} : e = [x EXCEPT !.agent = c]
  BY <1>6 DEF Follows, Run, Starting
<1>7. CASE Starting(x) /\ e = [x EXCEPT !.pc = "emit", !.agent = "live"]
  BY <1>7 DEF Follows, Run, Starting
<1> QED BY <1>1, <1>2, <1>3, <1>4, <1>5, <1>6, <1>7

\* Each run got a record that can follow the one it had.
EditOf(new) ==
  /\ new \in [DOMAIN runs -> Run]
  /\ \A i \in DOMAIN runs : Follows(runs[i], new[i])

LEMMA EditTyped ==
  ASSUME RunsOK, NEW new \in [DOMAIN runs -> Run]
  PROVE  new \in Seq(Run) /\ Len(new) = Last
<1>1. Last \in Nat /\ DOMAIN runs = 1..Last
  BY RunsTyped
<1>2. new \in [1..Last -> Run]
  BY <1>1
<1>3. new \in Seq(Run)
  BY <1>1, <1>2, IsASeq
<1> QED BY <1>1, <1>2, <1>3, LenProperties

LEMMA EditedRuns ==
  ASSUME RunsOK, EditOf(runs')
  PROVE  RunsGoOn /\ Last' = Last
<1>1. Last \in Nat /\ DOMAIN runs = 1..Last
  BY RunsTyped
<1>2. runs' \in Seq(Run) /\ Last' = Last
  BY EditTyped DEF EditOf, Last
<1>3. DOMAIN runs' = DOMAIN runs
  BY DEF EditOf
<1>4. \A i \in DOMAIN runs' : runs'[i].from \in 0..Last'
  BY <1>1, <1>2, <1>3 DEF EditOf, Follows, RunsOK
<1>5. NoneGranted
  BY <1>3 DEF EditOf, Follows, NoneGranted
<1> QED BY <1>1, <1>2, <1>4, <1>5 DEF RunsGoOn, RunsKept, RunsOK

\* One record changes.
LEMMA OneEdit ==
  ASSUME RunsOK, NEW i \in DOMAIN runs, NEW e \in Run, Follows(runs[i], e),
         NEW new, new = [runs EXCEPT ![i] = e]
  PROVE  EditOf(new)
<1>1. runs \in [DOMAIN runs -> Run] /\ \A j \in DOMAIN runs : runs[j] \in Run
  BY RunsTyped
<1>2. new \in [DOMAIN runs -> Run]
  BY <1>1
<1>3. \A j \in DOMAIN runs : Follows(runs[j], runs[j])
  BY <1>1, MovedFollows
<1> QED BY <1>1, <1>2, <1>3 DEF EditOf

\* A run joins the edited list.
LEMMA AppendedRuns ==
  ASSUME RunsOK, NEW new, EditOf(new), NEW x \in Run,
         x.from \in 0..Last, ~Starting(x), runs' = Append(new, x)
  PROVE  RunsGoOn /\ Last' = Last + 1
<1>1. Last \in Nat /\ DOMAIN runs = 1..Last
  BY RunsTyped
<1>2. new \in Seq(Run) /\ Len(new) = Last
  BY EditTyped DEF EditOf
<1>3. /\ runs' \in Seq(Run) /\ Len(runs') = Last + 1
      /\ \A i \in 1..Last : runs'[i] = new[i]
      /\ runs'[Last + 1] = x
  BY <1>1, <1>2, AppendProperties
<1>4. DOMAIN runs' = 1..Len(runs') /\ Last' = Last + 1
  BY <1>3, LenProperties DEF Last
<1>5. \A i \in DOMAIN runs' : i = Last + 1 \/ i \in DOMAIN runs
  BY <1>1, <1>3, <1>4
<1>6. \A i \in DOMAIN runs : runs'[i] = new[i]
  BY <1>1, <1>3
<1>7. \A i \in DOMAIN runs' : runs'[i].from \in 0..Last'
  BY <1>1, <1>3, <1>4, <1>5, <1>6 DEF EditOf, Follows, RunsOK
<1>8. NoneGranted
  BY <1>3, <1>5, <1>6 DEF NoneGranted, EditOf, Follows
<1> QED BY <1>1, <1>3, <1>4, <1>7, <1>8 DEF RunsGoOn, RunsKept, RunsOK

(***************************************************************************)
(* The list of runs, action by action.                                     *)
(***************************************************************************)

\* The two ways in which a start and the monitor that made it end together.
LEMMA EndingEdit ==
  ASSUME RunsOK, NEW i \in DOMAIN runs, NEW new,
         new = Started(i) \/ new = StartFailed(i)
  PROVE  EditOf(new)
<1>1. runs \in [DOMAIN runs -> Run] /\ \A j \in DOMAIN runs : runs[j] \in Run
  BY RunsTyped
<1>2. DOMAIN new = DOMAIN runs /\ new = [j \in DOMAIN runs |-> new[j]]
  BY DEF Started, StartFailed
<1>3. ASSUME NEW j \in DOMAIN runs
      PROVE  Follows(runs[j], new[j])
  <2>1. \/ new[j] = runs[j]
        \/ new[j] = Over(runs[j])
        \/ new[j] = [runs[j] EXCEPT !.pc = "cleanup"]
        \/ new[j] = [runs[j] EXCEPT !.pc = "monitor", !.from = 0]
    BY <1>3 DEF Started, StartFailed
  <2> QED BY <1>1, <1>3, <2>1, OverFollows, MovedFollows
<1>4. \A j \in DOMAIN runs : new[j] \in Run
  BY <1>3 DEF Follows
<1> QED BY <1>2, <1>3, <1>4 DEF EditOf

LEMMA NewRunTyped ==
  ASSUME RunsOK, NEW r \in Replicas, NEW kind \in {"spec", "exec"}, NEW from \in 0..Last
  PROVE  /\ NewRun(r, kind, from) \in Run
         /\ NewRun(r, kind, from).from \in 0..Last
         /\ ~Starting(NewRun(r, kind, from))
<1>1. Last \in Nat
  BY RunsTyped
<1> QED BY <1>1 DEF NewRun, Run, Starting

LEMMA SameEdit ==
  ASSUME RunsOK
  PROVE  EditOf(runs)
BY RunsTyped, MovedFollows DEF EditOf

LEMMA BeginStartRuns ==
  ASSUME RunsOK, NEW r \in Replicas, BeginStart(r)
  PROVE  RunsGoOn
<1>1. PICK kind \in Kinds : runs' = Append(runs, NewRun(r, kind, 0))
  BY DEF BeginStart
<1>2. kind \in {"spec", "exec"} /\ 0 \in 0..Last
  BY <1>1, RunsTyped, AgentRunsAssumption
<1>3. PICK x : x = NewRun(r, kind, 0)
  OBVIOUS
<1>4. x \in Run /\ x.from \in 0..Last /\ ~Starting(x)
  BY <1>2, <1>3, NewRunTyped
<1> QED BY <1>1, <1>3, <1>4, SameEdit, AppendedRuns

\* A claim that is granted is the one step that grants a start.
LEMMA ClaimRuns ==
  ASSUME RunsOK, NEW i \in DOMAIN runs, ClaimLease(i)
  PROVE  /\ RunsKept
         /\ \/ lease' = Granted(runs[i].home)
            \/ lease' = lease /\ NoneGranted
<1>1. CASE lease' = Granted(runs[i].home) /\ runs' = [runs EXCEPT ![i].pc = "spawn"]
  <2>1. Last \in Nat /\ DOMAIN runs = 1..Last /\ \A j \in DOMAIN runs : runs[j] \in Run
    BY RunsTyped
  <2>2. PICK e : e = [runs[i] EXCEPT !.pc = "spawn"]
    OBVIOUS
  <2>3. e \in Run /\ e.from = runs[i].from
    BY <2>1, <2>2 DEF Run
  <2>4. runs' = [runs EXCEPT ![i] = e]
    BY <1>1, <2>2
  <2>5. runs' \in [DOMAIN runs -> Run]
    BY <2>3, <2>4, RunsTyped
  <2>6. runs' \in Seq(Run) /\ Last' = Last
    BY <2>5, EditTyped DEF Last
  <2>7. \A j \in DOMAIN runs' : runs'[j].from \in 0..Last'
    BY <2>3, <2>4, <2>5, <2>6 DEF RunsOK
  <2> QED BY <1>1, <2>1, <2>6, <2>7 DEF RunsKept, RunsOK
<1>2. CASE lease' = lease /\ runs' = StartFailed(i)
  <2>1. EditOf(runs')
    BY <1>2, EndingEdit
  <2> QED BY <1>2, <2>1, EditedRuns DEF RunsGoOn
<1> QED BY <1>1, <1>2 DEF ClaimLease

LEMMA StartRuns ==
  ASSUME RunsOK, NEW i \in DOMAIN runs, SpawnProc(i) \/ SpawnFails(i) \/ WatchRun(i)
  PROVE  RunsGoOn
<1>1. CASE SpawnProc(i)
  <2>1. PICK e : e = [runs[i] EXCEPT !.pc = "emit", !.agent = "live"]
    OBVIOUS
  <2>2. runs' = [runs EXCEPT ![i] = e] /\ Starting(runs[i])
    BY <1>1, <2>1 DEF SpawnProc, Starting
  <2>3. Follows(runs[i], e)
    BY <2>1, <2>2, RunsTyped, MovedFollows
  <2> QED BY <2>2, <2>3, OneEdit, EditedRuns DEF Follows
<1>2. CASE SpawnFails(i)
  BY <1>2, EndingEdit, EditedRuns DEF SpawnFails
<1>3. CASE WatchRun(i)
  BY <1>3, EndingEdit, EditedRuns DEF WatchRun
<1> QED BY <1>1, <1>2, <1>3

\* A stop, the end of a process and a monitor edit the record of one run.
LEMMA MonitorRuns ==
  ASSUME RunsOK, NEW i \in DOMAIN runs,
         BeginRespawn(i) \/ RespawnFails(i) \/ DeferToStop(i) \/ BeginCleanup(i)
         \/ EndCleanup(i) \/ ProcExits(i)
  PROVE  RunsGoOn
<1>1. PICK e : /\ runs' = [runs EXCEPT ![i] = e]
               /\ \/ e = Over(runs[i])
                  \/ e = [runs[i] EXCEPT !.pc = "cleanup"]
                  \/ e = [runs[i] EXCEPT !.pc = "respawn"]
                  \/ \E c \in {"zero", "failed"} : e = [runs[i] EXCEPT !.agent = c]
  <2>1. CASE BeginRespawn(i) BY <2>1 DEF BeginRespawn
  <2>2. CASE RespawnFails(i) BY <2>2 DEF RespawnFails
  <2>3. CASE DeferToStop(i) BY <2>3 DEF DeferToStop
  <2>4. CASE BeginCleanup(i) BY <2>4 DEF BeginCleanup
  <2>5. CASE EndCleanup(i) BY <2>5 DEF EndCleanup
  <2>6. CASE ProcExits(i) BY <2>6 DEF ProcExits
  <2> QED BY <2>1, <2>2, <2>3, <2>4, <2>5, <2>6
<1>2. Follows(runs[i], e)
  BY <1>1, RunsTyped, OverFollows, MovedFollows
<1> QED BY <1>1, <1>2, OneEdit, EditedRuns DEF Follows

LEMMA StopWaitedRuns ==
  ASSUME AgentTypeOK, NEW r \in Replicas, NEW w \in Callers, StopWaited(r, w)
  PROVE  RunsGoOn
<1>1. RunsOK
  BY DEF AgentTypeOK, RunsOK
<1>2. CASE runs' = runs
  BY <1>1, <1>2, SameRuns
<1>3. CASE stop[r][w].run \in Live /\ runs' = [runs EXCEPT ![stop[r][w].run].agent = "failed"]
  <2>1. PICK i \in DOMAIN runs : runs' = [runs EXCEPT ![i].agent = "failed"]
    BY <1>3 DEF Live
  <2>2. PICK e : e = [runs[i] EXCEPT !.agent = "failed"]
    OBVIOUS
  <2>3. Follows(runs[i], e)
    BY <1>1, <2>2, RunsTyped, MovedFollows
  <2> QED BY <1>1, <2>1, <2>2, <2>3, OneEdit, EditedRuns DEF Follows
<1> QED BY <1>2, <1>3 DEF StopWaited

LEMMA RespawnedRuns ==
  ASSUME RunsOK, NEW i \in DOMAIN runs, Respawned(i)
  PROVE  RunsGoOn /\ Last' = Last + 1
<1>1. Last \in Nat /\ runs[i] \in Run
  BY RunsTyped
<1>2. PICK e : e = Over(runs[i])
  OBVIOUS
<1>3. PICK new : new = [runs EXCEPT ![i] = e]
  OBVIOUS
<1>4. EditOf(new)
  BY <1>1, <1>2, <1>3, OverFollows, OneEdit DEF Follows
<1>5. PICK x : x = [runs[i] EXCEPT !.pc = "monitor", !.agent = "live",
                                   !.again = FALSE, !.from = 0]
  OBVIOUS
<1>6. x \in Run /\ x.from \in 0..Last /\ ~Starting(x)
  <2>1. PICK y : y = [runs[i] EXCEPT !.pc = "monitor", !.agent = "live"]
    OBVIOUS
  <2>2. y \in Run /\ y.pc = "monitor"
    BY <1>1, <2>1 DEF Run
  <2>3. x = [y EXCEPT !.again = FALSE, !.from = 0]
    BY <1>5, <2>1
  <2>4. x \in Run /\ x.pc = "monitor" /\ x.from = 0
    BY <2>2, <2>3 DEF Run
  <2> QED BY <1>1, <2>4 DEF Starting
<1>7. runs' = Append(new, x)
  BY <1>2, <1>3, <1>5 DEF Respawned
<1> QED BY <1>4, <1>6, <1>7, AppendedRuns

LEMMA ContinueRuns ==
  ASSUME RunsOK, NEW i \in DOMAIN runs, Continue(i)
  PROVE  RunsGoOn
<1>1. Last \in Nat /\ runs[i] \in Run /\ i \in 0..Last /\ runs[i].home \in Replicas
  BY RunsTyped
<1>2. PICK e : e = [runs[i] EXCEPT !.pc = "restart"]
  OBVIOUS
<1>3. PICK new : new = [runs EXCEPT ![i] = e]
  OBVIOUS
<1>4. EditOf(new)
  BY <1>1, <1>2, <1>3, MovedFollows, OneEdit DEF Follows
<1>5. PICK x : x = NewRun(runs[i].home, "exec", i)
  OBVIOUS
<1>6. x \in Run /\ x.from \in 0..Last /\ ~Starting(x)
  BY <1>1, <1>5, NewRunTyped
<1>7. runs' = Append(new, x)
  BY <1>2, <1>3, <1>5 DEF Continue
<1> QED BY <1>4, <1>6, <1>7, AppendedRuns

LEMMA CrashRuns ==
  ASSUME RunsOK, NEW r \in Replicas, Crash(r)
  PROVE  RunsGoOn
<1>1. \A i \in DOMAIN runs : runs[i] \in Run
  BY RunsTyped
<1>2. DOMAIN runs' = DOMAIN runs /\ runs' = [i \in DOMAIN runs |-> runs'[i]]
  BY DEF Crash
<1>3. \A i \in DOMAIN runs : runs'[i] = runs[i] \/ runs'[i] = Over(runs[i])
  BY DEF Crash
<1>4. \A i \in DOMAIN runs : Follows(runs[i], runs'[i])
  BY <1>1, <1>3, OverFollows, MovedFollows
<1>5. EditOf(runs')
  BY <1>2, <1>4 DEF EditOf, Follows
<1> QED BY <1>5, EditedRuns


(***************************************************************************)
(* The types.                                                              *)
(***************************************************************************)

LeaseType == [owner : Replicas \cup {"dead"}, left : 0..LeaseTTL, stop : BOOLEAN]
StopType(n) == [Replicas -> [Callers -> [pc : {"none", "wait", "pop"}, run : 0..n]]]
WatcherType ==
  [pc : {"off", "tick", "release", "exit", "renew", "asked", "lost"},
   due : 0..Heartbeat, stopping : BOOLEAN]

\* The variables but the list of runs have their types for n runs.
RestTyped(n) ==
  /\ lease \in LeaseType
  /\ tracked \in [Replicas -> 0..n] /\ stopped \in [Replicas -> BOOLEAN]
  /\ stop \in StopType(n)
  /\ watcher \in [Replicas -> WatcherType]
  /\ crashes \in 0..MaxCrashes

LEMMA TypeParts == AgentTypeOK <=> RunsOK /\ RestTyped(Last)
BY DEF AgentTypeOK, RunsOK, RestTyped, LeaseType, StopType, WatcherType

LEMMA NextTyped ==
  ASSUME RunsOK', RestTyped(Last)'
  PROVE  AgentTypeOK'
BY DEF AgentTypeOK, RunsOK, RestTyped, LeaseType, StopType, WatcherType

LEMMA Bounds ==
  /\ LeaseTTL \in Nat /\ Heartbeat \in Nat /\ Heartbeat > 0 /\ Heartbeat * 3 <= LeaseTTL
  /\ MaxCrashes \in Nat
BY AgentRunsAssumption

\* More runs make the types wider only.
LEMMA Wider ==
  ASSUME AgentTypeOK, RunsKept
  PROVE  RestTyped(Last')
<1>1. 0..Last \subseteq 0..Last'
  BY DEF RunsKept
<1>2. tracked \in [Replicas -> 0..Last']
  BY <1>1, TypeParts DEF RestTyped
<1>3. stop \in StopType(Last')
  BY <1>1, TypeParts DEF RestTyped, StopType
<1> QED BY <1>2, <1>3, TypeParts DEF RestTyped

LEMMA LeaseValues ==
  ASSUME NEW l \in LeaseType
  PROVE  /\ \A r \in Replicas : Granted(r) \in LeaseType
         /\ NoLease \in LeaseType
         /\ [l EXCEPT !.left = LeaseTTL] \in LeaseType
         /\ [l EXCEPT !.stop = TRUE] \in LeaseType
         /\ [l EXCEPT !.owner = "dead"] \in LeaseType
         /\ [l EXCEPT !.left = IF @ = 0 THEN 0 ELSE @ - 1] \in LeaseType
<1>1. (\A r \in Replicas : Granted(r) \in LeaseType) /\ NoLease \in LeaseType
  BY Bounds DEF LeaseType, Granted, NoLease
<1>2. [l EXCEPT !.left = LeaseTTL] \in LeaseType
  BY Bounds DEF LeaseType
<1>3. [l EXCEPT !.stop = TRUE] \in LeaseType /\ [l EXCEPT !.owner = "dead"] \in LeaseType
  BY DEF LeaseType
<1>4. [l EXCEPT !.left = IF @ = 0 THEN 0 ELSE @ - 1] \in LeaseType
  BY Bounds DEF LeaseType
<1> QED BY <1>1, <1>2, <1>3, <1>4

(***************************************************************************)
(* What keeps the lease of a replica that watches.                         *)
(***************************************************************************)

\* The watcher of r has no new stop to wait for.
NoNewWait(r) == stop'[r]["watcher"].pc # "none" => stop[r]["watcher"].pc # "none"

SameWatch(r) == watcher'[r] = watcher[r] /\ NoNewWait(r)

\* The lease did not move, or another replica or none has it now.
LeaseStays(r) ==
  \/ lease'.owner = lease.owner /\ lease'.left = lease.left
  \/ lease'.owner # r

LEMMA Undisturbed ==
  ASSUME NEW r \in Replicas, WatchOK(r), NoneGranted, SameWatch(r), LeaseStays(r)
  PROVE  WatchOK(r)'
<1>1. (stop[r]["watcher"].pc # "none" => watcher[r].pc \in {"asked", "lost"})'
  BY DEF WatchOK, SameWatch, NoNewWait
<1>2. CASE lease'.owner # r
  BY <1>1, <1>2 DEF WatchOK
<1>3. CASE lease'.owner = lease.owner /\ lease'.left = lease.left
  <2>1. ASSUME lease.owner = r, NEW i \in DOMAIN runs', runs'[i].home = r, Starting(runs'[i])
        PROVE  lease.left = LeaseTTL
    BY <2>1 DEF WatchOK, NoneGranted, Starting
  <2> QED BY <1>1, <1>3, <2>1 DEF WatchOK, SameWatch, Starting
<1> QED BY <1>2, <1>3 DEF LeaseStays

\* A lease just granted or renewed is as good as can be.
LEMMA FullLease ==
  ASSUME AgentTypeOK', NEW r \in Replicas, lease'.left = LeaseTTL,
         stop'[r]["watcher"].pc # "none" => watcher'[r].pc \in {"asked", "lost"}
  PROVE  WatchOK(r)'
<1>1. watcher'[r].due \in Nat /\ watcher'[r].due <= Heartbeat
  BY Bounds DEF AgentTypeOK
<1>2. LeaseTTL + Heartbeat >= LeaseTTL + watcher'[r].due /\ LeaseTTL + Heartbeat >= LeaseTTL
  BY <1>1, Bounds
<1> QED BY <1>2 DEF WatchOK

\* A step of the starts, the stops, the monitors and the processes that leaves
\* lease and watchers alone.
LEMMA QuietStep ==
  ASSUME LeaseInv, RunsGoOn, RestTyped(Last)',
         \A r \in Replicas : SameWatch(r) /\ LeaseStays(r)
  PROVE  LeaseInv'
<1>1. AgentTypeOK'
  BY NextTyped DEF RunsGoOn, RunsKept
<1>2. \A r \in Replicas : WatchOK(r)'
  BY Undisturbed DEF LeaseInv, RunsGoOn
<1> QED BY <1>1, <1>2 DEF LeaseInv

(***************************************************************************)
(* The inductive step, action by action.                                   *)
(***************************************************************************)

LEMMA InvParts ==
  ASSUME LeaseInv
  PROVE  AgentTypeOK /\ RunsOK /\ RestTyped(Last) /\ \A r \in Replicas : WatchOK(r)
BY TypeParts DEF LeaseInv

\* An entry of running_tasks changes at most.
LEMMA QuietTyped ==
  ASSUME LeaseInv, RunsGoOn, lease' = lease, stop' = stop, watcher' = watcher,
         crashes' = crashes, stopped' \in [Replicas -> BOOLEAN],
         tracked' \in [Replicas -> 0..Last']
  PROVE  LeaseInv'
<1>1. RestTyped(Last')
  BY InvParts, Wider DEF RunsGoOn
<1>2. RestTyped(Last)'
  BY <1>1 DEF RestTyped
<1>3. \A r \in Replicas : SameWatch(r) /\ LeaseStays(r)
  BY DEF SameWatch, NoNewWait, LeaseStays
<1> QED BY <1>2, <1>3, QuietStep

LEMMA BeginStartInv ==
  ASSUME LeaseInv, NEW r \in Replicas, BeginStart(r)
  PROVE  LeaseInv'
<1>1. RunsGoOn
  BY InvParts, BeginStartRuns
<1>2. RestTyped(Last')
  BY <1>1, InvParts, Wider DEF RunsGoOn
<1> QED BY <1>1, <1>2, QuietTyped DEF BeginStart, RestTyped

LEMMA ClaimInv ==
  ASSUME LeaseInv, NEW i \in DOMAIN runs, ClaimLease(i)
  PROVE  LeaseInv'
<1>1. /\ RunsKept
      /\ \/ lease' = Granted(runs[i].home)
         \/ lease' = lease /\ NoneGranted
  BY InvParts, ClaimRuns
<1>2. /\ UNCHANGED <<tracked, stopped, stop, watcher, crashes>>
      /\ RestTyped(Last') /\ runs[i].home \in Replicas
  BY <1>1, InvParts, Wider, RunsTyped DEF ClaimLease
<1>3. CASE lease' = lease /\ NoneGranted
  BY <1>1, <1>2, <1>3, QuietTyped DEF RunsGoOn, RestTyped
<1>4. CASE lease' = Granted(runs[i].home)
  <2>1. lease' \in LeaseType /\ lease'.left = LeaseTTL
    BY <1>2, <1>4, LeaseValues DEF Granted, RestTyped
  <2>2. RestTyped(Last)'
    BY <1>2, <2>1 DEF RestTyped
  <2>3. AgentTypeOK'
    BY <1>1, <2>2, NextTyped DEF RunsKept
  <2>4. \A r \in Replicas : WatchOK(r)'
    <3>1. TAKE r \in Replicas
    <3>2. stop'[r]["watcher"].pc # "none" => watcher'[r].pc \in {"asked", "lost"}
      BY <1>2, InvParts DEF WatchOK
    <3> QED BY <2>1, <2>3, <3>2, FullLease
  <2> QED BY <2>3, <2>4 DEF LeaseInv
<1> QED BY <1>1, <1>3, <1>4

LEMMA SpawnProcInv ==
  ASSUME LeaseInv, NEW i \in DOMAIN runs, SpawnProc(i)
  PROVE  LeaseInv'
<1>1. RunsGoOn /\ RestTyped(Last') /\ i \in 0..Last
  BY InvParts, StartRuns, Wider, RunsTyped DEF RunsGoOn
<1>2. tracked \in [Replicas -> 0..Last'] /\ i \in 0..Last'
  BY <1>1 DEF RestTyped, RunsGoOn, RunsKept
<1>3. tracked' \in [Replicas -> 0..Last']
  BY <1>2 DEF SpawnProc
<1> QED BY <1>1, <1>3, QuietTyped DEF SpawnProc, RestTyped

\* A released lease is nobody's.
LEMMA ReleaseStays ==
  ASSUME LeaseInv, NEW r \in Replicas, lease' = Released(r)
  PROVE  lease' \in LeaseType /\ \A q \in Replicas : LeaseStays(q)
<1>1. lease \in LeaseType
  BY InvParts DEF RestTyped
<1>2. lease' = NoLease \/ lease' = lease
  BY DEF Released
<1>3. CASE lease' = NoLease
  <2>1. lease' \in LeaseType
    BY <1>3, LeaseValues, <1>1
  <2>2. lease'.owner = "dead"
    BY <1>3 DEF NoLease
  <2> QED BY <2>1, <2>2, AgentRunsAssumption DEF LeaseStays
<1>4. CASE lease' = lease
  BY <1>1, <1>4 DEF LeaseStays
<1> QED BY <1>2, <1>3, <1>4

LEMMA SpawnFailsInv ==
  ASSUME LeaseInv, NEW i \in DOMAIN runs, SpawnFails(i)
  PROVE  LeaseInv'
<1>1. RunsGoOn /\ RestTyped(Last') /\ runs[i].home \in Replicas
  BY InvParts, StartRuns, Wider, RunsTyped DEF RunsGoOn
<1>2. lease' \in LeaseType /\ \A q \in Replicas : LeaseStays(q)
  BY <1>1, ReleaseStays DEF SpawnFails
<1>3. RestTyped(Last)'
  BY <1>1, <1>2 DEF SpawnFails, RestTyped
<1>4. \A q \in Replicas : SameWatch(q)
  BY DEF SpawnFails, SameWatch, NoNewWait
<1> QED BY <1>1, <1>2, <1>3, <1>4, QuietStep

\* The lease of a replica whose start is done is as new: its watcher begins with
\* the whole interval.
LEMMA WatchRunInv ==
  ASSUME LeaseInv, NEW i \in DOMAIN runs, WatchRun(i)
  PROVE  LeaseInv'
<1>1. RunsGoOn /\ RestTyped(Last') /\ runs[i].home \in Replicas
  BY InvParts, StartRuns, Wider, RunsTyped DEF RunsGoOn
<1>2. PICK h \in Replicas : h = runs[i].home
  BY <1>1
<1>3. PICK v : v = Watching
  OBVIOUS
<1>4. v \in WatcherType /\ v.pc = "tick" /\ v.due = Heartbeat
  BY <1>3, Bounds DEF Watching, WatcherType
<1>5. \/ watcher' = watcher
      \/ watcher[h].pc = "off" /\ watcher' = [watcher EXCEPT ![h] = v]
  BY <1>2, <1>3 DEF WatchRun
<1>6. watcher' \in [Replicas -> WatcherType]
  BY <1>1, <1>4, <1>5 DEF RestTyped
<1>7. RestTyped(Last)'
  BY <1>1, <1>6 DEF WatchRun, RestTyped
<1>8. AgentTypeOK'
  BY <1>1, <1>7, NextTyped DEF RunsGoOn, RunsKept
<1>9. ASSUME NEW r \in Replicas
      PROVE  WatchOK(r)'
  <2>1. LeaseStays(r) /\ NoNewWait(r)
    BY DEF WatchRun, LeaseStays, NoNewWait
  <2>2. CASE watcher'[r] = watcher[r]
    BY <1>1, <1>9, <2>1, <2>2, InvParts, Undisturbed DEF SameWatch, RunsGoOn
  <2>3. CASE watcher'[r] # watcher[r]
    <3>1. r = h /\ watcher[r].pc = "off" /\ watcher'[r] = v
      BY <1>1, <1>5, <1>9, <2>3 DEF RestTyped
    <3>2. stop'[r]["watcher"].pc = "none"
      BY <1>9, <3>1, InvParts DEF WatchOK, WatchRun
    <3>3. lease.owner = r => lease.left = LeaseTTL
      BY <1>2, <1>9, <3>1, InvParts DEF WatchOK, WatchRun
    <3>4. CASE lease.owner = r
      BY <1>8, <1>9, <3>2, <3>3, <3>4, FullLease DEF WatchRun
    <3>5. CASE lease.owner # r
      BY <3>2, <3>5 DEF WatchOK, WatchRun
    <3> QED BY <3>4, <3>5
  <2> QED BY <2>2, <2>3
<1> QED BY <1>8, <1>9 DEF LeaseInv

LEMMA UntrackTyped ==
  ASSUME NEW n \in Nat, NEW t \in [Replicas -> 0..n], NEW r \in Replicas
  PROVE  [t EXCEPT ![r] = 0] \in [Replicas -> 0..n]
OBVIOUS

LEMMA FlagTyped ==
  ASSUME stopped \in [Replicas -> BOOLEAN], NEW r \in Replicas, NEW w, NEW b \in BOOLEAN
  PROVE  Flagged(r, w) \in [Replicas -> BOOLEAN] /\ [stopped EXCEPT ![r] = b] \in [Replicas -> BOOLEAN]
BY DEF Flagged

\* A replica's stop call takes another value.
StopSet(r, w, v) == [stop EXCEPT ![r][w] = v]

LEMMA StopTyped ==
  ASSUME NEW n \in Nat, stop \in StopType(n), NEW r \in Replicas, NEW w \in Callers,
         NEW v \in [pc : {"none", "wait", "pop"}, run : 0..n],
         NEW new, new = StopSet(r, w, v)
  PROVE  /\ new \in StopType(n) /\ new[r][w] = v
         /\ \A q \in Replicas, x \in Callers : q # r \/ x # w => new[q][x] = stop[q][x]
BY DEF StopType, StopSet

LEMMA SignalTyped ==
  ASSUME AgentTypeOK, NEW r \in Replicas
  PROVE  [pc |-> "wait", run |-> tracked[r]] \in [pc : {"none", "wait", "pop"}, run : 0..Last]
BY TypeParts DEF RestTyped

LEMMA UserStopInv ==
  ASSUME LeaseInv, NEW r \in Replicas, UserStop(r)
  PROVE  LeaseInv'
<1>1. RunsGoOn /\ RestTyped(Last) /\ RestTyped(Last') /\ Last \in Nat /\ Last' = Last
  BY InvParts, SameRuns, Wider DEF UserStop, RunsGoOn, RunsKept, Last
<1>2. PICK w \in Stops :
        /\ stop[r][w] = NoStop
        /\ stopped' = Flagged(r, w)
        /\ \/ stop' = Signalled(r, w) /\ tracked' = tracked
           \/ stop' = stop
              /\ tracked' = [tracked EXCEPT ![r] = IF w = "stop" THEN @ ELSE 0]
  BY DEF UserStop
<1>3. w \in Callers /\ w # "watcher"
  BY <1>2, AgentRunsAssumption DEF Callers
<1>4. stopped' \in [Replicas -> BOOLEAN]
  BY <1>1, <1>2, FlagTyped DEF RestTyped
<1>5. tracked' \in [Replicas -> 0..Last]
  BY <1>1, <1>2 DEF RestTyped
<1>6. PICK v : v = [pc |-> "wait", run |-> tracked[r]]
  OBVIOUS
<1>7. v \in [pc : {"none", "wait", "pop"}, run : 0..Last]
  BY <1>6, InvParts, SignalTyped
<1>8. stop' = stop \/ stop' = StopSet(r, w, v)
  BY <1>2, <1>6 DEF Signalled, StopSet
<1>9. /\ stop' \in StopType(Last)
      /\ \A q \in Replicas : stop'[q]["watcher"] = stop[q]["watcher"]
  BY <1>1, <1>3, <1>7, <1>8, StopTyped DEF RestTyped, Callers
<1>10. RestTyped(Last)'
  BY <1>1, <1>4, <1>5, <1>9 DEF UserStop, RestTyped
<1>11. \A q \in Replicas : SameWatch(q) /\ LeaseStays(q)
  BY <1>9 DEF UserStop, SameWatch, NoNewWait, LeaseStays
<1> QED BY <1>1, <1>10, <1>11, QuietStep

LEMMA StopWaitedInv ==
  ASSUME LeaseInv, NEW r \in Replicas, NEW w \in Callers, StopWaited(r, w)
  PROVE  LeaseInv'
<1>1. RunsGoOn
  BY InvParts, StopWaitedRuns
<1>2. RestTyped(Last') /\ Last' \in Nat
  BY <1>1, InvParts, Wider DEF RunsGoOn, RunsKept
<1>3. PICK v : v = [stop[r][w] EXCEPT !.pc = "pop"]
  OBVIOUS
<1>4. v \in [pc : {"none", "wait", "pop"}, run : 0..Last']
  BY <1>2, <1>3 DEF RestTyped, StopType
<1>5. stop' = StopSet(r, w, v)
  BY <1>3 DEF StopWaited, StopSet
<1>6. /\ stop' \in StopType(Last') /\ stop'[r][w] = v
      /\ \A q \in Replicas, x \in Callers : q # r \/ x # w => stop'[q][x] = stop[q][x]
  <2>1. PICK n : n = Last'
    OBVIOUS
  <2>2. n \in Nat /\ stop \in StopType(n) /\ v \in [pc : {"none", "wait", "pop"}, run : 0..n]
    BY <1>2, <1>4, <2>1 DEF RestTyped
  <2>3. PICK new : new = stop'
    OBVIOUS
  <2>4. /\ new \in StopType(n) /\ new[r][w] = v
        /\ \A q \in Replicas, x \in Callers : q # r \/ x # w => new[q][x] = stop[q][x]
    BY <1>5, <2>2, <2>3, StopTyped
  <2> QED BY <2>1, <2>3, <2>4
<1>7. RestTyped(Last)'
  BY <1>2, <1>6 DEF StopWaited, RestTyped
<1>8. ASSUME NEW q \in Replicas
      PROVE  NoNewWait(q)
  <2>1. CASE q = r /\ w = "watcher"
    BY <2>1 DEF NoNewWait, StopWaited
  <2>2. CASE q # r \/ w # "watcher"
    BY <1>6, <1>8, <2>2 DEF NoNewWait, Callers
  <2> QED BY <2>1, <2>2
<1>9. \A q \in Replicas : SameWatch(q) /\ LeaseStays(q)
  BY <1>8 DEF StopWaited, SameWatch, LeaseStays
<1> QED BY <1>1, <1>7, <1>9, QuietStep

\* The watcher of r takes another value, on its way to no renewal.
LEMMA WatcherTyped ==
  ASSUME NEW r \in Replicas, NEW v \in WatcherType, watcher \in [Replicas -> WatcherType],
         watcher' = [watcher EXCEPT ![r] = v]
  PROVE  /\ watcher' \in [Replicas -> WatcherType] /\ watcher'[r] = v
         /\ \A q \in Replicas \ {r} : watcher'[q] = watcher[q]
OBVIOUS

\* A watcher that goes on as well placed as before, or stops looking.
GoesOn(r, v) ==
  /\ v.pc \in {"asked", "lost"} \/ stop'[r]["watcher"].pc = "none"
  /\ \/ v.pc \in {"off", "release", "exit", "lost"}
     \/ /\ v.pc \in {"tick", "asked"} /\ v.due = watcher[r].due
        /\ watcher[r].pc \in {"tick", "asked"}
     \/ v.pc = "renew" /\ watcher[r].pc = "tick"

\* A step of the watcher of r that leaves the lease to its owner.
LEMMA WatcherStepInv ==
  ASSUME LeaseInv, NEW r \in Replicas, NEW v \in WatcherType, RunsGoOn,
         watcher' = [watcher EXCEPT ![r] = v], GoesOn(r, v), RestTyped(Last)',
         \A q \in Replicas : LeaseStays(q) /\ (q # r => NoNewWait(q))
  PROVE  LeaseInv'
<1>1. AgentTypeOK'
  BY NextTyped DEF RunsGoOn, RunsKept
<1>2. watcher'[r] = v /\ \A q \in Replicas \ {r} : watcher'[q] = watcher[q]
  BY InvParts, WatcherTyped DEF RestTyped
<1>3. \A q \in Replicas \ {r} : WatchOK(q)'
  BY <1>2, InvParts, Undisturbed DEF SameWatch, RunsGoOn
<1>4. WatchOK(r)'
  <2>1. (stop[r]["watcher"].pc # "none" => watcher[r].pc \in {"asked", "lost"})'
    BY <1>2 DEF GoesOn
  <2>2. CASE lease'.owner # r
    BY <2>1, <2>2 DEF WatchOK
  <2>3. CASE lease.owner = r /\ lease'.owner = r /\ lease'.left = lease.left
    <3>1. WatchOK(r)
      BY InvParts
    <3>2. ASSUME NEW i \in DOMAIN runs', runs'[i].home = r, Starting(runs'[i])
          PROVE  lease.left = LeaseTTL
      BY <2>3, <3>1, <3>2 DEF WatchOK, RunsGoOn, NoneGranted, Starting
    <3>3. v.pc \in {"tick", "asked"} => lease.left + Heartbeat >= LeaseTTL + v.due
      BY <2>3, <3>1 DEF WatchOK, GoesOn
    <3>4. v.pc = "renew" => lease.left + Heartbeat >= LeaseTTL
      <4>1. lease.left \in Nat /\ watcher[r].due \in Nat
        BY InvParts, Bounds DEF RestTyped, LeaseType, WatcherType
      <4> QED BY <2>3, <3>1, <4>1, Bounds DEF WatchOK, GoesOn
    <3> QED BY <1>2, <2>1, <2>3, <3>2, <3>3, <3>4 DEF WatchOK, Starting
  <2> QED BY <2>2, <2>3 DEF LeaseStays
<1> QED BY <1>1, <1>3, <1>4 DEF LeaseInv

\* A stop call is done: that of a watcher hands back to it.
LEMMA StopPopsInv ==
  ASSUME LeaseInv, NEW r \in Replicas, NEW w \in Callers, StopPops(r, w)
  PROVE  LeaseInv'
<1>1. RunsGoOn /\ RestTyped(Last) /\ RestTyped(Last') /\ Last \in Nat /\ Last' = Last
  BY InvParts, SameRuns, Wider DEF StopPops, RunsGoOn, RunsKept, Last
<1>2. tracked' \in [Replicas -> 0..Last]
  BY <1>1, UntrackTyped DEF StopPops, RestTyped
<1>3. PICK v : v = NoStop
  OBVIOUS
<1>4. v \in [pc : {"none", "wait", "pop"}, run : 0..Last] /\ v.pc = "none"
  BY <1>1, <1>3 DEF NoStop
<1>5. stop' = StopSet(r, w, v)
  BY <1>3 DEF StopPops, StopSet
<1>6. /\ stop' \in StopType(Last) /\ stop'[r][w] = v
      /\ \A q \in Replicas, x \in Callers : q # r \/ x # w => stop'[q][x] = stop[q][x]
  BY <1>1, <1>4, <1>5, StopTyped DEF RestTyped
<1>7. \A q \in Replicas : LeaseStays(q) /\ NoNewWait(q)
  <2>1. TAKE q \in Replicas
  <2>2. CASE q = r /\ w = "watcher"
    BY <1>4, <1>6, <2>2 DEF NoNewWait, LeaseStays, StopPops
  <2>3. CASE q # r \/ w # "watcher"
    BY <1>6, <2>1, <2>3 DEF NoNewWait, LeaseStays, StopPops, Callers
  <2> QED BY <2>2, <2>3
<1>8. CASE w # "watcher"
  <2>1. watcher' = watcher
    BY <1>8 DEF StopPops
  <2>2. RestTyped(Last)'
    BY <1>1, <1>2, <1>6, <2>1 DEF StopPops, RestTyped
  <2>3. \A q \in Replicas : SameWatch(q)
    BY <1>7, <2>1 DEF SameWatch
  <2> QED BY <1>1, <1>7, <2>2, <2>3, QuietStep
<1>9. CASE w = "watcher"
  <2>1. watcher[r].pc \in {"asked", "lost"} /\ watcher[r] \in WatcherType
    BY <1>1, <1>9, InvParts DEF StopPops, WatchOK, RestTyped
  <2>2. PICK v2 : v2 = IF watcher[r].pc = "lost" THEN Off ELSE [watcher[r] EXCEPT !.pc = "tick"]
    OBVIOUS
  <2>3. watcher' = [watcher EXCEPT ![r] = v2]
    BY <1>9, <2>2 DEF StopPops
  <2>4. v2 \in WatcherType
    <3>1. CASE watcher[r].pc = "lost"
      BY <2>2, <3>1, Bounds DEF Off, WatcherType
    <3>2. CASE watcher[r].pc # "lost"
      BY <2>1, <2>2, <3>2 DEF WatcherType
    <3> QED BY <3>1, <3>2
  <2>5. \/ v2.pc = "off"
        \/ v2.pc = "tick" /\ v2.due = watcher[r].due /\ watcher[r].pc = "asked"
    BY <2>1, <2>2 DEF Off, WatcherType
  <2>6. stop'[r]["watcher"].pc = "none"
    BY <1>4, <1>6, <1>9
  <2>7. GoesOn(r, v2)
    BY <2>5, <2>6 DEF GoesOn
  <2>8. watcher' \in [Replicas -> WatcherType]
    BY <1>1, <2>3, <2>4 DEF RestTyped
  <2>9. RestTyped(Last)'
    BY <1>1, <1>2, <1>6, <2>8 DEF StopPops, RestTyped
  <2> QED BY <1>1, <1>7, <2>3, <2>4, <2>7, <2>9, WatcherStepInv
<1> QED BY <1>8, <1>9

LEMMA RequestStopInv ==
  ASSUME LeaseInv, NEW r \in Replicas, RequestStop(r)
  PROVE  LeaseInv'
<1>1. RunsGoOn /\ RestTyped(Last) /\ RestTyped(Last') /\ Last' = Last
  BY InvParts, SameRuns, Wider DEF RequestStop, RunsGoOn, RunsKept, Last
<1>2. lease' = [lease EXCEPT !.stop = TRUE] /\ lease \in LeaseType
  BY <1>1 DEF RequestStop, RestTyped
<1>3. lease' \in LeaseType /\ lease'.owner = lease.owner /\ lease'.left = lease.left
  BY <1>2, LeaseValues DEF LeaseType
<1>4. RestTyped(Last)'
  BY <1>1, <1>3 DEF RequestStop, RestTyped
<1>5. \A q \in Replicas : SameWatch(q) /\ LeaseStays(q)
  BY <1>3 DEF RequestStop, SameWatch, NoNewWait, LeaseStays
<1> QED BY <1>1, <1>4, <1>5, QuietStep

\* The steps of the watcher leave the runs, the entries and the other watchers.
WatcherOnly(r, v) ==
  /\ watcher' = [watcher EXCEPT ![r] = v]
  /\ UNCHANGED <<runs, tracked, stopped, crashes>>

LEMMA WatcherOnlyInv ==
  ASSUME LeaseInv, NEW r \in Replicas, NEW v \in WatcherType, WatcherOnly(r, v), stop' = stop,
         GoesOn(r, v), lease' \in LeaseType, \A q \in Replicas : LeaseStays(q)
  PROVE  LeaseInv'
<1>1. RunsGoOn /\ RestTyped(Last) /\ Last' = Last
  BY InvParts, SameRuns DEF WatcherOnly, Last
<1>2. watcher' \in [Replicas -> WatcherType]
  BY <1>1 DEF WatcherOnly, RestTyped
<1>3. RestTyped(Last)'
  BY <1>1, <1>2 DEF WatcherOnly, RestTyped
<1>4. \A q \in Replicas : NoNewWait(q)
  BY DEF NoNewWait
<1> QED BY <1>1, <1>3, <1>4, WatcherStepInv DEF WatcherOnly

LEMMA LooksInv ==
  ASSUME LeaseInv, NEW r \in Replicas, WatcherLooks(r)
  PROVE  LeaseInv'
<1>1. watcher[r].pc = "tick" /\ watcher[r] \in WatcherType /\ lease' = lease /\ lease \in LeaseType
  BY InvParts DEF WatcherLooks, RestTyped
<1>2. PICK v : v = [watcher[r] EXCEPT !.pc = NextLook(r),
                                      !.due = IF NextLook(r) = "renew" THEN Heartbeat ELSE @]
  OBVIOUS
<1>3. watcher' = [watcher EXCEPT ![r] = v]
  BY <1>2 DEF WatcherLooks
<1>4. /\ NextLook(r) \in {"release", "renew", "tick"}
  BY DEF NextLook
<1>5. v.pc = NextLook(r) /\ (v.pc # "renew" => v.due = watcher[r].due) /\ v \in WatcherType
  <2>1. PICK next, due : next = NextLook(r) /\ due = IF next = "renew" THEN Heartbeat ELSE watcher[r].due
    OBVIOUS
  <2>2. v = [watcher[r] EXCEPT !.pc = next, !.due = due]
    BY <1>1, <1>2, <2>1 DEF WatcherType
  <2>3. next \in {"release", "renew", "tick"} /\ due \in 0..Heartbeat
    BY <1>1, <1>4, <2>1, Bounds DEF WatcherType
  <2>4. v.pc = next /\ v.due = due /\ v \in WatcherType
    BY <1>1, <2>2, <2>3 DEF WatcherType
  <2> QED BY <2>1, <2>4
<1>6. stop'[r]["watcher"].pc = "none"
  BY <1>1, InvParts DEF WatcherLooks, WatchOK
<1>7. GoesOn(r, v)
  BY <1>1, <1>4, <1>5, <1>6 DEF GoesOn
<1>8. \A q \in Replicas : LeaseStays(q)
  BY <1>1 DEF LeaseStays
<1> QED BY <1>1, <1>3, <1>5, <1>7, <1>8, WatcherOnlyInv DEF WatcherOnly, WatcherLooks

LEMMA ReleasesInv ==
  ASSUME LeaseInv, NEW r \in Replicas, WatcherReleases(r)
  PROVE  LeaseInv'
<1>1. watcher[r].pc = "release" /\ watcher[r] \in WatcherType
  BY InvParts DEF WatcherReleases, RestTyped
<1>2. PICK v : v = [watcher[r] EXCEPT !.pc = "exit"]
  OBVIOUS
<1>3. watcher' = [watcher EXCEPT ![r] = v] /\ v.pc = "exit" /\ v \in WatcherType
  BY <1>1, <1>2 DEF WatcherReleases, WatcherType
<1>4. stop'[r]["watcher"].pc = "none"
  BY <1>1, InvParts DEF WatcherReleases, WatchOK
<1>5. GoesOn(r, v)
  BY <1>3, <1>4 DEF GoesOn
<1>6. lease' \in LeaseType /\ \A q \in Replicas : LeaseStays(q)
  BY ReleaseStays DEF WatcherReleases
<1> QED BY <1>3, <1>5, <1>6, WatcherOnlyInv DEF WatcherOnly, WatcherReleases

LEMMA OffTyped == Off \in WatcherType /\ Off.pc = "off"
BY Bounds DEF Off, WatcherType

LEMMA EndsInv ==
  ASSUME LeaseInv, NEW r \in Replicas, WatcherEnds(r)
  PROVE  LeaseInv'
<1>1. watcher[r].pc = "exit" /\ lease' = lease /\ lease \in LeaseType
  BY InvParts DEF WatcherEnds, RestTyped
<1>2. PICK v : v = Off
  OBVIOUS
<1>3. watcher' = [watcher EXCEPT ![r] = v] /\ v.pc = "off" /\ v \in WatcherType
  BY <1>2, OffTyped DEF WatcherEnds
<1>4. stop'[r]["watcher"].pc = "none"
  BY <1>1, InvParts DEF WatcherEnds, WatchOK
<1>5. GoesOn(r, v)
  BY <1>3, <1>4 DEF GoesOn
<1>6. \A q \in Replicas : LeaseStays(q)
  BY <1>1 DEF LeaseStays
<1> QED BY <1>1, <1>3, <1>5, <1>6, WatcherOnlyInv DEF WatcherOnly, WatcherEnds

\* A renewal brings the lease back to its full length, or finds it lost.
LEMMA RenewInv ==
  ASSUME LeaseInv, NEW r \in Replicas, RenewLease(r)
  PROVE  LeaseInv'
<1>1. watcher[r].pc = "renew" /\ watcher[r] \in WatcherType /\ lease \in LeaseType
  BY InvParts DEF RenewLease, RestTyped
<1>2. PICK v : v = [watcher[r] EXCEPT !.pc = Answer(r)]
  OBVIOUS
<1>3. Answer(r) \in {"lost", "asked", "tick"} /\ (~Owned(r) => Answer(r) = "lost")
  BY DEF Answer
<1>4. v.pc = Answer(r) /\ v \in WatcherType
  BY <1>1, <1>2, <1>3 DEF WatcherType
<1>5. watcher' = [watcher EXCEPT ![r] = v]
  BY <1>2 DEF RenewLease
<1>6. \A q \in Replicas : stop'[q]["watcher"].pc # "none" => watcher[q].pc \in {"asked", "lost"}
  BY InvParts DEF RenewLease, WatchOK
<1>7. CASE ~Owned(r)
  <2>1. lease' = lease /\ v.pc = "lost"
    BY <1>3, <1>4, <1>7 DEF RenewLease
  <2>2. GoesOn(r, v)
    BY <2>1 DEF GoesOn
  <2>3. \A q \in Replicas : LeaseStays(q)
    BY <2>1 DEF LeaseStays
  <2> QED BY <1>1, <1>4, <1>5, <2>1, <2>2, <2>3, WatcherOnlyInv DEF WatcherOnly, RenewLease
<1>8. CASE Owned(r)
  <2>1. lease' = [lease EXCEPT !.left = LeaseTTL]
    BY <1>8 DEF RenewLease, Renewed
  <2>2. lease' \in LeaseType
    BY <1>1, <2>1, LeaseValues
  <2>3. lease'.left = LeaseTTL
    BY <1>1, <2>1 DEF LeaseType
  <2>4. RunsGoOn /\ RestTyped(Last) /\ Last' = Last
    BY InvParts, SameRuns DEF RenewLease, Last
  <2>5. watcher' \in [Replicas -> WatcherType] /\ \A q \in Replicas \ {r} : watcher'[q] = watcher[q]
    BY <1>4, <1>5, <2>4, WatcherTyped DEF RestTyped
  <2>6. RestTyped(Last)'
    BY <2>2, <2>4, <2>5 DEF RenewLease, RestTyped
  <2>7. AgentTypeOK'
    BY <2>4, <2>6, NextTyped DEF RunsGoOn, RunsKept
  <2>8. \A q \in Replicas : stop'[q]["watcher"].pc # "none" => watcher'[q].pc \in {"asked", "lost"}
    BY <1>1, <1>6, <2>5
  <2>9. \A q \in Replicas : WatchOK(q)'
    BY <2>3, <2>7, <2>8, FullLease
  <2> QED BY <2>7, <2>9 DEF LeaseInv
<1> QED BY <1>7, <1>8

LEMMA PassStopInv ==
  ASSUME LeaseInv, NEW r \in Replicas, PassStop(r)
  PROVE  LeaseInv'
<1>1. /\ watcher[r].pc \in {"asked", "lost"} /\ watcher[r] \in WatcherType
      /\ lease' = lease /\ lease \in LeaseType /\ stop[r]["watcher"] = NoStop
  BY InvParts DEF PassStop, RestTyped
<1>2. RunsGoOn /\ RestTyped(Last) /\ Last' = Last /\ Last \in Nat
  BY InvParts, SameRuns DEF PassStop, RunsGoOn, RunsKept, Last
<1>3. PICK told : told = [watcher[r] EXCEPT !.stopping = (watcher[r].pc = "asked") \/ @]
  OBVIOUS
<1>4. told \in WatcherType /\ told.pc = watcher[r].pc /\ told.due = watcher[r].due
  BY <1>1, <1>3 DEF WatcherType
<1>5. PICK back : back = IF told.pc = "lost" THEN Off ELSE [told EXCEPT !.pc = "tick"]
  OBVIOUS
<1>6. /\ back \in WatcherType
      /\ \/ back.pc = "off"
         \/ back.pc = "tick" /\ back.due = watcher[r].due /\ watcher[r].pc = "asked"
  <2>1. CASE told.pc = "lost"
    BY <1>5, <2>1, OffTyped
  <2>2. CASE told.pc # "lost"
    BY <1>1, <1>4, <1>5, <2>2 DEF WatcherType
  <2> QED BY <2>1, <2>2
<1>7. \A q \in Replicas : LeaseStays(q)
  BY <1>1 DEF LeaseStays
<1>8. CASE watcher' = [watcher EXCEPT ![r] = back] /\ UNCHANGED <<stopped, stop>>
  <2>1. GoesOn(r, back)
    BY <1>1, <1>6, <1>8 DEF GoesOn, NoStop
  <2> QED BY <1>1, <1>6, <1>7, <1>8, <2>1, WatcherOnlyInv DEF WatcherOnly, PassStop
<1>9. CASE /\ watcher' = [watcher EXCEPT ![r] = told]
           /\ stopped' = Flagged(r, "watcher") /\ stop' = Signalled(r, "watcher")
  <2>1. PICK v : v = [pc |-> "wait", run |-> tracked[r]]
    OBVIOUS
  <2>2. v \in [pc : {"none", "wait", "pop"}, run : 0..Last]
    BY <2>1, InvParts, SignalTyped
  <2>3. stop' = StopSet(r, "watcher", v) /\ "watcher" \in Callers
    BY <1>9, <2>1 DEF Signalled, StopSet, Callers
  <2>4. PICK new : new = stop'
    OBVIOUS
  <2>5. /\ new \in StopType(Last)
        /\ \A q \in Replicas, x \in Callers : q # r \/ x # "watcher" => new[q][x] = stop[q][x]
    BY <1>2, <2>2, <2>3, <2>4, StopTyped DEF RestTyped
  <2>6. \A q \in Replicas : q # r => NoNewWait(q)
    BY <2>3, <2>4, <2>5 DEF NoNewWait
  <2>7. watcher' \in [Replicas -> WatcherType]
    BY <1>2, <1>4, <1>9 DEF RestTyped
  <2>8. stopped' \in [Replicas -> BOOLEAN]
    BY <1>2, <1>9, FlagTyped DEF RestTyped
  <2>9. RestTyped(Last)'
    BY <1>1, <1>2, <2>4, <2>5, <2>7, <2>8 DEF PassStop, RestTyped
  <2>10. GoesOn(r, told)
    BY <1>1, <1>4 DEF GoesOn
  <2> QED BY <1>2, <1>4, <1>7, <1>9, <2>6, <2>9, <2>10, WatcherStepInv
<1>10. CASE /\ watcher' = [watcher EXCEPT ![r] = Off]
            /\ stopped' = Flagged(r, "watcher") /\ stop' = stop
  <2>1. PICK v : v = Off
    OBVIOUS
  <2>2. v \in WatcherType /\ v.pc = "off"
    BY <2>1, OffTyped
  <2>3. GoesOn(r, v)
    BY <1>1, <1>10, <2>2 DEF GoesOn, NoStop
  <2>4. watcher' \in [Replicas -> WatcherType]
    BY <1>2, <1>10, <2>1, <2>2 DEF RestTyped
  <2>5. stopped' \in [Replicas -> BOOLEAN]
    BY <1>2, <1>10, FlagTyped DEF RestTyped
  <2>6. RestTyped(Last)'
    BY <1>1, <1>2, <1>10, <2>4, <2>5 DEF PassStop, RestTyped
  <2>7. \A q \in Replicas : NoNewWait(q)
    BY <1>10 DEF NoNewWait
  <2> QED BY <1>2, <1>7, <1>10, <2>1, <2>2, <2>3, <2>6, <2>7, WatcherStepInv
<1> QED BY <1>3, <1>5, <1>8, <1>9, <1>10 DEF PassStop

\* The end of a process and the steps of a monitor change entries and flags only.
LEMMA MonitorInv ==
  ASSUME LeaseInv, NEW i \in DOMAIN runs, MonitorStep(i) \/ ProcExits(i)
  PROVE  LeaseInv'
<1>1. RunsOK /\ RestTyped(Last) /\ runs[i].home \in Replicas
  BY InvParts, RunsTyped
<1>2. PICK r \in Replicas : r = runs[i].home
  BY <1>1
<1>3. ASSUME RunsGoOn
      PROVE  /\ Last' \in Nat /\ tracked \in [Replicas -> 0..Last']
             /\ [tracked EXCEPT ![r] = 0] \in [Replicas -> 0..Last']
             /\ stopped \in [Replicas -> BOOLEAN]
             /\ [stopped EXCEPT ![r] = FALSE] \in [Replicas -> BOOLEAN]
  BY <1>2, <1>3, InvParts, Wider, UntrackTyped DEF RunsGoOn, RunsKept, RestTyped
<1>4. CASE BeginRespawn(i)
  BY <1>1, <1>3, <1>4, MonitorRuns, QuietTyped DEF BeginRespawn
<1>5. CASE Respawned(i)
  <2>1. RunsGoOn /\ Last' = Last + 1 /\ Last \in Nat
    BY <1>1, <1>5, RespawnedRuns DEF RunsGoOn, RunsKept
  <2>2. tracked' = [tracked EXCEPT ![r] = Last + 1] /\ Last + 1 \in 0..Last'
    BY <1>2, <1>5, <2>1 DEF Respawned
  <2>3. tracked' \in [Replicas -> 0..Last']
    BY <1>3, <2>1, <2>2
  <2> QED BY <1>3, <1>5, <2>1, <2>3, QuietTyped DEF Respawned
<1>6. CASE RespawnFails(i)
  BY <1>1, <1>3, <1>6, MonitorRuns, QuietTyped DEF RespawnFails
<1>7. CASE DeferToStop(i)
  BY <1>1, <1>2, <1>3, <1>7, MonitorRuns, QuietTyped DEF DeferToStop
<1>8. CASE Continue(i)
  BY <1>1, <1>2, <1>3, <1>8, ContinueRuns, QuietTyped DEF Continue
<1>9. CASE BeginCleanup(i)
  BY <1>1, <1>3, <1>9, MonitorRuns, QuietTyped DEF BeginCleanup
<1>10. CASE EndCleanup(i)
  BY <1>1, <1>2, <1>3, <1>10, MonitorRuns, QuietTyped DEF EndCleanup, Untracked
<1>11. CASE ProcExits(i)
  BY <1>1, <1>3, <1>11, MonitorRuns, QuietTyped DEF ProcExits
<1> QED BY <1>4, <1>5, <1>6, <1>7, <1>8, <1>9, <1>10, <1>11 DEF MonitorStep

\* The stops of the replica that dies are gone with its watcher.
LEMMA CrashInv ==
  ASSUME LeaseInv, NEW r \in Replicas, Crash(r)
  PROVE  LeaseInv'
<1>1. RunsGoOn /\ RestTyped(Last) /\ RestTyped(Last') /\ Last' \in Nat
  BY InvParts, CrashRuns, Wider DEF RunsGoOn, RunsKept
<1>2. PICK v : v = Off
  OBVIOUS
<1>3. watcher' = [watcher EXCEPT ![r] = v] /\ v.pc = "off" /\ v \in WatcherType
  BY <1>2, OffTyped DEF Crash
<1>4. PICK none : none = [w \in Callers |-> NoStop]
  OBVIOUS
<1>5. stop' = [stop EXCEPT ![r] = none] /\ "watcher" \in Callers
  BY <1>4 DEF Crash, Callers
<1>6. /\ none \in [Callers -> [pc : {"none", "wait", "pop"}, run : 0..Last']]
      /\ none["watcher"].pc = "none"
  BY <1>1, <1>4, <1>5 DEF NoStop
<1>7. /\ stop' \in StopType(Last') /\ stop'[r]["watcher"].pc = "none"
      /\ \A q \in Replicas \ {r} : stop'[q] = stop[q]
  BY <1>1, <1>5, <1>6 DEF RestTyped, StopType
<1>8. GoesOn(r, v) /\ \A q \in Replicas : q # r => NoNewWait(q)
  BY <1>3, <1>7 DEF GoesOn, NoNewWait
<1>9. lease' \in LeaseType /\ \A q \in Replicas : LeaseStays(q)
  <2>1. CASE lease' = lease
    BY <1>1, <2>1 DEF RestTyped, LeaseStays
  <2>2. CASE lease' = [lease EXCEPT !.owner = "dead"]
    <3>1. lease \in LeaseType
      BY <1>1 DEF RestTyped
    <3>2. lease' \in LeaseType /\ lease'.owner = "dead"
      BY <2>2, <3>1, LeaseValues DEF LeaseType
    <3> QED BY <3>2, AgentRunsAssumption DEF LeaseStays
  <2> QED BY <2>1, <2>2 DEF Crash
<1>10. /\ tracked' \in [Replicas -> 0..Last'] /\ stopped' \in [Replicas -> BOOLEAN]
       /\ watcher' \in [Replicas -> WatcherType]
  <2>1. tracked' \in [Replicas -> 0..Last']
    BY <1>1, UntrackTyped DEF Crash, RestTyped
  <2>2. stopped' \in [Replicas -> BOOLEAN]
    BY <1>1, FlagTyped DEF Crash, RestTyped
  <2>3. watcher' \in [Replicas -> WatcherType]
    BY <1>1, <1>3 DEF RestTyped
  <2> QED BY <2>1, <2>2, <2>3
<1>11. crashes' \in 0..MaxCrashes
  BY <1>1, Bounds DEF Crash, RestTyped
<1>12. RestTyped(Last)'
  BY <1>7, <1>9, <1>10, <1>11 DEF RestTyped
<1> QED BY <1>1, <1>3, <1>8, <1>9, <1>12, WatcherStepInv

\* Time passes where a watcher still has to wait and no start has its lease only:
\* the lease and the wait get shorter together.
LEMMA ElapseInv ==
  ASSUME LeaseInv, Elapse
  PROVE  LeaseInv'
<1>1. RunsGoOn /\ RestTyped(Last) /\ Last' = Last
  BY InvParts, SameRuns DEF Elapse, Last
<1>2. lease \in LeaseType
  BY <1>1 DEF RestTyped
<1>3. /\ lease' \in LeaseType /\ lease'.owner = lease.owner
      /\ lease'.left = IF lease.left = 0 THEN 0 ELSE lease.left - 1
  <2>1. PICK l : l = [lease EXCEPT !.left = IF @ = 0 THEN 0 ELSE @ - 1]
    OBVIOUS
  <2>2. l \in LeaseType
    BY <1>2, <2>1, LeaseValues
  <2>3. l.owner = lease.owner /\ l.left = IF lease.left = 0 THEN 0 ELSE lease.left - 1
    BY <1>2, <2>1 DEF LeaseType
  <2> QED BY <2>1, <2>2, <2>3 DEF Elapse
<1>4. ASSUME NEW r \in Replicas
      PROVE  /\ watcher'[r] \in WatcherType /\ watcher'[r].pc = watcher[r].pc
             /\ watcher'[r].due = IF watcher[r].due = 0 THEN 0 ELSE watcher[r].due - 1
  <2>1. watcher[r] \in WatcherType
    BY <1>1 DEF RestTyped
  <2>2. watcher'[r] = [watcher[r] EXCEPT !.due = IF @ = 0 THEN 0 ELSE @ - 1]
    BY <1>4 DEF Elapse
  <2> QED BY <2>1, <2>2, Bounds DEF WatcherType
<1>5. watcher' \in [Replicas -> WatcherType]
  BY <1>4 DEF Elapse
<1>6. RestTyped(Last)'
  BY <1>1, <1>3, <1>5 DEF Elapse, RestTyped
<1>7. AgentTypeOK'
  BY <1>1, <1>6, NextTyped DEF RunsGoOn, RunsKept
<1>8. ASSUME NEW r \in Replicas
      PROVE  WatchOK(r)'
  <2>1. StartsOf(r) = {} /\ watcher[r].pc \in {"off", "tick"}
    BY <1>8 DEF Elapse, Timely
  <2>2. stop'[r]["watcher"].pc # "none" => FALSE
    BY <1>8, <2>1, InvParts DEF Elapse, WatchOK
  <2>3. \A i \in DOMAIN runs' : ~(runs'[i].home = r /\ Starting(runs'[i]))
    BY <2>1 DEF StartsOf, Elapse, Starting
  <2>4. ASSUME lease.owner = r, watcher[r].pc = "tick"
        PROVE  lease'.left + Heartbeat >= LeaseTTL + watcher'[r].due
    <3>1. watcher[r].due # 0
      BY <1>8, <2>4 DEF Elapse, Timely, NextLook
    <3>2. lease.left + Heartbeat >= LeaseTTL + watcher[r].due
      BY <1>8, <2>4, InvParts DEF WatchOK
    <3>3. lease.left \in Nat /\ watcher[r].due \in Nat
      BY <1>1, <1>2, <1>8, Bounds DEF RestTyped, LeaseType, WatcherType
    <3>4. watcher'[r].due = watcher[r].due - 1
      BY <1>4, <1>8, <3>1
    <3>5. lease.left > 0
      BY <3>1, <3>2, <3>3, Bounds
    <3>6. lease'.left = lease.left - 1
      BY <1>3, <3>3, <3>5
    <3> QED BY <3>2, <3>3, <3>4, <3>6, Bounds
  <2> QED BY <1>3, <1>4, <1>8, <2>1, <2>2, <2>3, <2>4 DEF WatchOK, Starting
<1> QED BY <1>7, <1>8 DEF LeaseInv

(***************************************************************************)
(* The theorems.                                                           *)
(***************************************************************************)

LEMMA InitInv == AgentInit => LeaseInv
<1> SUFFICES ASSUME AgentInit PROVE LeaseInv
  OBVIOUS
<1>1. RunsOK /\ Last = 0
  <2>1. runs = <<>> /\ <<>> \in Seq(Run) /\ Len(<<>>) = 0
    BY EmptySeq DEF AgentInit
  <2>2. DOMAIN runs = {}
    BY <2>1
  <2> QED BY <2>1, <2>2 DEF RunsOK, Last
<1>2. lease \in LeaseType /\ Off \in WatcherType
  BY OffTyped, Bounds DEF AgentInit, NoLease, LeaseType
<1>3. stop \in StopType(0) /\ \A r \in Replicas : stop[r]["watcher"].pc = "none"
  BY DEF AgentInit, StopType, NoStop, Callers
<1>4. RestTyped(Last)
  BY <1>1, <1>2, <1>3, Bounds DEF AgentInit, RestTyped
<1>5. AgentTypeOK
  BY <1>1, <1>4, TypeParts
<1>6. lease.owner \notin Replicas
  BY AgentRunsAssumption DEF AgentInit, NoLease
<1> QED BY <1>3, <1>5, <1>6 DEF LeaseInv, WatchOK

LEMMA NextInv == LeaseInv /\ [AgentNext]_agentVars => LeaseInv'
<1> SUFFICES ASSUME LeaseInv, [AgentNext]_agentVars PROVE LeaseInv'
  OBVIOUS
<1>1. CASE UNCHANGED agentVars
  BY <1>1, InvParts, SameRuns, QuietTyped DEF agentVars, RestTyped, Last
<1>2. ASSUME NEW r \in Replicas, BeginStart(r)
      PROVE  LeaseInv'
  BY <1>2, BeginStartInv
<1>3. ASSUME NEW r \in Replicas, UserStop(r) \/ RequestStop(r)
      PROVE  LeaseInv'
  BY <1>3, UserStopInv, RequestStopInv
<1>4. ASSUME NEW r \in Replicas, NEW w \in Callers, StopStep(r, w)
      PROVE  LeaseInv'
  BY <1>4, StopWaitedInv, StopPopsInv DEF StopStep
<1>5. ASSUME NEW r \in Replicas, WatchStep(r)
      PROVE  LeaseInv'
  BY <1>5, LooksInv, ReleasesInv, EndsInv, RenewInv, PassStopInv DEF WatchStep
<1>6. ASSUME NEW r \in Replicas, Crash(r)
      PROVE  LeaseInv'
  BY <1>6, CrashInv
<1>7. ASSUME NEW i \in DOMAIN runs, StartStep(i)
      PROVE  LeaseInv'
  BY <1>7, ClaimInv, SpawnProcInv, SpawnFailsInv, WatchRunInv DEF StartStep
<1>8. ASSUME NEW i \in DOMAIN runs, ProcExits(i) \/ MonitorStep(i)
      PROVE  LeaseInv'
  BY <1>8, MonitorInv
<1>9. CASE Elapse
  BY <1>9, ElapseInv
<1> QED BY <1>1, <1>2, <1>3, <1>4, <1>5, <1>6, <1>7, <1>8, <1>9 DEF AgentNext

LEMMA Invariant == AgentSpec => []LeaseInv
BY InitInv, NextInv, PTL DEF AgentSpec

\* Of every run of the system: the variables have their types.
THEOREM AgentTyped == AgentSpec => []AgentTypeOK
<1>1. LeaseInv => AgentTypeOK
  BY DEF LeaseInv
<1> QED BY <1>1, Invariant, PTL

LEMMA WatchedActive ==
  ASSUME LeaseInv, NEW r \in Replicas, lease.owner = r, Watches(r)
  PROVE  Active
<1>1. lease.left \in Nat /\ watcher[r].due \in Nat
  BY InvParts, Bounds DEF RestTyped, LeaseType, WatcherType
<1>2. lease.left + Heartbeat >= LeaseTTL
  BY <1>1, Bounds, InvParts DEF WatchOK, Watches
<1> QED BY <1>1, <1>2, Bounds DEF Active

\* Of every run of the system: no lease expires while a watcher of its owner is
\* at work, whatever starts, stops, continuations and retries are under way.
THEOREM WatchedLeases == AgentSpec => []WatchedLeaseLive
<1>1. LeaseInv => WatchedLeaseLive
  BY WatchedActive DEF WatchedLeaseLive
<1> QED BY <1>1, Invariant, PTL

\* A step gives the lease to another replica only where it had expired.
LEMMA OwnerStays ==
  ASSUME LeaseInv, [AgentNext]_agentVars, Active
  PROVE  lease'.owner \in {lease.owner, "dead"}
<1>1. lease \in LeaseType
  BY InvParts DEF RestTyped
<1>2. ASSUME NEW r \in Replicas, lease' = Released(r)
      PROVE  lease'.owner \in {lease.owner, "dead"}
  BY <1>2 DEF Released, NoLease
<1>3. CASE lease' = lease
  BY <1>3
<1>4. CASE lease' # lease
  <2>1. CASE \E i \in DOMAIN runs : ClaimLease(i)
    BY <1>4, <2>1 DEF ClaimLease, Grantable, Granted
  <2>2. CASE \E i \in DOMAIN runs : SpawnFails(i)
    BY <1>2, <2>2, InvParts, RunsTyped DEF SpawnFails
  <2>3. CASE \E r \in Replicas : RequestStop(r)
    BY <1>1, <2>3 DEF RequestStop, LeaseType
  <2>4. CASE \E r \in Replicas : WatcherReleases(r)
    BY <1>2, <2>4 DEF WatcherReleases
  <2>5. CASE \E r \in Replicas : RenewLease(r)
    BY <1>1, <1>4, <2>5 DEF RenewLease, Renewed, LeaseType
  <2>6. CASE \E r \in Replicas : Crash(r)
    BY <1>1, <1>4, <2>6 DEF Crash, LeaseType
  <2>7. CASE Elapse
    BY <1>1, <2>7 DEF Elapse, LeaseType
  <2>8. CASE UNCHANGED agentVars
    BY <1>4, <2>8 DEF agentVars
  <2>9. ASSUME NEW r \in Replicas,
               BeginStart(r) \/ UserStop(r) \/ \E w \in Callers : StopStep(r, w)
        PROVE  lease' = lease
    BY <2>9 DEF BeginStart, UserStop, StopStep, StopWaited, StopPops
  <2>10. ASSUME NEW r \in Replicas, WatcherLooks(r) \/ WatcherEnds(r) \/ PassStop(r)
         PROVE  lease' = lease
    BY <2>10 DEF WatcherLooks, WatcherEnds, PassStop
  <2>11. ASSUME NEW i \in DOMAIN runs, SpawnProc(i) \/ WatchRun(i) \/ ProcExits(i)
         PROVE  lease' = lease
    BY <2>11 DEF SpawnProc, WatchRun, ProcExits
  <2>12. ASSUME NEW i \in DOMAIN runs, MonitorStep(i)
         PROVE  lease' = lease
    BY <2>12 DEF MonitorStep, BeginRespawn, Respawned, RespawnFails, DeferToStop,
                 Continue, BeginCleanup, EndCleanup
  <2> QED BY <1>4, <2>1, <2>2, <2>3, <2>4, <2>5, <2>6, <2>7, <2>8, <2>9, <2>10, <2>11, <2>12
          DEF AgentNext, WatchStep, StartStep
<1> QED BY <1>3, <1>4

\* Of every run of the system: no step, of whatever replica, grants a lease whose
\* owner's watcher is at work to another replica.
THEOREM LeasesKept == AgentSpec => LeaseKept
<1>1. LeaseInv /\ [AgentNext]_agentVars =>
        [\A r \in Replicas :
           lease.owner = r /\ Watches(r) => lease'.owner \in {r, "dead"}]_agentVars
  BY WatchedActive, OwnerStays
<1> QED BY <1>1, Invariant, PTL DEF AgentSpec, LeaseKept
===============================================================================
