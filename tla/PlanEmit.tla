------------------------------- MODULE PlanEmit -------------------------------
(***************************************************************************)
(* Emission of one planning session: the epic and its child issues on      *)
(* GitHub, the Task Contract, and the record of issue numbers in the       *)
(* session row that lets a retry resume instead of creating duplicates.    *)
(*                                                                         *)
(* Source: apps/backend/plan/service.py (emit, emit_contract),             *)
(* apps/backend/plan/emit/github_emitter.py and the emit lease of          *)
(* apps/web-server/server/jobstore/plan_session_store.py.                  *)
(*                                                                         *)
(* A replica runs at most one emit of the session: the thread lock refuses *)
(* a second.  Live emits also take the lease on the row.  A refused        *)
(* attempt changes nothing and is not a step.  Issue 0 is the epic, issue  *)
(* k the k-th child; numbers are positions in the repository's issue list, *)
(* 0 stands for "no number".  Instead of the row's version, each copy      *)
(* remembers whether the row has been saved since it was read.  Linking    *)
(* the children to the epic is best effort, recorded nowhere and left out. *)
(***************************************************************************)
EXTENDS Naturals, Sequences, FiniteSets

CONSTANTS
  Replicas,  \* processes that serve emit requests
  N,         \* children of the epic
  Ops,       \* the operations an instance exercises
  HardTier,  \* the plan's autonomy tier is "hard"
  SignOffs,  \* the reviews another operation's save may leave
  Blocks,    \* what a readiness refresh may find: an unwaived hard failure
  Faults,    \* the faults an instance injects
  MaxFaults, \* bound on injected faults, failed creations apart
  MaxBegun,  \* bound on emits begun
  Idle       \* a replica that runs no emit of the session

AllOps    == {"live", "dry", "contract", "touch"}
AllFaults == {"kill", "fail", "lost", "outlive"}
Steps     == {"check", "copy", "refresh", "create", "report", "announce", "post",
              "save", "release"}

Issues == 0..N
Reviews == {"none", "open", "signed"}
NoNumbers == [k \in Issues |-> 0]

\* review: there is none, as after an edit of the text, or one whose gates and
\* approval do not hold, or one where both do; emitted: the status; numbers:
\* emitted_issue_number and the children of emit_result.  The readiness verdicts
\* are recomputed by every emit before they are read.
Row == [review : Reviews, emitted : BOOLEAN, numbers : [Issues -> Nat]]

Unread == [review |-> "none", emitted |-> FALSE, numbers |-> NoNumbers]

\* fresh: nobody saved the row since this copy of it was read or saved; late:
\* the call runs on after its lease expired; at: the issue the call is about.
Call == [op : {"live", "dry", "contract"}, pc : Steps, doc : Row, fresh : BOOLEAN,
         late : BOOLEAN, at : 0..(N + 1), errors : BOOLEAN]

Free == [owner |-> Idle, lapsed |-> FALSE]

ASSUME PlanEmitAssumption ==
  /\ IsFiniteSet(Replicas)
  /\ N \in Nat /\ MaxFaults \in Nat /\ MaxBegun \in Nat
  /\ Ops \subseteq AllOps /\ Faults \subseteq AllFaults
  /\ HardTier \in BOOLEAN /\ SignOffs \subseteq Reviews /\ Blocks \subseteq BOOLEAN
  /\ Idle \notin Call /\ Idle \notin Replicas /\ "dead" \notin Replicas
  /\ Idle # "dead"

VARIABLES
  row,       \* the session's row in plan_sessions
  lease,     \* emit_lease_owner and whether emit_lease_until has passed
  issues,    \* the issues in the repository, by number
  call,      \* what each replica's emit is doing
  announced, \* a live emit sent its completion event
  slips,     \* how often a created issue's number was left out of the row
  faults,    \* faults injected so far, failed creations apart
  begun      \* emits begun so far
emitVars == <<row, lease, issues, call, announced, slips, faults, begun>>

EmitInit ==
  /\ row \in [review : SignOffs, emitted : {FALSE}, numbers : {NoNumbers}]
  /\ lease = Free
  /\ issues = <<>>
  /\ call = [r \in Replicas |-> Idle]
  /\ announced = FALSE
  /\ slips = [k \in Issues |-> 0]
  /\ faults = 0 /\ begun = 0

Busy(r) == call[r] # Idle
At(r, pc) == Busy(r) /\ call[r].pc = pc
Doing(r, op, pc) == At(r, pc) /\ call[r].op = op

Fault(f) == f \in Faults /\ faults < MaxFaults /\ faults' = faults + 1

\* The call goes on at pc; with Ended the thread lock is released.
Go(r, pc) == call' = [call EXCEPT ![r].pc = pc]
Ended(r)  == call' = [call EXCEPT ![r] = Idle]

\* The first issue after k that has no number yet, or N + 1: the loop passes
\* over the children that an earlier attempt created.
NextMissing(doc, k) ==
  CHOOSE i \in (k + 1)..(N + 1) :
    /\ i <= N => doc.numbers[i] = 0
    /\ \A j \in (k + 1)..(i - 1) : doc.numbers[j] # 0

------------------------------------------------------------------------------
(* _emit_lock *)

\* Mutant: the lease is taken without looking whether it is free.
LeaseAlwaysFree == TRUE

\* acquire_emit_lease: one UPDATE that matches a free or an expired lease.
LeaseFree == lease = Free \/ lease.lapsed

BeginDry(r) ==
  /\ "dry" \in Ops /\ ~Busy(r) /\ begun < MaxBegun
  /\ call' = [call EXCEPT ![r] =
       [op |-> "dry", pc |-> "copy", doc |-> Unread, fresh |-> FALSE, late |-> FALSE,
        at |-> 0, errors |-> FALSE]]
  /\ begun' = begun + 1
  /\ UNCHANGED <<row, lease, issues, announced, slips, faults>>

BeginLive(r, op) ==
  /\ op \in Ops \cap {"live", "contract"} /\ ~Busy(r) /\ begun < MaxBegun
  /\ LeaseFree
  /\ lease' = [owner |-> r, lapsed |-> FALSE]
  /\ call' = [call EXCEPT ![r] =
       [op |-> op, pc |-> IF op = "live" THEN "check" ELSE "copy", doc |-> Unread,
        fresh |-> FALSE, late |-> FALSE, at |-> 0, errors |-> FALSE]]
  /\ begun' = begun + 1
  /\ UNCHANGED <<row, issues, announced, slips, faults>>

\* release_emit_lease clears the lease only of its own owner.
Release(r) ==
  /\ At(r, "release")
  /\ lease' = IF lease.owner = r THEN Free ELSE lease
  /\ Ended(r)
  /\ UNCHANGED <<row, issues, announced, slips, faults, begun>>

------------------------------------------------------------------------------
(* _save *)

\* The compare-and-set of a fresh copy commits, and the others' copies are stale
\* from now on; a stale one is refused with StaleSessionError and writes nothing.
Saved(r, doc, pc) ==
  [s \in Replicas |->
     IF s = r THEN [call[r] EXCEPT !.doc = doc, !.fresh = TRUE, !.pc = pc]
     ELSE IF call[s] = Idle THEN Idle ELSE [call[s] EXCEPT !.fresh = FALSE]]

\* Another operation on the session is saved.  None of them touches the record
\* of issue numbers; a re-run of the pipeline ends the status "emitted".
Touch ==
  /\ "touch" \in Ops /\ faults < MaxFaults /\ faults' = faults + 1
  /\ \E review \in SignOffs, emitted \in {FALSE, row.emitted} :
       /\ review = "none" /\ emitted => row.review = "none"
       /\ row' = [row EXCEPT !.review = review, !.emitted = emitted]
  /\ call' = [s \in Replicas |->
                IF call[s] = Idle THEN Idle ELSE [call[s] EXCEPT !.fresh = FALSE]]
  /\ UNCHANGED <<lease, issues, announced, slips, begun>>

------------------------------------------------------------------------------
(* emit *)

\* Under the lease: was the session emitted meanwhile?
CheckEmitted(r) ==
  /\ At(r, "check")
  /\ Go(r, IF row.emitted /\ row.numbers[0] # 0 THEN "release" ELSE "copy")
  /\ UNCHANGED <<row, lease, issues, announced, slips, faults, begun>>

\* get: the copy the emit works on.
Copy(r) ==
  /\ At(r, "copy")
  /\ LET to == CASE call[r].op = "dry"  -> "save"
                 [] call[r].op = "live" -> "refresh"
                 [] HardTier /\ row.review # "signed" /\ ~row.emitted -> "release"
                 [] OTHER -> "refresh"
     IN call' = [call EXCEPT ![r].doc = row, ![r].fresh = TRUE, ![r].pc = to]
  /\ UNCHANGED <<row, lease, issues, announced, slips, faults, begun>>

\* Mutant: the result that replaces the record has no entry for a child at all.
ClearedToEpic(doc) == [doc EXCEPT !.numbers = [k \in {0} |-> doc.numbers[0]]]

\* Mutant: it has no number of the epic either.
ClearedAll(doc) == [doc EXCEPT !.numbers = NoNumbers]

\* Overwriting the record leaves every child's number out of the row.
Cleared(doc) == [doc EXCEPT !.numbers = [NoNumbers EXCEPT ![0] = doc.numbers[0]]]

\* The numbers that a save of doc drops from the row.
SlipsWhenSaved(r, doc) ==
  [k \in Issues |->
     IF call[r].fresh /\ row.numbers[k] # 0 /\ doc.numbers[k] = 0
     THEN slips[k] + 1 ELSE slips[k]]

\* A dry run renders the payloads; its result replaces emit_result.
SaveDryRun(r) ==
  /\ Doing(r, "dry", "save")
  /\ LET doc == Cleared(call[r].doc) IN
       /\ row' = IF call[r].fresh THEN doc ELSE row
       /\ call' = IF call[r].fresh THEN [Saved(r, doc, "save") EXCEPT ![r] = Idle]
                                   ELSE [call EXCEPT ![r] = Idle]
       /\ slips' = SlipsWhenSaved(r, doc)
  /\ UNCHANGED <<lease, issues, announced, faults, begun>>

\* _refresh_readiness, and what emit_to_github or emit_contract decides on the
\* verdicts.  Refused by a newer row, the emit ends before it creates anything.
Refresh(r) ==
  /\ At(r, "refresh") /\ call[r].doc.review # "none"
  /\ \E b \in Blocks :
       LET doc   == call[r].doc
           ready == doc.review = "signed" /\ ~b
           to    == CASE call[r].op = "contract" -> IF b THEN "release" ELSE "post"
                      [] ready -> IF doc.numbers[0] = 0 THEN "create" ELSE "report"
                      [] OTHER -> "save"
       IN IF call[r].fresh
          THEN call' = [Saved(r, doc, to) EXCEPT
                          ![r].doc = IF to = "save" THEN Cleared(@) ELSE @]
          ELSE Go(r, "release")
  /\ UNCHANGED <<row, lease, issues, announced, slips, faults, begun>>

\* A session without a review has no verdicts to refresh, and emit_to_github
\* refuses only a review that is not ready.
Unreviewed(r) ==
  /\ At(r, "refresh") /\ call[r].doc.review = "none"
  /\ Go(r, IF call[r].op = "contract" THEN "post"
           ELSE IF call[r].doc.numbers[0] = 0 THEN "create" ELSE "report")
  /\ UNCHANGED <<row, lease, issues, announced, slips, faults, begun>>

------------------------------------------------------------------------------
(* emit_to_github: the epic, then each child that has no number *)

Numbered(r) == [call[r].doc EXCEPT !.numbers[call[r].at] = Len(issues) + 1]

\* _create_issue_resilient returned a number.
CreateIssue(r) ==
  /\ At(r, "create")
  /\ issues' = Append(issues, call[r].at)
  /\ call' = [call EXCEPT ![r].doc = Numbered(r), ![r].pc = "report"]
  /\ UNCHANGED <<row, lease, announced, slips, faults, begun>>

\* Where the call goes once issue at is dealt with.
AfterIssue(doc, at, errors) ==
  LET next == NextMissing(doc, at) IN
    [at |-> next, pc |-> IF next <= N THEN "create"
                         ELSE IF errors THEN "save" ELSE "announce"]

\* Mutants: a failed child sends the emit back to its start; its error is not kept.
FailedRestarts(r) ==
  IF call[r].at = 0 THEN [call[r] EXCEPT !.errors = TRUE, !.pc = "save"]
  ELSE [call[r] EXCEPT !.errors = TRUE, !.at = 0, !.pc = "report"]

FailedSilently(r) ==
  IF call[r].at = 0 THEN [call[r] EXCEPT !.errors = TRUE, !.pc = "save"]
  ELSE LET after == AfterIssue(call[r].doc, call[r].at, call[r].errors) IN
         [call[r] EXCEPT !.at = after.at, !.pc = after.pc]

\* Without an epic the emit ends; past a failed child it continues.
Failed(r) ==
  IF call[r].at = 0 THEN [call[r] EXCEPT !.errors = TRUE, !.pc = "save"]
  ELSE LET after == AfterIssue(call[r].doc, call[r].at, TRUE) IN
         [call[r] EXCEPT !.errors = TRUE, !.at = after.at, !.pc = after.pc]

\* GitHub refused, and so did the retries.
CreateFails(r) ==
  /\ At(r, "create") /\ "fail" \in Faults
  /\ call' = [call EXCEPT ![r] = Failed(r)]
  /\ UNCHANGED <<row, lease, issues, announced, slips, faults, begun>>

\* The issue exists but the answer did not arrive: a retry creates it again, or
\* the error counts as the failure of this issue.
CreateAnswerLost(r) ==
  /\ At(r, "create") /\ Fault("lost")
  /\ issues' = Append(issues, call[r].at)
  /\ slips' = [slips EXCEPT ![call[r].at] = @ + 1]
  /\ \/ UNCHANGED call
     \/ call' = [call EXCEPT ![r] = Failed(r)]
  /\ UNCHANGED <<row, lease, announced, begun>>

\* The number the call is about to report is not in the row.
Unrecorded(r) == call[r].doc.numbers[call[r].at] # row.numbers[call[r].at]

\* Mutant: only the children the loop has passed are in the report.
ReportedPartly(r) ==
  [call[r].doc EXCEPT !.numbers =
     [k \in Issues |-> IF k <= call[r].at THEN @[k] ELSE 0]]

\* _report carries every number known, also those the loop has not reached.
Reported(r) == call[r].doc

\* on_progress saves; a refusal is logged and the emit goes on.
Report(r) ==
  /\ At(r, "report")
  /\ LET after == AfterIssue(call[r].doc, call[r].at, call[r].errors)
         next  == [call[r] EXCEPT !.at = after.at, !.pc = after.pc]
     IN IF call[r].fresh
        THEN /\ row' = Reported(r)
             /\ call' = [Saved(r, call[r].doc, "report") EXCEPT ![r] = next]
             /\ UNCHANGED slips
        ELSE /\ call' = [call EXCEPT ![r] = next]
             /\ slips' = IF Unrecorded(r) THEN [slips EXCEPT ![call[r].at] = @ + 1]
                         ELSE slips
             /\ UNCHANGED row
  /\ UNCHANGED <<lease, issues, announced, faults, begun>>

\* No errors: notify_completion, before the save.
Announce(r) ==
  /\ At(r, "announce")
  /\ announced' = TRUE
  /\ call' = [call EXCEPT ![r].doc.emitted = TRUE, ![r].pc = "save"]
  /\ UNCHANGED <<row, lease, issues, slips, faults, begun>>

------------------------------------------------------------------------------
(* emit_contract *)

\* The POST is accepted, or not and only its result is saved.
PostContract(r) ==
  /\ At(r, "post")
  /\ \/ call' = [call EXCEPT ![r].doc.emitted = TRUE, ![r].pc = "save"]
     \/ Go(r, "save")
  /\ UNCHANGED <<row, lease, issues, announced, slips, faults, begun>>

\* The save at the end of both emits.
FinalSave(r) ==
  /\ At(r, "save") /\ call[r].op # "dry"
  /\ row' = IF call[r].fresh THEN call[r].doc ELSE row
  /\ call' = IF call[r].fresh THEN Saved(r, call[r].doc, "release")
                              ELSE [call EXCEPT ![r].pc = "release"]
  /\ slips' = SlipsWhenSaved(r, call[r].doc)
  /\ UNCHANGED <<lease, issues, announced, faults, begun>>

------------------------------------------------------------------------------
(* crashes and time *)

\* The replica is killed: its lease stays, a number it did not report is lost.
Kill(r) ==
  /\ Busy(r) /\ Fault("kill")
  /\ Ended(r)
  /\ lease' = IF lease.owner = r THEN [lease EXCEPT !.owner = "dead"] ELSE lease
  /\ slips' = IF call[r].pc = "report" /\ Unrecorded(r)
              THEN [slips EXCEPT ![call[r].at] = @ + 1] ELSE slips
  /\ UNCHANGED <<row, issues, announced, begun>>

\* emit_lease_until passes after its owner died.
LeaseLapses ==
  /\ lease.owner = "dead" /\ ~lease.lapsed
  /\ lease' = [lease EXCEPT !.lapsed = TRUE]
  /\ UNCHANGED <<row, issues, call, announced, slips, faults, begun>>

\* A live emit takes longer than the lease.
LeaseOutlived(r) ==
  /\ Busy(r) /\ lease.owner = r /\ ~lease.lapsed
  /\ Fault("outlive")
  /\ lease' = [lease EXCEPT !.lapsed = TRUE]
  /\ call' = [call EXCEPT ![r].late = TRUE]
  /\ UNCHANGED <<row, issues, announced, slips, begun>>

------------------------------------------------------------------------------
EmitStep(r) ==
  \/ CheckEmitted(r) \/ Copy(r) \/ SaveDryRun(r) \/ Refresh(r) \/ Unreviewed(r)
  \/ CreateIssue(r) \/ CreateFails(r) \/ CreateAnswerLost(r) \/ Report(r)
  \/ Announce(r) \/ PostContract(r) \/ FinalSave(r) \/ Release(r)

EmitNext ==
  \/ \E r \in Replicas :
       \/ BeginDry(r)
       \/ \E op \in Ops : BeginLive(r, op)
       \/ EmitStep(r)
       \/ Kill(r) \/ LeaseOutlived(r)
  \/ Touch \/ LeaseLapses

EmitSpec == EmitInit /\ [][EmitNext]_emitVars

\* The emit's worker thread runs on until it ends, whoever asked for it.
FairEmitSpec == EmitSpec /\ \A r \in Replicas : WF_emitVars(EmitStep(r))

------------------------------------------------------------------------------
(* Properties *)

\* Every variable has its type.
EmitTypeOK ==
  /\ row \in Row
  /\ lease \in [owner : Replicas \cup {"dead", Idle}, lapsed : BOOLEAN]
  /\ issues \in Seq(Issues)
  /\ call \in [Replicas -> Call \cup {Idle}]
  /\ announced \in BOOLEAN
  /\ slips \in [Issues -> Nat]
  /\ faults \in Nat /\ begun \in Nat

Emitting(r) == Busy(r) /\ call[r].op # "dry"

\* _emit_lock: "in this process, and for live emits everywhere".  Two replicas
\* emit at once only when one of them runs on past its lease.
OneEmitter ==
  \A r, s \in Replicas :
    Emitting(r) /\ Emitting(s) /\ r # s => call[r].late \/ call[s].late

Copies(k) == Cardinality({n \in DOMAIN issues : issues[n] = k})

\* The calls about to report a number of issue k that is not in the row.
Pending(k) == {r \in Replicas : At(r, "report") /\ call[r].at = k /\ Unrecorded(r)}

Recorded(k) == IF row.numbers[k] # 0 THEN 1 ELSE 0

\* github_emitter.py: "a retry never duplicates the epic".  Whatever kills,
\* failures, conflicting saves and outlived leases happen, every copy of an issue
\* is accounted for: it is the one in the row, or one a call is about to report, or
\* it is owed to a number that did not reach, or was cleared from, the row.
DuplicatesAreSlips ==
  \A k \in Issues : Copies(k) <= Recorded(k) + slips[k] + Cardinality(Pending(k))

\* The completion event of a live emit promises the epic and every child.
AnnouncedComplete == announced => \A k \in Issues : Copies(k) > 0

\* An emit ends whatever GitHub answers: a child that fails does not hold it.
EmitEnds == \A r \in Replicas : Busy(r) ~> ~Busy(r)

\* The epic's number, once recorded, is neither dropped nor replaced: no retry and no
\* emit on another replica can make a second epic out of a recorded one.
EpicNumberKept ==
  [][row.numbers[0] # 0 => row'.numbers[0] = row.numbers[0]]_emitVars

\* service.py: "if a prior attempt already created the epic (and possibly some
\* children) for this session, reuse them instead of creating duplicates".  Where
\* every answer arrives and every save succeeds, no issue is created twice.
RetryReuses ==
  \A k \in Issues : Cardinality({n \in DOMAIN issues : issues[n] = k}) <= 1
==============================================================================
