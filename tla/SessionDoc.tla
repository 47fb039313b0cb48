------------------------------ MODULE SessionDoc ------------------------------
(***************************************************************************)
(* The document a planning session is: what PlanService keeps of it and    *)
(* what each operation turns it into.  Constant-level: PlanSessions says   *)
(* when an operation reads and writes a document, AtomicSessions what the  *)
(* operations would be if each were a single step.                         *)
(*                                                                         *)
(* Source: apps/backend/plan/service.py and plan/review/.                  *)
(*                                                                         *)
(* Kept: the status, the authored text (the set of edits in it), the       *)
(* review with the text it attests to, whether the pipeline ever completed *)
(* (epic, artifacts and annotation are assigned together), and whether the *)
(* intake stamps (tenant, org, origin issue) are on it.  A review is       *)
(* three verdicts: the scored gates passed, an unwaived hard readiness     *)
(* failure blocks, a human approved.                                       *)
(***************************************************************************)
CONSTANTS
  Edits,     \* the edits humans make to the authored text
  Verdicts,  \* what a run of the gates may conclude: <<passed, blocked>>
  HardTier,  \* the plans' autonomy tier is "hard"
  NoReview   \* session.review is None

Statuses == {"ingested", "processed", "approved", "rejected", "discarded",
             "emitted", "failed"}

Review == [of : SUBSET Edits, passed : BOOLEAN, blocked : BOOLEAN, approved : BOOLEAN]

Doc == [status : Statuses, text : SUBSET Edits, review : Review \cup {NoReview},
        planned : BOOLEAN, stamped : BOOLEAN]

ASSUME SessionDocAssumption ==
  /\ NoReview \notin Review
  /\ Verdicts \subseteq BOOLEAN \X BOOLEAN
  /\ HardTier \in BOOLEAN

FreshDoc == [status |-> "ingested", text |-> {}, review |-> NoReview,
             planned |-> FALSE, stamped |-> FALSE]

Stamped(d) == [d EXCEPT !.stamped = TRUE]

Reviewed(d) == d.review # NoReview

\* refresh_readiness: the verdicts of the running release; lens scores,
\* approval and waivers stay.  Another release may judge either way.
Refreshed(d) == {[d EXCEPT !.review.blocked = b] : b \in BOOLEAN}

\* approve: ApprovalError unless the gates passed and nothing blocks.
Approvable(d) == Reviewed(d) /\ d.review.passed /\ ~d.review.blocked
Approved(d)   == [d EXCEPT !.status = "approved", !.review.approved = TRUE]

\* waive: the waived checks may be all that blocked, or not all of it.
Waived(d) == {[d EXCEPT !.review.blocked = b] : b \in {FALSE, d.review.blocked}}

Rejected(d) == [d EXCEPT !.status = "rejected", !.review.approved = FALSE]

Discarded(d) == [d EXCEPT !.status = "discarded"]

\* update_plan: a human's text replaces the authored text and ends the sign-off.
Editable(d)  == d.status \notin {"emitted", "discarded"}
\* Mutant: the edit keeps the review of the text it replaces.
RewrittenKeepsReview(d, text) == [d EXCEPT !.status = "ingested", !.text = text]
Rewritten(d, text) == [d EXCEPT !.status = "ingested", !.text = text,
                                !.review = NoReview]

\* Mutant: the last of the transient statuses is what gets saved.
ProcessedTransient(d) ==
  {[d EXCEPT !.status = "reviewing", !.planned = TRUE,
             !.review = [of |-> d.text, passed |-> v[1], blocked |-> v[2],
                         approved |-> FALSE]]
     : v \in Verdicts}

\* process: gates run on the text, nobody has approved the new review.
Processed(d) ==
  {[d EXCEPT !.status = "processed", !.planned = TRUE,
             !.review = [of |-> d.text, passed |-> v[1], blocked |-> v[2],
                         approved |-> FALSE]]
     : v \in Verdicts}

\* _KEEP_ON_FAILED_PROCESS: a failed re-run must not erase these records.
KeptOnFailure == {"emitted", "discarded"}
Failed(d) == [d EXCEPT !.status = "failed"]

Emitted(d) == [d EXCEPT !.status = "emitted"]

\* emit_to_github creates issues unless there is a review and it is not ready.
Issuable(d) == Reviewed(d) => Approvable(d) /\ d.review.approved

\* Mutant: a hard tier does not hold the contract.
ContractableUnsigned(d) == d.planned

\* emit_contract: of a hard tier only an approved or emitted session has one.
Contractable(d) == d.planned /\ (HardTier => d.status \in {"approved", "emitted"})

\* An unwaived hard readiness failure, as far as there are verdicts.
Blocked(d) == Reviewed(d) /\ d.review.blocked

\* DELETABLE_STATUSES: an emitted session is the audit trail of real issues.
Deletable(d) == d.status \in {"discarded", "rejected"}
==============================================================================
