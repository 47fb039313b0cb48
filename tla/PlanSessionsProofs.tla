-------------------------- MODULE PlanSessionsProofs --------------------------
(***************************************************************************)
(* What holds of the planning sessions for every number of sessions and    *)
(* calls, every set of operations and every bound on the versions.         *)
(*                                                                         *)
(* The argument has three layers.  Documents: what the single-step         *)
(* operations of AtomicSessions make of a sound document is sound.         *)
(* Copies: a call whose version is the row's holds the row, because        *)
(* versions only grow and a deleted id never comes back.  Calls: what a    *)
(* call found out about its copy before a step still holds at the next.    *)
(* So a save that commits writes an outcome of the document that is in     *)
(* the table, which gives the refinement as well as the invariant.         *)
(***************************************************************************)
EXTENDS PlanSessions, TLAPS

(***************************************************************************)
(* The inductive invariant.                                                *)
(***************************************************************************)

\* ApprovalAttestsText of one document.
Attested(d) ==
  /\ Reviewed(d) => d.review.of = d.text
  /\ d.status = "approved" => Reviewed(d) /\ d.review.approved /\ d.review.passed
  /\ d.status = "emitted" /\ HardTier /\ Reviewed(d) => d.review.approved
  /\ Reviewed(d) /\ d.review.approved => d.review.passed

TableInv ==
  /\ Stored \subseteq minted /\ minted \subseteq Sessions
  /\ table \in [Stored -> [version : Nat, doc : Doc]]
  /\ \A j \in Stored : Attested(table[j].doc)
  /\ events \subseteq Sessions \X Statuses

\* A copy is no newer than the row, and of the row's age it is the row: but for
\* the text that apply_suggestions took from its first read.
CopyOK(k) ==
  /\ k.job \in minted
  /\ k.job \in Stored =>
       /\ k.ver <= table[k.job].version
       /\ k.ver = table[k.job].version =>
            IF k.op = "apply" /\ k.pc = "act"
            THEN k.doc = [table[k.job].doc EXCEPT !.text = k.doc.text]
            ELSE k.doc = table[k.job].doc

\* What a call has found out about its copy by the step it is at.
FoundOut(k) ==
  /\ k.pc = "first" => k.op \in {"sweep", "apply"} \/ (k.op \in Refreshing /\ Reviewed(k.doc))
  /\ k.pc = "mirrorFirst" => k.op \in Refreshing \cup {"ingest"}
  /\ k.pc \in {"first", "mirrorFirst", "act"} =>
       /\ k.op \in Gates \cup {"reject"} => Reviewed(k.doc)
       /\ k.op = "emit" => k.doc.planned
       /\ k.op = "contract" => Contractable(k.doc)
  /\ k.pc = "act" /\ k.op \in {"update", "apply"} => Editable(k.doc)
  /\ k.pc \in {"mirrorAct", "finish"} => k.op = "emit" /\ k.doc.planned /\ Issuable(k.doc)

GoodCall(k) == k \in CallRecord /\ FoundOut(k) /\ CopyOK(k)

CallsInv ==
  /\ call \in [Calls -> CallRecord \cup {Idle}]
  /\ \A c \in Calls : Busy(c) => GoodCall(call[c])

SessionsInv == TableInv /\ CallsInv

(***************************************************************************)
(* Documents.                                                              *)
(***************************************************************************)

(* The operations of AtomicSessions, one by one. *)
LEMMA OutcomeCases ==
  ASSUME NEW d, NEW e
  PROVE  e \in Atomic!Outcomes(d) <=>
         \/ Reviewed(d) /\ (e \in Refreshed(d) \/ e \in Waived(d) \/ e = Rejected(d))
         \/ Approvable(d) /\ e = Approved(d)
         \/ Editable(d) /\ \E text \in SUBSET Edits : e = Rewritten(d, text)
         \/ d.status \notin KeptOnFailure /\ e = Failed(d)
         \/ d.planned /\ Issuable(d) /\ e = Emitted(d)
         \/ Contractable(d) /\ ~Blocked(d) /\ e = Emitted(d)
         \/ e \in Processed(d)
         \/ e = Stamped(d) \/ e = Discarded(d)
BY DEF Atomic!Outcomes, Atomic!Reviewed, Reviewed, Atomic!Refreshed, Refreshed,
       Atomic!Waived, Waived, Atomic!Rejected, Rejected, Atomic!Approvable, Approvable,
       Atomic!Approved, Approved, Atomic!Editable, Editable, Atomic!Rewritten, Rewritten,
       Atomic!KeptOnFailure, KeptOnFailure, Atomic!Failed, Failed,
       Atomic!Issuable, Issuable, Atomic!Emitted, Emitted,
       Atomic!Contractable, Contractable, Atomic!Blocked, Blocked,
       Atomic!Processed, Processed, Atomic!Stamped, Stamped, Atomic!Discarded, Discarded

LEMMA ReviewIsRecord ==
  ASSUME NEW d \in Doc, Reviewed(d)
  PROVE  d.review \in Review
BY DEF Doc, Reviewed

(* A review of which only the named verdicts change. *)
LEMMA ReviewChanged ==
  ASSUME NEW d \in Doc, Reviewed(d), NEW b \in BOOLEAN
  PROVE  LET e == [d EXCEPT !.review.blocked = b] IN
         /\ e \in Doc /\ Reviewed(e)
         /\ e.status = d.status /\ e.text = d.text /\ e.planned = d.planned
         /\ e.stamped = d.stamped
         /\ e.review.of = d.review.of /\ e.review.passed = d.review.passed
         /\ e.review.approved = d.review.approved /\ e.review.blocked = b
BY ReviewIsRecord, SessionDocAssumption DEF SessionDocAssumption, Doc, Review, Reviewed

(* What an operation makes of a sound document is sound. *)
LEMMA OutcomesSound ==
  ASSUME NEW d \in Doc, Attested(d), NEW e \in Atomic!Outcomes(d)
  PROVE  e \in Doc /\ Attested(e)
<1>1. CASE Reviewed(d) /\ e \in Refreshed(d)
  <2>1. PICK b \in BOOLEAN : e = [d EXCEPT !.review.blocked = b]
    BY <1>1 DEF Refreshed
  <2> QED BY <1>1, <2>1, ReviewChanged DEF Attested
<1>2. CASE Reviewed(d) /\ e \in Waived(d)
  <2>1. PICK b \in BOOLEAN : e = [d EXCEPT !.review.blocked = b]
    <3>1. d.review.blocked \in BOOLEAN
      BY <1>2, ReviewIsRecord DEF Review
    <3> QED BY <1>2, <3>1 DEF Waived
  <2> QED BY <1>2, <2>1, ReviewChanged DEF Attested
<1>3. CASE Reviewed(d) /\ e = Rejected(d)
  BY <1>3, ReviewIsRecord, SessionDocAssumption
  DEF SessionDocAssumption, Rejected, Attested, Doc, Review, Reviewed, Statuses
<1>4. CASE Approvable(d) /\ e = Approved(d)
  BY <1>4, ReviewIsRecord, SessionDocAssumption
  DEF SessionDocAssumption, Approvable, Approved, Attested, Doc, Review, Reviewed, Statuses
<1>5. CASE \E text \in SUBSET Edits : e = Rewritten(d, text)
  BY <1>5 DEF Rewritten, Attested, Doc, Reviewed, Statuses
<1>6. CASE e = Failed(d)
  BY <1>6 DEF Failed, Attested, Doc, Reviewed, Statuses
<1>7. CASE d.planned /\ Issuable(d) /\ e = Emitted(d)
  BY <1>7 DEF Issuable, Approvable, Emitted, Attested, Doc, Reviewed, Statuses
<1>8. CASE Contractable(d) /\ ~Blocked(d) /\ e = Emitted(d)
  BY <1>8 DEF Contractable, Emitted, Attested, Doc, Reviewed, Statuses
<1>9. CASE e \in Processed(d)
  <2>1. PICK v \in Verdicts :
          e = [d EXCEPT !.status = "processed", !.planned = TRUE,
                        !.review = [of |-> d.text, passed |-> v[1], blocked |-> v[2],
                                    approved |-> FALSE]]
    BY <1>9 DEF Processed
  <2>2. v[1] \in BOOLEAN /\ v[2] \in BOOLEAN
    BY SessionDocAssumption DEF SessionDocAssumption
  <2> DEFINE review == [of |-> d.text, passed |-> v[1], blocked |-> v[2], approved |-> FALSE]
  <2>3. review.of = d.text /\ review.approved = FALSE
    OBVIOUS
  <2>5. review \in Review
    <3>1. d.text \in SUBSET Edits
      BY DEF Doc
    <3> QED BY <2>2, <3>1 DEF Review
  <2>6. review # NoReview
    BY <2>5, SessionDocAssumption DEF SessionDocAssumption
  <2>4. e = [d EXCEPT !.status = "processed", !.planned = TRUE, !.review = review]
    BY <2>1
  <2> HIDE DEF review
  <2> QED BY <2>3, <2>4, <2>5, <2>6 DEF Attested, Doc, Reviewed, Statuses
<1>10. CASE e = Stamped(d)
  BY <1>10 DEF Stamped, Attested, Doc, Reviewed, Statuses
<1>11. CASE e = Discarded(d)
  BY <1>11 DEF Discarded, Attested, Doc, Reviewed, Statuses
<1> QED
  BY <1>1, <1>2, <1>3, <1>4, <1>5, <1>6, <1>7, <1>8, <1>9, <1>10, <1>11, OutcomeCases

LEMMA FreshIsSound == FreshDoc \in Doc /\ Attested(FreshDoc)
BY DEF FreshDoc, Doc, Statuses, Attested, Reviewed

(***************************************************************************)
(* The steps of a call, as PlanSessions and PlanPipeline take them.  A     *)
(* read is bounded by neither Ops nor MaxVersion here, and a call may be   *)
(* forgotten at any point, so that the steps cover those of PlanPipeline.  *)
(***************************************************************************)

\* The record of a call that has just read session j.
ReadCopy(j, op) ==
  [op |-> op, job |-> j, ver |-> table[j].version, doc |-> table[j].doc,
   pc |-> IF Prepares(op, table[j].doc) THEN "first" ELSE "act"]

Reads(c, j, op) ==
  /\ call[c] = Idle /\ j \in Stored /\ Admissible(op, table[j].doc)
  /\ call' = [call EXCEPT ![c] = ReadCopy(j, op)]
  /\ UNCHANGED <<table, minted, events>>

Forget(c) == End(c) /\ UNCHANGED <<table, minted, events>>

CallMay(c) ==
  \/ \E j \in Sessions : Ingest(c, j)
  \/ \E j \in Sessions, op \in AllOps : Reads(c, j, op)
  \/ Operation(c)
  \/ Mirror(c)
  \/ Forget(c)

SessionsMay == \E c \in Calls : CallMay(c)

(* Every step of the specification is one of these. *)
LEMMA NextIsMay == SessionsNext => SessionsMay
BY PlanSessionsAssumption DEF PlanSessionsAssumption, SessionsNext, SessionsMay, CallMay,
     Load, Reads, ReadCopy

(***************************************************************************)
(* What an operation does to the table and to its call: it commits a save, *)
(* it removes the row, or it leaves the table alone.                       *)
(***************************************************************************)

Row(c) == table[call[c].job]

\* The call after a committed save.
SavedCopy(c, doc, pc) ==
  [op |-> call[c].op, job |-> call[c].job, ver |-> call[c].ver + 1, doc |-> doc, pc |-> pc]

Commits(c, doc, pc) ==
  /\ Current(c)
  /\ table' = Put(call[c].job, call[c].ver + 1, doc)
  /\ call' = [call EXCEPT ![c] = SavedCopy(c, doc, pc)]
  /\ UNCHANGED minted

Leaves(c, k) ==
  /\ call' = [call EXCEPT ![c] = k]
  /\ UNCHANGED <<table, minted>>

\* The save writes an outcome of the row's document, or that document again.
SoundCommit(c) ==
  /\ Busy(c)
  /\ \E doc \in Atomic!Outcomes(Row(c).doc) \cup {Row(c).doc},
        pc \in {"mirrorFirst", "mirrorAct", "mirror"} :
       Commits(c, doc, pc) /\ FoundOut(SavedCopy(c, doc, pc))

SoundLeave(c) == \E k : Leaves(c, k) /\ (k = Idle \/ GoodCall(k))

LEMMA CallIsGood ==
  ASSUME SessionsInv, NEW c \in Calls, Busy(c)
  PROVE  GoodCall(call[c]) /\ call[c] \in CallRecord
BY DEF SessionsInv, CallsInv, GoodCall

LEMMA CallIsRecord ==
  ASSUME SessionsInv, NEW c \in Calls, Busy(c)
  PROVE  /\ call[c].op \in AllOps /\ call[c].job \in Sessions /\ call[c].ver \in Nat
         /\ call[c].doc \in Doc /\ call[c].pc \in Steps
         /\ call[c] = [op |-> call[c].op, job |-> call[c].job, ver |-> call[c].ver,
                       doc |-> call[c].doc, pc |-> call[c].pc]
<1>1. call[c] \in CallRecord
  BY CallIsGood
<1> QED BY <1>1, Zenon DEF CallRecord

LEMMA RowIsTyped ==
  ASSUME SessionsInv, NEW j \in Stored
  PROVE  /\ table[j].version \in Nat /\ table[j].doc \in Doc /\ Attested(table[j].doc)
         /\ j \in minted /\ j \in Sessions
BY DEF SessionsInv, TableInv

\* A call of which version, copy and step are written.
Overwrite(c, ver, doc, pc) ==
  call' = [call EXCEPT ![c].ver = ver, ![c].doc = doc, ![c].pc = pc]

LEMMA Overwritten ==
  ASSUME NEW c \in Calls, call[c] \in CallRecord,
         call \in [Calls -> CallRecord \cup {Idle}],
         NEW ver, NEW doc, NEW pc, Overwrite(c, ver, doc, pc)
  PROVE  call' = [call EXCEPT ![c] = [op |-> call[c].op, job |-> call[c].job,
                                      ver |-> ver, doc |-> doc, pc |-> pc]]
<1> DEFINE k == call[c]
           saved == [op |-> k.op, job |-> k.job, ver |-> ver, doc |-> doc, pc |-> pc]
           fields == {"op", "job", "ver", "doc", "pc"}
<1>1. k = [x \in fields |-> k[x]] /\ DOMAIN k = fields
  BY DEF CallRecord
<1>2. call = [d \in Calls |-> call[d]] /\ DOMAIN call = Calls
  OBVIOUS
<1>3. /\ call' = [d \in Calls |-> call'[d]]
      /\ \A d \in Calls : d # c => call'[d] = call[d]
  BY <1>2 DEF Overwrite
<1>4. /\ call'[c] = [x \in fields |-> call'[c][x]]
      /\ call'[c].op = k.op /\ call'[c].job = k.job /\ call'[c].ver = ver
      /\ call'[c].doc = doc /\ call'[c].pc = pc
  BY <1>1, <1>2 DEF Overwrite
<1> HIDE DEF k
<1>5. call'[c] = saved
  BY <1>4
<1> HIDE DEF saved
<1>6. call' = [call EXCEPT ![c] = saved]
  BY <1>2, <1>3, <1>5
<1> QED BY <1>6 DEF saved, k

(* _save commits, or ends the call. *)
LEMMA SaveCommits ==
  ASSUME SessionsInv, NEW c \in Calls, Busy(c), NEW doc, NEW pc, Save(c, doc, pc),
         UNCHANGED minted
  PROVE  Commits(c, doc, pc) \/ Leaves(c, Idle)
<1>1. CASE Current(c)
  <2>1. Overwrite(c, call[c].ver + 1, doc, pc)
    BY <1>1 DEF Save, Overwrite
  <2>2. call[c] \in CallRecord /\ call \in [Calls -> CallRecord \cup {Idle}]
    BY CallIsGood DEF SessionsInv, CallsInv
  <2>3. call' = [call EXCEPT ![c] = SavedCopy(c, doc, pc)]
    BY <2>1, <2>2, Overwritten DEF SavedCopy
  <2> QED BY <1>1, <2>3 DEF Save, Commits
<1>2. CASE ~Current(c)
  BY <1>2 DEF Save, End, Leaves
<1> QED BY <1>1, <1>2

(* A call whose version is the row's works on the row. *)
LEMMA CopyIsRow ==
  ASSUME SessionsInv, NEW c \in Calls, Busy(c), Current(c)
  PROVE  /\ Row(c).doc \in Doc
         /\ IF call[c].op = "apply" /\ call[c].pc = "act"
            THEN call[c].doc = [Row(c).doc EXCEPT !.text = call[c].doc.text]
            ELSE call[c].doc = Row(c).doc
BY CallIsGood, RowIsTyped DEF GoodCall, CopyOK, Current, Row

(* A save of an outcome of the copy, which then is an outcome of the row. *)
LEMMA SoundSave ==
  ASSUME SessionsInv, NEW c \in Calls, Busy(c), NEW doc,
         NEW pc \in {"mirrorFirst", "mirrorAct", "mirror"},
         Save(c, doc, pc), UNCHANGED minted, FoundOut(SavedCopy(c, doc, pc)),
         Current(c) => doc \in Atomic!Outcomes(Row(c).doc) \cup {Row(c).doc}
  PROVE  SoundCommit(c) \/ SoundLeave(c)
<1>1. CASE Commits(c, doc, pc)
  <2>1. doc \in Atomic!Outcomes(Row(c).doc) \cup {Row(c).doc}
    BY <1>1 DEF Commits
  <2> QED BY <1>1, <2>1, Zenon DEF SoundCommit
<1>2. CASE Leaves(c, Idle)
  BY <1>2 DEF SoundLeave
<1> QED BY <1>1, <1>2, SaveCommits

(* The last save of an operation: nothing has to be found out for it. *)
LEMMA LastSave ==
  ASSUME SessionsInv, NEW c \in Calls, Busy(c), NEW doc,
         Save(c, doc, "mirror"), UNCHANGED minted,
         Current(c) => doc \in Atomic!Outcomes(Row(c).doc) \cup {Row(c).doc}
  PROVE  SoundCommit(c) \/ SoundLeave(c)
<1>1. FoundOut(SavedCopy(c, doc, "mirror"))
  BY DEF FoundOut, SavedCopy
<1> QED BY <1>1, SoundSave

(* A call that ends, and touches nothing else, leaves. *)
LEMMA EndLeaves ==
  ASSUME NEW c \in Calls, End(c), UNCHANGED <<table, minted>>
  PROVE  SoundLeave(c)
BY DEF End, Leaves, SoundLeave

(* An update of a call's copy that it read again. *)
LEMMA ReadAgain ==
  ASSUME SessionsInv, NEW c \in Calls, Busy(c), call[c].job \in Stored,
         NEW doc \in Doc,
         FoundOut([op |-> call[c].op, job |-> call[c].job, ver |-> Row(c).version,
                   doc |-> doc, pc |-> "act"]),
         IF call[c].op = "apply" THEN doc = [Row(c).doc EXCEPT !.text = doc.text]
                                 ELSE doc = Row(c).doc,
         Overwrite(c, Row(c).version, doc, "act"), UNCHANGED <<table, minted>>
  PROVE  SoundLeave(c)
<1> DEFINE fresh == [op |-> call[c].op, job |-> call[c].job, ver |-> Row(c).version,
                     doc |-> doc, pc |-> "act"]
<1>1. call[c].op \in AllOps /\ call[c].job \in Sessions /\ Row(c).version \in Nat
  BY CallIsRecord, RowIsTyped DEF Row
<1>2. GoodCall(fresh)
  <2>1. fresh \in CallRecord
    BY <1>1 DEF CallRecord, Steps
  <2>2. CopyOK(fresh)
    BY <1>1, RowIsTyped DEF CopyOK, Row
  <2> QED BY <2>1, <2>2 DEF GoodCall
<1>3. call[c] \in CallRecord /\ call \in [Calls -> CallRecord \cup {Idle}]
  BY CallIsGood DEF SessionsInv, CallsInv
<1>4. call' = [call EXCEPT ![c] = fresh]
  BY <1>3, Overwritten
<1> QED BY <1>2, <1>4 DEF Leaves, SoundLeave

\* A call that goes on to another step with the copy it has.
MovesTo(c, pc) == call' = [call EXCEPT ![c].pc = pc]

LEMMA MoveIsSound ==
  ASSUME SessionsInv, NEW c \in Calls, Busy(c), NEW pc \in Steps,
         MovesTo(c, pc), UNCHANGED <<table, minted>>,
         call[c].op = "apply" => pc = "act" \/ call[c].pc # "act",
         FoundOut([call[c] EXCEPT !.pc = pc])
  PROVE  SoundLeave(c)
<1> DEFINE k == call[c]
           moved == [k EXCEPT !.pc = pc]
<1>1. call' = [call EXCEPT ![c] = moved]
  BY DEF MovesTo
<1>2. k \in CallRecord /\ CopyOK(k)
  BY CallIsGood DEF GoodCall
<1>3. /\ moved \in CallRecord
      /\ moved.op = k.op /\ moved.job = k.job /\ moved.ver = k.ver
      /\ moved.doc = k.doc /\ moved.pc = pc
  BY <1>2 DEF CallRecord
<1>4. CopyOK(moved)
  <2>1. SUFFICES ASSUME k.job \in Stored, k.ver = table[k.job].version,
                        k.op = "apply", pc = "act", k.pc # "act"
                 PROVE  k.doc = [table[k.job].doc EXCEPT !.text = k.doc.text]
    BY <1>2, <1>3 DEF CopyOK
  <2>2. k.doc = table[k.job].doc /\ k.doc \in Doc
    BY <1>2, <2>1, CallIsRecord DEF CopyOK
  <2> QED BY <2>2 DEF Doc
<1>5. GoodCall(moved)
  BY <1>3, <1>4 DEF GoodCall
<1> HIDE DEF moved
<1> QED BY <1>1, <1>5 DEF Leaves, SoundLeave

(* A review that is refreshed is a review, and what was found out stays. *)
LEMMA RefreshedKeeps ==
  ASSUME NEW d \in Doc, Reviewed(d), NEW e \in Refreshed(d)
  PROVE  /\ Reviewed(e) /\ e.planned = d.planned
         /\ Contractable(d) => Contractable(e)
<1>1. PICK b \in BOOLEAN : e = [d EXCEPT !.review.blocked = b]
  BY DEF Refreshed
<1>2. Reviewed(e) /\ e.planned = d.planned /\ e.status = d.status
  BY <1>1, ReviewChanged
<1> QED BY <1>2 DEF Contractable

(* Every operation commits a sound save, deletes, or leaves the table alone. *)
LEMMA OperationShape ==
  ASSUME SessionsInv, NEW c \in Calls, Operation(c)
  PROVE  \/ SoundCommit(c) \/ SoundLeave(c)
         \/ Delete(c) /\ Busy(c)
<1> DEFINE k == call[c]
           Good == SoundCommit(c) \/ SoundLeave(c)
<1>1. CASE StampIntake(c)
  <2>1. Busy(c) /\ ~(k.op = "apply") /\ Save(c, Stamped(k.doc), "mirror") /\ UNCHANGED minted
    BY <1>1 DEF StampIntake, Doing, At
  <2>2. Current(c) => Stamped(k.doc) \in Atomic!Outcomes(Row(c).doc)
    BY <2>1, CopyIsRow, OutcomeCases
  <2> QED BY <2>1, <2>2, LastSave
<1>2. CASE RefreshReadiness(c)
  <2>1. Busy(c) /\ k.pc = "first" /\ k.op \in Refreshing /\ UNCHANGED minted
    BY <1>2 DEF RefreshReadiness, At
  <2>2. PICK d \in Refreshed(k.doc) : Save(c, d, "mirrorFirst")
    BY <1>2 DEF RefreshReadiness
  <2>3. /\ Reviewed(k.doc) /\ k.doc \in Doc /\ FoundOut(k)
        /\ k.op \notin {"sweep", "apply", "reject", "update"}
    BY <2>1, CallIsGood, CallIsRecord DEF GoodCall, FoundOut, Refreshing, Gates
  <2>4. Reviewed(d) /\ d.planned = k.doc.planned /\ (Contractable(k.doc) => Contractable(d))
    BY <2>3, RefreshedKeeps
  <2>5. FoundOut(SavedCopy(c, d, "mirrorFirst"))
    BY <2>1, <2>3, <2>4 DEF FoundOut, SavedCopy
  <2>6. Current(c) => d \in Atomic!Outcomes(Row(c).doc)
    BY <2>1, <2>3, CopyIsRow, OutcomeCases
  <2> QED BY <2>1, <2>2, <2>5, <2>6, SoundSave
<1>3. CASE Approve(c)
  <2>1. Busy(c) /\ k.op = "approve" /\ UNCHANGED minted
    BY <1>3 DEF Approve, Doing, At
  <2>2. CASE Approvable(k.doc)
    <3>1. Save(c, Approved(k.doc), "mirror")
      BY <1>3, <2>2 DEF Approve
    <3>2. Current(c) => Approved(k.doc) \in Atomic!Outcomes(Row(c).doc)
      BY <2>1, <2>2, CopyIsRow, OutcomeCases
    <3> QED BY <2>1, <3>1, <3>2, LastSave
  <2>3. CASE ~Approvable(k.doc)
    BY <1>3, <2>3, EndLeaves DEF Approve
  <2> QED BY <2>2, <2>3
<1>4. CASE Waive(c)
  <2>1. Busy(c) /\ k.op = "waive" /\ k.pc = "act" /\ UNCHANGED minted
    BY <1>4 DEF Waive, Doing, At
  <2>2. Reviewed(k.doc)
    BY <2>1, CallIsGood DEF GoodCall, FoundOut, Gates
  <2>3. CASE End(c) /\ UNCHANGED table
    BY <2>1, <2>3, EndLeaves
  <2>4. ASSUME NEW d \in Waived(k.doc), Save(c, d, "mirror") PROVE Good
    <3>1. Current(c) => d \in Atomic!Outcomes(Row(c).doc)
      BY <2>1, <2>2, <2>4, CopyIsRow, OutcomeCases
    <3> QED BY <2>1, <2>4, <3>1, LastSave
  <2> QED BY <1>4, <2>3, <2>4 DEF Waive
<1>5. CASE Reject(c)
  <2>1. /\ Busy(c) /\ k.op = "reject" /\ k.pc = "act" /\ UNCHANGED minted
        /\ Save(c, Rejected(k.doc), "mirror")
    BY <1>5 DEF Reject, Doing, At
  <2>2. Reviewed(k.doc)
    BY <2>1, CallIsGood DEF GoodCall, FoundOut
  <2>3. Current(c) => Rejected(k.doc) \in Atomic!Outcomes(Row(c).doc)
    BY <2>1, <2>2, CopyIsRow, OutcomeCases
  <2> QED BY <2>1, <2>3, LastSave
<1>6. CASE ReloadForSweep(c)
  <2>1. Busy(c) /\ k.op = "sweep" /\ UNCHANGED <<table, minted>>
    BY <1>6 DEF ReloadForSweep, Doing, At
  <2>2. CASE k.job \in Stored /\ table[k.job].doc.status # "discarded"
    <3>1. Overwrite(c, Row(c).version, Row(c).doc, "act")
      BY <1>6, <2>2 DEF ReloadForSweep, Overwrite, Row
    <3>2. FoundOut([op |-> k.op, job |-> k.job, ver |-> Row(c).version,
                    doc |-> Row(c).doc, pc |-> "act"])
      BY <2>1 DEF FoundOut, Gates
    <3>3. Row(c).doc \in Doc
      BY <2>2, RowIsTyped DEF Row
    <3> QED BY <2>1, <2>2, <3>1, <3>2, <3>3, ReadAgain
  <2>3. CASE ~(k.job \in Stored /\ table[k.job].doc.status # "discarded")
    BY <1>6, <2>3, EndLeaves DEF ReloadForSweep
  <2> QED BY <2>2, <2>3
<1>7. CASE Discard(c)
  <2>1. /\ Busy(c) /\ k.op \in {"discard", "sweep"} /\ UNCHANGED minted
        /\ Save(c, Discarded(k.doc), "mirror")
    BY <1>7 DEF Discard, At
  <2>2. Current(c) => Discarded(k.doc) \in Atomic!Outcomes(Row(c).doc)
    BY <2>1, CopyIsRow, OutcomeCases
  <2> QED BY <2>1, <2>2, LastSave
<1>8. ASSUME NEW e \in Edits, UpdatePlan(c, e) PROVE Good
  <2>1. /\ Busy(c) /\ k.op = "update" /\ k.pc = "act" /\ UNCHANGED minted
        /\ Save(c, Rewritten(k.doc, {e}), "mirror")
    BY <1>8 DEF UpdatePlan, Doing, At
  <2>2. Editable(k.doc)
    BY <2>1, CallIsGood DEF GoodCall, FoundOut
  <2>3. Current(c) => Rewritten(k.doc, {e}) \in Atomic!Outcomes(Row(c).doc)
    <3>1. {e} \in SUBSET Edits
      OBVIOUS
    <3> QED BY <2>1, <2>2, <3>1, CopyIsRow, OutcomeCases
  <2> QED BY <2>1, <2>3, LastSave
<1>9. ASSUME NEW e \in Edits, ApplySuggestion(c, e) PROVE Good
  <2> DEFINE text == k.doc.text \cup {e}
  <2>1. /\ Busy(c) /\ k.op = "apply" /\ k.pc = "act" /\ UNCHANGED minted
        /\ Save(c, Rewritten(k.doc, text), "mirror")
    BY <1>9 DEF ApplySuggestion, Doing, At
  <2>2. Editable(k.doc) /\ k.doc.text \in SUBSET Edits
    BY <2>1, CallIsGood, CallIsRecord DEF GoodCall, FoundOut, Doc
  <2>3. text \in SUBSET Edits
    BY <2>2
  <2>4. Current(c) => Rewritten(k.doc, text) \in Atomic!Outcomes(Row(c).doc)
    <3>1. SUFFICES ASSUME Current(c)
                   PROVE  Rewritten(k.doc, text) \in Atomic!Outcomes(Row(c).doc)
      OBVIOUS
    <3>2. k.doc = [Row(c).doc EXCEPT !.text = k.doc.text] /\ Row(c).doc \in Doc
      BY <2>1, <3>1, CopyIsRow
    <3> HIDE DEF text
    <3>3. Editable(Row(c).doc) /\ Rewritten(k.doc, text) = Rewritten(Row(c).doc, text)
      BY <2>2, <3>2 DEF Editable, Rewritten, Doc
    <3> QED BY <2>3, <3>3, OutcomeCases
  <2> QED BY <2>1, <2>4, LastSave
<1>10. CASE ReloadForApply(c)
  <2>1. Busy(c) /\ k.op = "apply" /\ UNCHANGED <<table, minted>> /\ k.doc \in Doc
    BY <1>10, CallIsRecord DEF ReloadForApply, Doing, At
  <2> DEFINE doc == [Row(c).doc EXCEPT !.text = k.doc.text]
  <2>2. CASE k.job \in Stored /\ Editable(table[k.job].doc)
    <3>1. Overwrite(c, Row(c).version, doc, "act")
      BY <1>10, <2>2 DEF ReloadForApply, Overwrite, Row
    <3>2. Row(c).doc \in Doc
      BY <2>2, RowIsTyped DEF Row
    <3>3. doc \in Doc /\ doc.text = k.doc.text /\ doc.status = Row(c).doc.status
      BY <2>1, <3>2 DEF Doc
    <3>6. doc = [Row(c).doc EXCEPT !.text = doc.text]
      BY <3>3
    <3>5. Editable(doc)
      BY <2>2, <3>3 DEF Editable, Row
    <3> HIDE DEF doc
    <3>4. FoundOut([op |-> k.op, job |-> k.job, ver |-> Row(c).version,
                    doc |-> doc, pc |-> "act"])
      BY <2>1, <3>5 DEF FoundOut, Gates
    <3> QED BY <2>1, <2>2, <3>1, <3>3, <3>4, <3>6, ReadAgain
  <2>3. CASE ~(k.job \in Stored /\ Editable(table[k.job].doc))
    BY <1>10, <2>3, EndLeaves DEF ReloadForApply
  <2> QED BY <2>2, <2>3
<1>11. CASE ProcessDone(c)
  <2>1. Busy(c) /\ k.op = "process" /\ UNCHANGED minted
    BY <1>11 DEF ProcessDone, Doing, At
  <2>2. PICK d \in Processed(k.doc) : Save(c, d, "mirror")
    BY <1>11 DEF ProcessDone
  <2>3. Current(c) => d \in Atomic!Outcomes(Row(c).doc)
    BY <2>1, CopyIsRow, OutcomeCases
  <2> QED BY <2>1, <2>2, <2>3, LastSave
<1>12. CASE ProcessFailed(c)
  <2>1. Busy(c) /\ k.op = "process" /\ UNCHANGED minted
    BY <1>12 DEF ProcessFailed, Doing, At
  <2>2. CASE k.doc.status \in KeptOnFailure
    BY <1>12, <2>2, EndLeaves DEF ProcessFailed
  <2>3. CASE k.doc.status \notin KeptOnFailure
    <3>1. Save(c, Failed(k.doc), "mirror")
      BY <1>12, <2>3 DEF ProcessFailed
    <3>2. Current(c) => Failed(k.doc) \in Atomic!Outcomes(Row(c).doc)
      BY <2>1, <2>3, CopyIsRow, OutcomeCases
    <3> QED BY <2>1, <3>1, <3>2, LastSave
  <2> QED BY <2>2, <2>3
<1>13. CASE CreateIssues(c)
  <2>1. Busy(c) /\ k.op = "emit" /\ k.pc = "act" /\ Issuable(k.doc) /\ UNCHANGED minted
    BY <1>13 DEF CreateIssues, Doing, At
  <2>2. k.doc.planned
    BY <2>1, CallIsGood DEF GoodCall, FoundOut
  <2>3. CASE Current(c)
    <3>1. Save(c, k.doc, "mirrorAct")
      BY <1>13, <2>3 DEF CreateIssues
    <3>2. FoundOut(SavedCopy(c, k.doc, "mirrorAct"))
      BY <2>1, <2>2 DEF FoundOut, SavedCopy, Gates
    <3>3. k.doc = Row(c).doc
      BY <2>1, <2>3, CopyIsRow
    <3> QED BY <2>1, <3>1, <3>2, <3>3, SoundSave
  <2>4. CASE ~Current(c)
    <3>1. MovesTo(c, "finish") /\ UNCHANGED <<table, minted>>
      BY <1>13, <2>4 DEF CreateIssues, MovesTo
    <3>2. FoundOut([k EXCEPT !.pc = "finish"])
      BY <2>1, <2>2, CallIsGood DEF FoundOut, CallRecord
    <3> QED BY <2>1, <3>1, <3>2, MoveIsSound DEF Steps
  <2> QED BY <2>3, <2>4
<1>14. CASE RefuseContract(c)
  BY <1>14, EndLeaves DEF RefuseContract
<1>15. CASE SaveResult(c)
  <2>1. /\ Busy(c) /\ k.op # "apply" /\ UNCHANGED minted
        /\ Save(c, k.doc, "mirror")
    BY <1>15 DEF SaveResult, Posting, Doing, At
  <2>2. Current(c) => k.doc = Row(c).doc
    BY <2>1, CopyIsRow
  <2> QED BY <2>1, <2>2, LastSave
<1>16. CASE SaveEmitted(c)
  <2>1. Busy(c) /\ UNCHANGED minted /\ Save(c, Emitted(k.doc), "mirror")
    BY <1>16 DEF SaveEmitted, Posting, Doing, At
  <2>2. /\ k.op \in {"emit", "contract"}
        /\ \/ k.doc.planned /\ Issuable(k.doc)
           \/ Contractable(k.doc) /\ ~Blocked(k.doc)
    BY <1>16, CallIsGood DEF SaveEmitted, Posting, Doing, At, GoodCall, FoundOut
  <2>3. Current(c) => Emitted(k.doc) \in Atomic!Outcomes(Row(c).doc)
    BY <2>1, <2>2, CopyIsRow, OutcomeCases
  <2> QED BY <2>1, <2>3, LastSave
<1>17. CASE Delete(c)
  BY <1>17 DEF Delete, Doing, At
<1> QED
  BY <1>1, <1>2, <1>3, <1>4, <1>5, <1>6, <1>7, <1>8, <1>9, <1>10, <1>11, <1>12, <1>13,
     <1>14, <1>15, <1>16, <1>17 DEF Operation

(* A mirror moves its call on, or ends it. *)
LEMMA MirrorShape ==
  ASSUME SessionsInv, NEW c \in Calls, Mirror(c)
  PROVE  SoundLeave(c)
<1> DEFINE k == call[c]
<1>1. UNCHANGED <<table, minted>>
  BY DEF Mirror
<1>2. CASE At(c, "mirrorFirst") /\ MovesTo(c, "act")
  <2>1. Busy(c) /\ k \in CallRecord /\ FoundOut(k) /\ k.pc = "mirrorFirst"
    BY <1>2, CallIsGood DEF At, GoodCall
  <2>2. FoundOut([k EXCEPT !.pc = "act"])
    BY <2>1 DEF FoundOut, CallRecord, Refreshing, Gates
  <2> QED BY <1>1, <1>2, <2>1, <2>2, MoveIsSound DEF Steps
<1>3. CASE At(c, "mirrorAct") /\ MovesTo(c, "finish")
  <2>1. Busy(c) /\ k \in CallRecord /\ FoundOut(k) /\ k.pc = "mirrorAct"
    BY <1>3, CallIsGood DEF At, GoodCall
  <2>2. FoundOut([k EXCEPT !.pc = "finish"]) /\ k.op = "emit"
    BY <2>1 DEF FoundOut, CallRecord
  <2> QED BY <1>1, <1>3, <2>1, <2>2, MoveIsSound DEF Steps
<1>4. CASE End(c)
  BY <1>1, <1>4, EndLeaves
<1> QED BY <1>2, <1>3, <1>4 DEF Mirror, Mirrored, MovesTo

(* A read leaves the table alone and has a copy of the row. *)
LEMMA ReadShape ==
  ASSUME SessionsInv, NEW c \in Calls, NEW j \in Sessions, NEW op \in AllOps, Reads(c, j, op)
  PROVE  SoundLeave(c)
<1> DEFINE k == ReadCopy(j, op)
           d == table[j].doc
           pc == IF Prepares(op, d) THEN "first" ELSE "act"
<1>1. j \in Stored /\ j \in minted /\ table[j].version \in Nat /\ d \in Doc /\ Admissible(op, d)
  BY RowIsTyped DEF Reads
<1>2. /\ k \in CallRecord
      /\ k.op = op /\ k.job = j /\ k.ver = table[j].version /\ k.doc = d /\ k.pc = pc
      /\ pc \in {"first", "act"}
  BY <1>1 DEF ReadCopy, CallRecord, Steps
<1>3. FoundOut(k)
  <2>1. pc = "first" => op \in {"sweep", "apply"} \/ (op \in Refreshing /\ Reviewed(d))
    BY DEF Prepares
  <2>2. op \in Gates \cup {"reject"} => Reviewed(d)
    BY <1>1 DEF Admissible, Gates
  <2>3. (op = "emit" => d.planned) /\ (op = "contract" => Contractable(d))
    BY <1>1 DEF Admissible, Gates
  <2>4. pc = "act" /\ op \in {"update", "apply"} => Editable(d)
    BY <1>1 DEF Admissible, Prepares, Gates
  <2> HIDE DEF k, pc, d
  <2> QED BY <1>2, <2>1, <2>2, <2>3, <2>4 DEF FoundOut
<1>4. CopyOK(k)
  <2>1. ~(op = "apply" /\ pc = "act")
    BY DEF Prepares
  <2> HIDE DEF k, pc
  <2> QED BY <1>1, <1>2, <2>1 DEF CopyOK
<1>5. GoodCall(k) /\ Leaves(c, k)
  BY <1>2, <1>3, <1>4 DEF GoodCall, Leaves, Reads
<1> HIDE DEF k
<1> QED BY <1>5 DEF SoundLeave

(* Every step of a call is a new session, a sound save, a removal, or a step that *)
(* leaves the table alone. *)
LEMMA CallShape ==
  ASSUME SessionsInv, NEW c \in Calls, CallMay(c)
  PROVE  \/ \E j \in Sessions : Ingest(c, j)
         \/ SoundCommit(c) \/ SoundLeave(c)
         \/ Delete(c) /\ Busy(c)
<1>1. Forget(c) => SoundLeave(c)
  BY EndLeaves DEF Forget
<1> QED BY <1>1, OperationShape, MirrorShape, ReadShape DEF CallMay

(***************************************************************************)
(* What a step does to the rows: versions grow, and ids stay used.         *)
(***************************************************************************)

Grows ==
  /\ minted \subseteq minted'
  /\ \A j \in minted : j \in Stored' =>
       j \in Stored /\ (table'[j] = table[j] \/ table'[j].version > table[j].version)

(* A copy that was no newer than its row, and the row of its age, remains so. *)
LEMMA CopyKept ==
  ASSUME TableInv, TableInv', Grows, NEW k \in CallRecord, CopyOK(k)
  PROVE  CopyOK(k)'
<1>1. k.job \in minted'
  BY DEF Grows, CopyOK
<1>2. ASSUME k.job \in Stored'
      PROVE  k.job \in Stored /\ (table'[k.job] = table[k.job] \/ table'[k.job].version > k.ver)
  <2>1. /\ k.job \in Stored
        /\ table'[k.job] = table[k.job] \/ table'[k.job].version > table[k.job].version
    BY <1>2 DEF Grows, CopyOK
  <2>2. k.ver <= table[k.job].version /\ k.ver \in Nat /\ table[k.job].version \in Nat
    BY <2>1 DEF CopyOK, TableInv, CallRecord
  <2>5. table'[k.job].version \in Nat
    BY <1>2 DEF TableInv
  <2>3. CASE table'[k.job] = table[k.job]
    BY <2>1, <2>3
  <2>4. CASE table'[k.job].version > table[k.job].version
    BY <2>1, <2>2, <2>4, <2>5
  <2> QED BY <2>1, <2>3, <2>4
<1>3. CASE k.job \in Stored' /\ table'[k.job] = table[k.job]
  BY <1>1, <1>2, <1>3 DEF CopyOK
<1>4. CASE k.job \in Stored' /\ table'[k.job].version > k.ver
  <2>1. k.ver \in Nat /\ table'[k.job].version \in Nat
    BY <1>4 DEF CallRecord, TableInv
  <2>2. k.ver <= table'[k.job].version /\ k.ver # table'[k.job].version
    BY <1>4, <2>1
  <2> QED BY <1>1, <2>2 DEF CopyOK
<1> QED BY <1>1, <1>2, <1>3, <1>4 DEF CopyOK

(* The parts of the table a step may write are written soundly. *)
LEMMA IngestTable ==
  ASSUME SessionsInv, NEW c \in Calls, NEW j \in Sessions, Ingest(c, j),
         events' \subseteq Sessions \X Statuses
  PROVE  TableInv' /\ Grows
<1> DEFINE row == [version |-> 1, doc |-> FreshDoc]
<1>1. /\ j \notin minted /\ minted' = minted \cup {j}
      /\ table' = [i \in Stored \cup {j} |-> IF i = j THEN row ELSE table[i]]
  BY DEF Ingest, Put
<1>2. row \in [version : Nat, doc : Doc] /\ Attested(row.doc)
  BY FreshIsSound
<1> HIDE DEF row
<1>3. Stored \subseteq minted /\ minted \subseteq Sessions
  BY DEF SessionsInv, TableInv
<1>4. table \in [Stored -> [version : Nat, doc : Doc]] /\ \A i \in Stored : Attested(table[i].doc)
  BY DEF SessionsInv, TableInv
<1>5. /\ Stored' = Stored \cup {j}
      /\ \A i \in Stored : table'[i] = table[i]
      /\ table'[j] = row
  BY <1>1, <1>3 DEF Stored
<1>6. TableInv'
  <2>1. Stored' \subseteq minted' /\ minted' \subseteq Sessions
    BY <1>1, <1>3, <1>5
  <2>2. table' \in [Stored' -> [version : Nat, doc : Doc]]
    BY <1>1, <1>2, <1>4, <1>5
  <2>3. \A i \in Stored' : Attested(table'[i].doc)
    BY <1>2, <1>4, <1>5
  <2> QED BY <2>1, <2>2, <2>3 DEF TableInv
<1>7. Grows
  BY <1>1, <1>5 DEF Grows
<1> QED BY <1>6, <1>7

LEMMA CommitTable ==
  ASSUME SessionsInv, NEW c \in Calls, Busy(c),
         NEW doc \in Atomic!Outcomes(Row(c).doc) \cup {Row(c).doc}, NEW pc,
         Commits(c, doc, pc), events' \subseteq Sessions \X Statuses
  PROVE  /\ TableInv' /\ Grows
         /\ Stored' = Stored /\ table'[call[c].job] = [version |-> call[c].ver + 1, doc |-> doc]
         /\ \A i \in Stored : i # call[c].job => table'[i] = table[i]
<1> DEFINE j == call[c].job
           row == [version |-> call[c].ver + 1, doc |-> doc]
<1>1. /\ j \in Stored /\ table[j].version = call[c].ver /\ minted' = minted
      /\ table' = [i \in Stored \cup {j} |-> IF i = j THEN row ELSE table[i]]
  BY DEF Commits, Current, Put
<1>2. doc \in Doc /\ Attested(doc)
  <2>1. Row(c).doc \in Doc /\ Attested(Row(c).doc)
    BY <1>1, RowIsTyped DEF Row
  <2> QED BY <2>1, OutcomesSound
<1>3. call[c].ver \in Nat
  BY CallIsRecord
<1>4. row \in [version : Nat, doc : Doc] /\ row.version > table[j].version /\ row.doc = doc
  BY <1>1, <1>2, <1>3
<1> HIDE DEF row
<1>5. Stored \subseteq minted /\ minted \subseteq Sessions
  BY DEF SessionsInv, TableInv
<1>6. table \in [Stored -> [version : Nat, doc : Doc]] /\ \A i \in Stored : Attested(table[i].doc)
  BY DEF SessionsInv, TableInv
<1>7. /\ Stored' = Stored
      /\ \A i \in Stored : i # j => table'[i] = table[i]
      /\ table'[j] = row
  BY <1>1 DEF Stored
<1>8. TableInv'
  <2>1. Stored' \subseteq minted' /\ minted' \subseteq Sessions
    BY <1>1, <1>5, <1>7
  <2>2. table' \in [Stored' -> [version : Nat, doc : Doc]]
    BY <1>1, <1>4, <1>6, <1>7
  <2>3. \A i \in Stored' : Attested(table'[i].doc)
    BY <1>2, <1>4, <1>6, <1>7
  <2> QED BY <2>1, <2>2, <2>3 DEF TableInv
<1>9. Grows
  BY <1>1, <1>4, <1>7 DEF Grows
<1> QED BY <1>7, <1>8, <1>9 DEF row

LEMMA DeleteTable ==
  ASSUME SessionsInv, NEW c \in Calls, Delete(c), events' \subseteq Sessions \X Statuses
  PROVE  TableInv' /\ Grows
<1>1. /\ minted' = minted
      /\ table' = [i \in Stored \ {call[c].job} |-> table[i]]
  BY DEF Delete
<1>2. Stored' = Stored \ {call[c].job} /\ \A i \in Stored' : table'[i] = table[i]
  BY <1>1 DEF Stored
<1>3. TableInv'
  <2>1. Stored' \subseteq minted' /\ minted' \subseteq Sessions
    BY <1>1, <1>2 DEF SessionsInv, TableInv
  <2>2. table' \in [Stored' -> [version : Nat, doc : Doc]]
    BY <1>1, <1>2 DEF SessionsInv, TableInv
  <2>3. \A i \in Stored' : Attested(table'[i].doc)
    BY <1>2 DEF SessionsInv, TableInv
  <2> QED BY <2>1, <2>2, <2>3 DEF TableInv
<1> QED BY <1>1, <1>2, <1>3 DEF Grows

LEMMA QuietTable ==
  ASSUME SessionsInv, UNCHANGED <<table, minted>>, events' \subseteq Sessions \X Statuses
  PROVE  TableInv' /\ Grows
BY DEF SessionsInv, TableInv, Grows, Stored

(* The events of a call are terminal statuses of its session. *)
LEMMA EventsTyped ==
  ASSUME SessionsInv, NEW c \in Calls, CallMay(c)
  PROVE  events' \subseteq Sessions \X Statuses
<1>1. events \subseteq Sessions \X Statuses
  BY DEF SessionsInv, TableInv
<1>2. CASE UNCHANGED events
  BY <1>1, <1>2
<1>3. ASSUME Busy(c), NEW s \in {"rejected", "discarded", "emitted"},
             events' = events \cup {<<call[c].job, s>>}
      PROVE  events' \subseteq Sessions \X Statuses
  <2>1. call[c].job \in Sessions
    BY <1>3, CallIsRecord
  <2> QED BY <1>1, <1>3, <2>1 DEF Statuses
<1>4. ASSUME Operation(c)
      PROVE  \/ UNCHANGED events
             \/ Busy(c) /\ \E s \in {"rejected", "discarded", "emitted"} :
                             events' = events \cup {<<call[c].job, s>>}
  BY <1>4 DEF Operation, StampIntake, RefreshReadiness, Approve, Waive, Reject,
       ReloadForSweep, Discard, UpdatePlan, ApplySuggestion, ReloadForApply, ProcessDone,
       ProcessFailed, CreateIssues, RefuseContract, SaveResult, SaveEmitted, Posting,
       Delete, Doing, At
<1>5. ASSUME ~Operation(c) PROVE UNCHANGED events
  BY <1>5 DEF CallMay, Ingest, Reads, Mirror, Forget
<1> QED BY <1>2, <1>3, <1>4, <1>5

(***************************************************************************)
(* The invariant is inductive.                                             *)
(***************************************************************************)

(* The calls that do not step stay good, as the one that steps does. *)
LEMMA CallsKept ==
  ASSUME SessionsInv, TableInv', Grows, NEW c \in Calls, NEW k,
         call' = [call EXCEPT ![c] = k],
         k = Idle \/ (k \in CallRecord /\ FoundOut(k) /\ CopyOK(k)')
  PROVE  CallsInv'
<1>1. call \in [Calls -> CallRecord \cup {Idle}] /\ TableInv
  BY DEF SessionsInv, CallsInv
<1>2. call' \in [Calls -> CallRecord \cup {Idle}]
  BY <1>1 DEF GoodCall
<1>3. ASSUME NEW d \in Calls, Busy(d)' PROVE GoodCall(call[d])'
  <2>1. CASE d = c
    <3>1. call'[d] = k /\ k # Idle
      BY <1>1, <1>3, <2>1 DEF Busy
    <3> QED BY <3>1 DEF GoodCall, CopyOK, FoundOut
  <2>2. CASE d # c
    <3>1. call'[d] = call[d] /\ Busy(d)
      BY <1>1, <1>3, <2>2 DEF Busy
    <3>2. GoodCall(call[d])
      BY <3>1 DEF SessionsInv, CallsInv
    <3>3. PICK old : old = call[d]
      OBVIOUS
    <3>4. old \in CallRecord /\ FoundOut(old) /\ CopyOK(old)
      BY <3>2, <3>3 DEF GoodCall
    <3>5. CopyOK(old)'
      BY <1>1, <3>4, CopyKept
    <3> QED BY <3>1, <3>3, <3>4, <3>5 DEF GoodCall, CopyOK, FoundOut
  <2> QED BY <2>1, <2>2
<1> QED BY <1>2, <1>3 DEF CallsInv

(* One step of a call keeps the invariant, and the rows only grow. *)
LEMMA CallKeeps ==
  ASSUME SessionsInv, NEW c \in Calls, CallMay(c)
  PROVE  SessionsInv' /\ Grows
<1>1. events' \subseteq Sessions \X Statuses
  BY EventsTyped
<1>2. ASSUME NEW j \in Sessions, Ingest(c, j) PROVE SessionsInv' /\ Grows
  <2> DEFINE k == [op |-> "ingest", job |-> j, ver |-> 1, doc |-> FreshDoc,
                   pc |-> "mirrorFirst"]
  <2>1. TableInv' /\ Grows
    BY <1>1, <1>2, IngestTable
  <2>2. k \in CallRecord
    BY FreshIsSound DEF CallRecord, AllOps, Steps
  <2>3. FoundOut(k)
    BY DEF FoundOut, Gates
  <2>4. CopyOK(k)'
    <3>1. j \in minted' /\ table'[j] = [version |-> 1, doc |-> FreshDoc]
      BY <1>2 DEF Ingest, Put
    <3> QED BY <3>1 DEF CopyOK
  <2>5. call' = [call EXCEPT ![c] = k]
    BY <1>2 DEF Ingest
  <2> HIDE DEF k
  <2>6. CallsInv'
    BY <2>1, <2>2, <2>3, <2>4, <2>5, CallsKept
  <2> QED BY <2>1, <2>6 DEF SessionsInv
<1>3. CASE SoundCommit(c)
  <2>1. PICK doc \in Atomic!Outcomes(Row(c).doc) \cup {Row(c).doc},
             pc \in {"mirrorFirst", "mirrorAct", "mirror"} :
               Commits(c, doc, pc) /\ FoundOut(SavedCopy(c, doc, pc))
    BY <1>3 DEF SoundCommit
  <2>2. Current(c) /\ Busy(c)
    BY <1>3, <2>1 DEF Commits, SoundCommit
  <2>3. /\ TableInv' /\ Grows
        /\ table'[call[c].job] = [version |-> call[c].ver + 1, doc |-> doc]
    BY <1>1, <2>1, <2>2, CommitTable
  <2>4. call[c].job \in minted /\ call[c].job \in Stored
    BY <2>2, RowIsTyped DEF Current
  <2>5. minted' = minted /\ Stored' = Stored
    BY <1>1, <2>1, <2>2, CommitTable DEF Commits
  <2>6. doc \in Doc
    <3>1. Row(c).doc \in Doc /\ Attested(Row(c).doc)
      BY <2>4, RowIsTyped DEF Row
    <3> QED BY <3>1, OutcomesSound
  <2>7. PICK k : k = SavedCopy(c, doc, pc)
    OBVIOUS
  <2>8. /\ k \in CallRecord /\ FoundOut(k)
        /\ k.job = call[c].job /\ k.ver = call[c].ver + 1 /\ k.doc = doc /\ k.pc # "act"
    <3>4. pc \in Steps /\ pc # "act"
      BY <2>1 DEF Steps
    <3>5. call[c].op \in AllOps /\ call[c].job \in Sessions /\ call[c].ver \in Nat
      BY <2>2, CallIsRecord
    <3>1. /\ call[c].op \in AllOps /\ call[c].job \in Sessions /\ call[c].ver + 1 \in Nat
          /\ pc \in Steps /\ pc # "act"
      BY <3>4, <3>5
    <3>2. FoundOut(k)
      BY <2>1, <2>7
    <3>3. k = [op |-> call[c].op, job |-> call[c].job, ver |-> call[c].ver + 1,
               doc |-> doc, pc |-> pc]
      BY <2>7 DEF SavedCopy
    <3> QED BY <2>6, <3>1, <3>2, <3>3 DEF CallRecord
  <2>9. CopyOK(k)'
    <3>1. table'[k.job].version = k.ver /\ table'[k.job].doc = k.doc /\ k.job \in minted'
      BY <2>3, <2>4, <2>5, <2>8
    <3>2. k.ver \in Nat
      BY <2>8 DEF CallRecord
    <3> QED BY <2>8, <3>1, <3>2 DEF CopyOK
  <2>10. call' = [call EXCEPT ![c] = k]
    BY <2>1, <2>7 DEF Commits
  <2>11. CallsInv'
    BY <2>3, <2>8, <2>9, <2>10, CallsKept
  <2> QED BY <2>3, <2>11 DEF SessionsInv
<1>4. CASE SoundLeave(c)
  <2>1. PICK k : Leaves(c, k) /\ (k = Idle \/ GoodCall(k))
    BY <1>4 DEF SoundLeave
  <2>2. TableInv' /\ Grows
    BY <1>1, <2>1, QuietTable DEF Leaves
  <2>3. TableInv
    BY DEF SessionsInv
  <2>4. k = Idle \/ (k \in CallRecord /\ FoundOut(k) /\ CopyOK(k)')
    BY <2>1, <2>2, <2>3, CopyKept DEF GoodCall
  <2>5. CallsInv'
    BY <2>1, <2>2, <2>4, CallsKept DEF Leaves
  <2> QED BY <2>2, <2>5 DEF SessionsInv
<1>5. CASE Delete(c)
  <2>1. TableInv' /\ Grows
    BY <1>1, <1>5, DeleteTable
  <2>2. call' = [call EXCEPT ![c] = Idle]
    BY <1>5 DEF Delete, End
  <2>3. CallsInv'
    BY <2>1, <2>2, CallsKept
  <2> QED BY <2>1, <2>3 DEF SessionsInv
<1> QED BY <1>2, <1>3, <1>4, <1>5, CallShape

LEMMA InitKeeps ==
  ASSUME SessionsInit
  PROVE  SessionsInv
<1>1. Stored = {}
  BY DEF SessionsInit, Stored
<1>2. TableInv
  BY <1>1 DEF TableInv, SessionsInit
<1>3. CallsInv
  BY DEF CallsInv, SessionsInit, Busy
<1> QED BY <1>2, <1>3 DEF SessionsInv

LEMMA StutterKeeps ==
  ASSUME SessionsInv, UNCHANGED sessionVars
  PROVE  SessionsInv' /\ Grows
<1>1. TableInv' /\ Grows
  BY QuietTable DEF sessionVars, SessionsInv, TableInv
<1>2. CallsInv'
  BY DEF SessionsInv, CallsInv, GoodCall, CopyOK, FoundOut, Busy, Stored, sessionVars
<1> QED BY <1>1, <1>2 DEF SessionsInv

LEMMA StepKeeps ==
  ASSUME SessionsInv, [SessionsMay]_sessionVars
  PROVE  SessionsInv' /\ Grows
BY CallKeeps, StutterKeeps DEF SessionsMay

LEMMA SessionsInvHolds == SessionsSpec => []SessionsInv
<1>1. SessionsInit => SessionsInv
  BY InitKeeps
<1>2. SessionsInv /\ [SessionsNext]_sessionVars => SessionsInv'
  BY NextIsMay, StepKeeps
<1> QED BY <1>1, <1>2, PTL DEF SessionsSpec

(***************************************************************************)
(* The theorems.                                                           *)
(***************************************************************************)

LEMMA InvImplies == SessionsInv => SessionsTypeOK /\ CopyIsCurrent /\ ApprovalAttestsText
<1> SUFFICES ASSUME SessionsInv PROVE SessionsTypeOK /\ CopyIsCurrent /\ ApprovalAttestsText
  OBVIOUS
<1>1. SessionsTypeOK
  BY DEF SessionsInv, TableInv, CallsInv, SessionsTypeOK
<1>2. CopyIsCurrent
  BY CopyIsRow DEF CopyIsCurrent, Doing, At, Row
<1>3. ApprovalAttestsText
  BY DEF SessionsInv, TableInv, Attested, ApprovalAttestsText
<1> QED BY <1>1, <1>2, <1>3

\* Rows, copies and events have their types: no interleaving of saves, reloads
\* and refusals leaves a call with a version or a document of another shape.
THEOREM SessionsTyped == SessionsSpec => []SessionsTypeOK
BY SessionsInvHolds, InvImplies, PTL

\* _save never overwrites another call's committed change: a copy at the row's
\* version is the row.
THEOREM CopiesAreCurrent == SessionsSpec => []CopyIsCurrent
BY SessionsInvHolds, InvImplies, PTL

\* A stored approval attests to the text that is stored, and passed its gates.
THEOREM ApprovalsAttest == SessionsSpec => []ApprovalAttestsText
BY SessionsInvHolds, InvImplies, PTL

\* No stale copy writes a deleted session back.
THEOREM NoResurrection == SessionsSpec => DeletedStaysDeleted
<1>1. SessionsInv /\ [SessionsNext]_sessionVars =>
        [\A j \in minted : j \notin Stored => j \notin Stored']_sessionVars
  <2> SUFFICES ASSUME SessionsInv, [SessionsNext]_sessionVars
               PROVE  \A j \in minted : j \notin Stored => j \notin Stored'
    OBVIOUS
  <2>1. Grows
    BY NextIsMay, StepKeeps
  <2> QED BY <2>1 DEF Grows
<1> QED BY <1>1, SessionsInvHolds, PTL DEF SessionsSpec, DeletedStaysDeleted

(***************************************************************************)
(* The operations are atomic.                                              *)
(***************************************************************************)

\* The documents of AtomicSessions.
Docs == [j \in Stored |-> table[j].doc]

LEMMA CommitIsOperate ==
  ASSUME SessionsInv, NEW c \in Calls, SoundCommit(c),
         events' \subseteq Sessions \X Statuses
  PROVE  Atomic!Next \/ UNCHANGED Atomic!vars
<1>1. PICK doc \in Atomic!Outcomes(Row(c).doc) \cup {Row(c).doc},
           pc \in {"mirrorFirst", "mirrorAct", "mirror"} : Commits(c, doc, pc)
  BY DEF SoundCommit
<1>8. PICK j : j = call[c].job
  OBVIOUS
<1>2. Busy(c) /\ j \in Stored /\ minted' = minted
  BY <1>1, <1>8 DEF SoundCommit, Commits, Current
<1>3. /\ Stored' = Stored /\ table'[j].doc = doc
      /\ \A i \in Stored : i # j => table'[i] = table[i]
  <2>1. /\ Stored' = Stored
        /\ table'[call[c].job] = [version |-> call[c].ver + 1, doc |-> doc]
        /\ \A i \in Stored : i # call[c].job => table'[i] = table[i]
    BY <1>1, <1>2, CommitTable
  <2> QED BY <1>8, <2>1
<1>4. Docs' = [Docs EXCEPT ![j] = doc]
  <2>1. Docs' = [i \in Stored |-> table'[i].doc]
    BY <1>3 DEF Docs
  <2> QED BY <1>2, <1>3, <2>1 DEF Docs
<1>5. Docs[j] = Row(c).doc /\ DOMAIN Docs = Stored
  BY <1>2, <1>8 DEF Docs, Row
<1>6. CASE doc = Row(c).doc
  <2>1. Docs' = Docs
    BY <1>4, <1>5, <1>6 DEF Docs
  <2> QED BY <1>2, <2>1 DEF Atomic!vars, Docs
<1>7. CASE doc \in Atomic!Outcomes(Row(c).doc)
  <2>1. Atomic!Operate(j) /\ j \in Atomic!Exists
    BY <1>2, <1>4, <1>5, <1>7 DEF Atomic!Operate, Atomic!Exists, Docs
  <2> QED BY <2>1 DEF Atomic!Next
<1> QED BY <1>6, <1>7

\* Every step of a call is a step of AtomicSessions or changes none of it.
LEMMA CallRefines ==
  ASSUME SessionsInv, NEW c \in Calls, CallMay(c)
  PROVE  Atomic!Next \/ UNCHANGED Atomic!vars
<1>1. ASSUME NEW j \in Sessions, Ingest(c, j) PROVE Atomic!Next
  <2>1. /\ j \notin minted /\ minted' = minted \cup {j} /\ j \notin Stored
        /\ table' = [i \in Stored \cup {j} |->
                       IF i = j THEN [version |-> 1, doc |-> FreshDoc] ELSE table[i]]
    BY <1>1 DEF Ingest, Put, SessionsInv, TableInv
  <2>2. Docs' = [i \in Stored \cup {j} |-> IF i = j THEN FreshDoc ELSE Docs[i]]
    BY <2>1 DEF Docs, Stored
  <2>3. Atomic!FreshDoc = FreshDoc
    BY DEF Atomic!FreshDoc, FreshDoc
  <2>4. Atomic!Ingest(j)
    BY <2>1, <2>2, <2>3 DEF Atomic!Ingest, Atomic!Exists, Docs
  <2> QED BY <2>4 DEF Atomic!Next
<1>2. CASE SoundCommit(c)
  BY <1>2, EventsTyped, CommitIsOperate
<1>3. CASE SoundLeave(c)
  BY <1>3 DEF SoundLeave, Leaves, Atomic!vars, Stored
<1>4. CASE Delete(c) /\ Busy(c)
  <2>5. PICK j : j = call[c].job
    OBVIOUS
  <2>1. /\ minted' = minted /\ table' = [i \in Stored \ {j} |-> table[i]]
    BY <1>4, <2>5 DEF Delete
  <2>2. Docs' = [i \in Stored \ {j} |-> Docs[i]]
    BY <2>1 DEF Docs, Stored
  <2>3. CASE j \in Stored
    <3>1. Atomic!Remove(j) /\ j \in Atomic!Exists
      BY <2>1, <2>2, <2>3 DEF Atomic!Remove, Atomic!Exists, Docs
    <3> QED BY <3>1 DEF Atomic!Next
  <2>4. CASE j \notin Stored
    <3>1. Docs' = Docs
      BY <2>2, <2>4 DEF Docs
    <3> QED BY <2>1, <3>1 DEF Atomic!vars, Docs
  <2> QED BY <2>3, <2>4
<1> QED BY <1>1, <1>2, <1>3, <1>4, CallShape

LEMMA StepRefines ==
  ASSUME SessionsInv, [SessionsMay]_sessionVars
  PROVE  [Atomic!Next]_(Atomic!vars)
<1>1. CASE UNCHANGED sessionVars
  BY <1>1 DEF sessionVars, Atomic!vars, Stored
<1> QED BY <1>1, CallRefines DEF SessionsMay

LEMMA InitRefines == SessionsInit => Atomic!Init
BY DEF SessionsInit, Atomic!Init, Stored, Atomic!FreshDoc, FreshDoc

\* However copies, saves and refusals interleave, the table behaves as one on
\* which every operation is a single step on the current document.
THEOREM OperationsAreAtomic == SessionsSpec => AtomicSpec
<1>1. SessionsInv /\ [SessionsNext]_sessionVars => [Atomic!Next]_(Atomic!vars)
  BY NextIsMay, StepRefines
<1> QED BY <1>1, InitRefines, SessionsInvHolds, PTL DEF SessionsSpec, AtomicSpec, Atomic!Spec
==============================================================================
