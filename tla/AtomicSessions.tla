---------------------------- MODULE AtomicSessions ----------------------------
(***************************************************************************)
(* What the planning sessions promise: a set of documents on which every   *)
(* operation is one step, taken on the document as it is.  There are no    *)
(* copies, no versions and no calls here.  PlanSessions implements it.     *)
(***************************************************************************)
EXTENDS SessionDoc

CONSTANT Sessions

VARIABLES
  docs,   \* the document of every session that exists
  used    \* ids that were ever given to a session
vars == <<docs, used>>

Exists == DOMAIN docs

Init ==
  /\ docs = [j \in {} |-> FreshDoc]
  /\ used = {}

Ingest(j) ==
  /\ j \notin used
  /\ used' = used \cup {j}
  /\ docs' = [k \in Exists \cup {j} |-> IF k = j THEN FreshDoc ELSE docs[k]]

Remove(j) ==
  /\ docs' = [k \in Exists \ {j} |-> docs[k]]
  /\ UNCHANGED used

\* The documents that one operation can make of d.  An edit writes the text it
\* is given: that the text was made from d's is no promise.
Outcomes(d) ==
  (IF Reviewed(d) THEN Refreshed(d) \cup Waived(d) \cup {Rejected(d)} ELSE {})
  \cup (IF Approvable(d) THEN {Approved(d)} ELSE {})
  \cup (IF Editable(d) THEN {Rewritten(d, text) : text \in SUBSET Edits} ELSE {})
  \cup (IF d.status \notin KeptOnFailure THEN {Failed(d)} ELSE {})
  \cup (IF d.planned /\ Issuable(d) THEN {Emitted(d)} ELSE {})
  \cup (IF Contractable(d) /\ ~Blocked(d) THEN {Emitted(d)} ELSE {})
  \cup Processed(d)
  \cup {Stamped(d), Discarded(d)}

Operate(j) ==
  /\ \E d \in Outcomes(docs[j]) : docs' = [docs EXCEPT ![j] = d]
  /\ UNCHANGED used

Next ==
  \/ \E j \in Sessions : Ingest(j)
  \/ \E j \in Exists : Remove(j) \/ Operate(j)

Spec == Init /\ [][Next]_vars
==============================================================================
