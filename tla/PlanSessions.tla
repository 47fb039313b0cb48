----------------------------- MODULE PlanSessions -----------------------------
(***************************************************************************)
(* The planning sessions of PlanService over the shared plan_sessions      *)
(* table.  Every operation reads its session from the table into a private *)
(* copy that remembers the row's version, works on the copy, and writes it *)
(* back with a compare-and-set; the loser of a race is refused (409) and   *)
(* writes nothing.  After each successful write the session is mirrored    *)
(* into job_states, which PlanPipeline models.                             *)
(*                                                                         *)
(* Source: apps/backend/plan/service.py and                                *)
(* apps/web-server/server/jobstore/plan_session_store.py.                  *)
(*                                                                         *)
(* A call is one request, background sweep or worker thread on any         *)
(* replica.  The steps of a call are its reads and writes of the table;    *)
(* between them any other call may run.  The session store answers (the    *)
(* degraded mode that serves cached copies is not modelled), so a call     *)
(* reads the table and never the replica's cache.                          *)
(*                                                                         *)
(* Emission is here as far as it reads and writes the document: the saves  *)
(* of the issue numbers found so far, which change nothing that is kept,   *)
(* are one.  The numbers, the emit lease and GitHub are in PlanEmit; with  *)
(* no lease two emits may overlap here, as they may once a lease expires.  *)
(***************************************************************************)
EXTENDS SessionDoc, Naturals, FiniteSets

CONSTANTS
  Sessions,    \* ids the shared counter hands out, each once
  Calls,       \* calls that may be in progress
  Ops,         \* the operations an instance exercises
  MaxVersion,  \* bound on the version a call may start from
  Idle         \* a call that is not in progress

AllOps == {"ingest", "regate", "approve", "waive", "reject", "discard", "sweep",
           "update", "apply", "process", "delete", "emit", "contract", "record"}

Steps == {"first", "mirrorFirst", "act", "mirrorAct", "finish", "mirror"}

CallRecord == [op : AllOps, job : Sessions, ver : Nat, doc : Doc, pc : Steps]

ASSUME PlanSessionsAssumption ==
  /\ Ops \subseteq AllOps
  /\ MaxVersion \in Nat
  /\ Idle \notin CallRecord

VARIABLES
  table,    \* plan_sessions: [version, doc] of every stored id
  minted,   \* ids handed out so far
  call,     \* what each call is doing
  events    \* completion events sent: pairs of an id and a terminal status
sessionVars == <<table, minted, call, events>>

Stored == DOMAIN table

\* Operations that save the recomputed readiness before their own change: some
\* ask for a review, an emit goes on without one.
Gates      == {"regate", "approve", "waive"}
Refreshing == Gates \cup {"emit", "contract"}

SessionsInit ==
  /\ table = [j \in {} |-> FreshDoc]
  /\ minted = {}
  /\ call = [c \in Calls |-> Idle]
  /\ events = {}

Busy(c) == call[c] # Idle
At(c, pc) == Busy(c) /\ call[c].pc = pc
Doing(c, op, pc) == At(c, pc) /\ call[c].op = op

End(c) == call' = [call EXCEPT ![c] = Idle]

Put(j, version, doc) ==
  [k \in Stored \cup {j} |-> IF k = j THEN [version |-> version, doc |-> doc]
                                      ELSE table[k]]

------------------------------------------------------------------------------
(* _save: the compare-and-set *)

\* The row is still at the version this call's copy was read at.
Current(c) == call[c].job \in Stored /\ table[call[c].job].version = call[c].ver

\* Mutants of Save: the version is not bumped; a row that is gone is inserted
\* again; the version is not compared.
SaveNoBump(c, doc, pc) ==
  IF Current(c)
  THEN /\ table' = Put(call[c].job, call[c].ver, doc)
       /\ call' = [call EXCEPT ![c].doc = doc, ![c].pc = pc]
  ELSE End(c) /\ UNCHANGED table

SaveReinserts(c, doc, pc) ==
  IF Current(c) \/ call[c].job \notin Stored
  THEN /\ table' = Put(call[c].job, call[c].ver + 1, doc)
       /\ call' = [call EXCEPT ![c].ver = @ + 1, ![c].doc = doc, ![c].pc = pc]
  ELSE End(c) /\ UNCHANGED table

SaveBlindly(c, doc, pc) ==
  /\ table' = Put(call[c].job, call[c].ver + 1, doc)
  /\ call' = [call EXCEPT ![c].ver = @ + 1, ![c].doc = doc, ![c].pc = pc]

\* _save(session) with the copy changed to doc: committed, or refused with
\* StaleSessionError, which ends the call.  Nothing else is written then.
Save(c, doc, pc) ==
  IF Current(c)
  THEN /\ table' = Put(call[c].job, call[c].ver + 1, doc)
       /\ call' = [call EXCEPT ![c].ver = @ + 1, ![c].doc = doc, ![c].pc = pc]
  ELSE /\ End(c)
       /\ UNCHANGED table

\* _mirror: the job_states row follows the save, in a transaction of its own.
Mirrored(c) ==
  \/ /\ At(c, "mirrorFirst") /\ call[c].op # "regate"
     /\ call' = [call EXCEPT ![c].pc = "act"]
  \/ /\ At(c, "mirrorAct")
     /\ call' = [call EXCEPT ![c].pc = "finish"]
  \/ /\ At(c, "mirror") \/ Doing(c, "regate", "mirrorFirst")
     /\ End(c)

Mirror(c) == Mirrored(c) /\ UNCHANGED <<table, minted, events>>

------------------------------------------------------------------------------
(* intake *)

\* next_seq hands the id out; _store inserts version 1 under it.
Ingest(c, j) ==
  /\ call[c] = Idle /\ "ingest" \in Ops
  /\ j \notin minted
  /\ minted' = minted \cup {j}
  /\ table' = Put(j, 1, FreshDoc)
  /\ call' = [call EXCEPT ![c] = [op |-> "ingest", job |-> j, ver |-> 1,
                                  doc |-> FreshDoc, pc |-> "mirrorFirst"]]
  /\ UNCHANGED events

\* The second save of the intake puts tenant, org and origin on the session.
StampIntake(c) ==
  /\ Doing(c, "ingest", "act")
  /\ Save(c, Stamped(call[c].doc), "mirror")
  /\ UNCHANGED <<minted, events>>

------------------------------------------------------------------------------
(* get: the private copy *)

\* The conditions an operation refuses on before it changes anything.
Admissible(op, d) ==
  CASE op \in Gates \cup {"reject"}    -> Reviewed(d)
    [] op \in {"emit", "record"}       -> d.planned
    [] op = "contract" -> Contractable(d)
    [] op = "update"  -> Editable(d)
    [] op = "apply"   -> d.planned
    [] op = "discard" -> d.status # "discarded"
    [] op = "sweep"   -> d.status = "ingested"
    [] op = "delete"  -> Deletable(d)
    [] op = "process" -> TRUE
    [] OTHER          -> FALSE

\* Does the call read again, or save, before it acts?
Prepares(op, d) == op \in {"sweep", "apply"} \/ (op \in Refreshing /\ Reviewed(d))

Load(c, j, op) ==
  /\ call[c] = Idle /\ op \in Ops
  /\ j \in Stored
  /\ table[j].version < MaxVersion
  /\ Admissible(op, table[j].doc)
  /\ call' = [call EXCEPT ![c] =
       [op |-> op, job |-> j, ver |-> table[j].version, doc |-> table[j].doc,
        pc |-> IF Prepares(op, table[j].doc) THEN "first" ELSE "act"]]
  /\ UNCHANGED <<table, minted, events>>

------------------------------------------------------------------------------
(* the operations *)

\* _refresh_readiness saves the recomputed verdicts before anything is decided.
RefreshReadiness(c) ==
  /\ At(c, "first") /\ call[c].op \in Refreshing
  /\ \E d \in Refreshed(call[c].doc) : Save(c, d, "mirrorFirst")
  /\ UNCHANGED <<minted, events>>

Approve(c) ==
  /\ Doing(c, "approve", "act")
  /\ IF Approvable(call[c].doc)
     THEN Save(c, Approved(call[c].doc), "mirror")
     ELSE End(c) /\ UNCHANGED table
  /\ UNCHANGED <<minted, events>>

\* WaiverError, for a check that does not fail or may not be waived, or saved.
Waive(c) ==
  /\ Doing(c, "waive", "act")
  /\ \/ End(c) /\ UNCHANGED table
     \/ \E d \in Waived(call[c].doc) : Save(c, d, "mirror")
  /\ UNCHANGED <<minted, events>>

\* notify_completion runs before the save, whatever the save then answers.
Reject(c) ==
  /\ Doing(c, "reject", "act")
  /\ events' = events \cup {<<call[c].job, "rejected">>}
  /\ Save(c, Rejected(call[c].doc), "mirror")
  /\ UNCHANGED minted

\* The sweep has read an ingested session; discard() reads it once more, and
\* only asks that it is not discarded already.
ReloadForSweep(c) ==
  /\ Doing(c, "sweep", "first")
  /\ LET j == call[c].job IN
       IF j \in Stored /\ table[j].doc.status # "discarded"
       THEN call' = [call EXCEPT ![c].ver = table[j].version,
                                 ![c].doc = table[j].doc, ![c].pc = "act"]
       ELSE End(c)
  /\ UNCHANGED <<table, minted, events>>

\* discard, by a human or by the stale-ingest sweep.
Discard(c) ==
  /\ At(c, "act") /\ call[c].op \in {"discard", "sweep"}
  /\ events' = events \cup {<<call[c].job, "discarded">>}
  /\ Save(c, Discarded(call[c].doc), "mirror")
  /\ UNCHANGED minted

UpdatePlan(c, e) ==
  /\ Doing(c, "update", "act")
  /\ Save(c, Rewritten(call[c].doc, {e}), "mirror")
  /\ UNCHANGED <<minted, events>>

\* apply_suggestions computes the new text from the copy it read, then calls
\* update_plan, which reads the session again: the version and every other
\* field are those of the second read.
ReloadForApply(c) ==
  /\ Doing(c, "apply", "first")
  /\ LET j == call[c].job IN
       IF j \in Stored /\ Editable(table[j].doc)
       THEN call' = [call EXCEPT ![c].ver = table[j].version,
                                 ![c].doc = [table[j].doc EXCEPT !.text = call[c].doc.text],
                                 ![c].pc = "act"]
       ELSE End(c)
  /\ UNCHANGED <<table, minted, events>>

ApplySuggestion(c, e) ==
  /\ Doing(c, "apply", "act")
  /\ Save(c, Rewritten(call[c].doc, call[c].doc.text \cup {e}), "mirror")
  /\ UNCHANGED <<minted, events>>

\* The pipeline finished: results and status are assigned after its last call
\* that can raise, and saved.
ProcessDone(c) ==
  /\ Doing(c, "process", "act")
  /\ \E d \in Processed(call[c].doc) : Save(c, d, "mirror")
  /\ UNCHANGED <<minted, events>>

\* The pipeline raised: the record of an emitted or discarded session stays.
ProcessFailed(c) ==
  /\ Doing(c, "process", "act")
  /\ IF call[c].doc.status \in KeptOnFailure
     THEN End(c) /\ UNCHANGED table
     ELSE Save(c, Failed(call[c].doc), "mirror")
  /\ UNCHANGED <<minted, events>>

\* The epic exists: _save_progress.  A refusal is logged and the emit goes on.
CreateIssues(c) ==
  /\ Doing(c, "emit", "act") /\ Issuable(call[c].doc)
  /\ IF Current(c)
     THEN Save(c, call[c].doc, "mirrorAct")
     ELSE call' = [call EXCEPT ![c].pc = "finish"] /\ UNCHANGED table
  /\ UNCHANGED <<minted, events>>

\* The blocked contract is refused; otherwise it is posted.
Posting(c) == Doing(c, "contract", "act") /\ ~Blocked(call[c].doc)

RefuseContract(c) ==
  /\ Doing(c, "contract", "act") /\ Blocked(call[c].doc)
  /\ End(c)
  /\ UNCHANGED <<table, minted, events>>

\* The result of a dry run, of a refused, failed or partial emit, of a rejected
\* contract, or an access approval: saved, and nothing that is kept changes.
SaveResult(c) ==
  /\ \/ Doing(c, "record", "act") \/ Posting(c)
     \/ Doing(c, "emit", "act") \/ Doing(c, "emit", "finish")
  /\ Save(c, call[c].doc, "mirror")
  /\ UNCHANGED <<minted, events>>

\* All issues exist, or the contract is accepted: the event precedes the save.
SaveEmitted(c) ==
  /\ Doing(c, "emit", "finish") \/ Posting(c)
  /\ events' = events \cup {<<call[c].job, "emitted">>}
  /\ Save(c, Emitted(call[c].doc), "mirror")
  /\ UNCHANGED minted

\* delete_session removes the row without a compare-and-set.
Delete(c) ==
  /\ Doing(c, "delete", "act")
  /\ table' = [j \in Stored \ {call[c].job} |-> table[j]]
  /\ End(c)
  /\ UNCHANGED <<minted, events>>

------------------------------------------------------------------------------
Operation(c) ==
  \/ StampIntake(c) \/ RefreshReadiness(c) \/ Approve(c) \/ Waive(c)
  \/ Reject(c) \/ ReloadForSweep(c) \/ Discard(c)
  \/ \E e \in Edits : UpdatePlan(c, e) \/ ApplySuggestion(c, e)
  \/ ReloadForApply(c)
  \/ ProcessDone(c) \/ ProcessFailed(c)
  \/ CreateIssues(c) \/ RefuseContract(c) \/ SaveResult(c) \/ SaveEmitted(c)
  \/ Delete(c)

SessionsNext ==
  \E c \in Calls :
    \/ \E j \in Sessions : Ingest(c, j)
    \/ \E j \in Sessions, op \in Ops : Load(c, j, op)
    \/ Operation(c)
    \/ Mirror(c)

SessionsSpec == SessionsInit /\ [][SessionsNext]_sessionVars

------------------------------------------------------------------------------
(* Properties *)

\* Every variable has its type.
SessionsTypeOK ==
  /\ Stored \subseteq minted /\ minted \subseteq Sessions
  /\ table \in [Stored -> [version : Nat, doc : Doc]]
  /\ call \in [Calls -> CallRecord \cup {Idle}]
  /\ events \subseteq Sessions \X Statuses

\* StaleSessionError: "saving it would silently undo that write".  A copy whose
\* version still matches the row is the row: no other call's committed change
\* is missing from what the call is about to write.  The one exception is the
\* text that apply_suggestions took from an earlier read.
CopyIsCurrent ==
  \A c \in Calls :
    Busy(c) /\ Current(c) /\ ~Doing(c, "apply", "act") =>
      table[call[c].job].doc = call[c].doc

\* update_plan: editing ends the sign-off.  Whatever edits, approvals and
\* pipeline runs race, a stored approval attests to the text that is stored,
\* and an approved session, or an emitted one of a hard tier that has a review,
\* has one that passed its gates and was approved.
ApprovalAttestsText ==
  \A j \in Stored : LET d == table[j].doc IN
    /\ Reviewed(d) => d.review.of = d.text
    /\ d.status = "approved" => Reviewed(d) /\ d.review.approved /\ d.review.passed
    /\ d.status = "emitted" /\ HardTier /\ Reviewed(d) => d.review.approved
    /\ Reviewed(d) /\ d.review.approved => d.review.passed

\* service.py: a hard session is "emitted" only "after emit_to_github enforced
\* ready_to_emit (human approval recorded)".  An edit ends the review, and an emit
\* without a review is not refused.
EmittedIsGoverned ==
  \A j \in Stored : LET d == table[j].doc IN
    d.status = "emitted" /\ HardTier => Reviewed(d) /\ d.review.approved

\* A session deleted on one replica is not written back by a call that had
\* read it before (#828).
DeletedStaysDeleted ==
  [][\A j \in minted : j \notin Stored => j \notin Stored']_sessionVars

\* The operations are atomic: every behaviour of the table is one of a table
\* on which each operation is a single step on the current document.
Atomic == INSTANCE AtomicSessions
            WITH docs <- [j \in Stored |-> table[j].doc], used <- minted
AtomicSpec == Atomic!Spec
==============================================================================
