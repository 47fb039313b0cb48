------------------------------ MODULE AuditChain ------------------------------
(***************************************************************************)
(* The hash chain of the audit log on Postgres: requests that append to    *)
(* it, GDPR erasures that rewrite it and the retention job that prunes it. *)
(*                                                                         *)
(* Source, under apps/web-server/server: services/audit_chain.py,          *)
(* services/audit_service.py, services/gdpr.py, jobs/audit_retention.py;   *)
(* the callers are routes/plan_pipeline.py, mcp_stdio/router.py,           *)
(* routes/project_authz.py and rmux/bridge.py.                             *)
(*                                                                         *)
(* A process is a request on any replica, with a transaction of its own:   *)
(* a step is one statement.  The advisory lock is released when the        *)
(* transaction ends, or rolls back to the savepoint in which it was taken. *)
(* A hash is the sequence of the contents it covers, so different contents *)
(* have different hashes.  A content is the row's id and user; the columns *)
(* that nothing changes are left out.  Retention dates are read from the   *)
(* clock under the lock: with one clock for all replicas what has expired  *)
(* is always the oldest part of the log.                                   *)
(***************************************************************************)
EXTENDS Naturals, Sequences, FiniteSets

CONSTANTS
  Requests,  \* requests that record an event each
  Erasers,   \* requests that erase a user
  Users,     \* their users
  NoUser,    \* the user of an event of the system
  Nobody,    \* holds the lock when it is free
  MaxFaults  \* bound on statements that fail and processes that die

ASSUME AuditAssumption ==
  /\ NoUser \notin Users
  /\ Nobody \notin Requests \cup Erasers
  /\ Requests \cap Erasers = {}
  /\ MaxFaults \in Nat

Procs == Requests \cup Erasers

\* hidden: the user is replaced by its hash.
Content == [id : Requests, user : Users \cup {NoUser}, hidden : BOOLEAN]
Row     == [content : Content, seq : Nat \ {0}, prev : Seq(Content)]

VARIABLES
  log,      \* the committed rows of audit_logs, by chain_seq
  lock,     \* who holds the advisory lock
  pc,       \* where each process stands
  route,    \* how the request of each event treats its transaction
  subject,  \* the user an event names, or an eraser erases
  row,      \* the row of each request, once it is made
  plan,     \* the pending updates of each eraser
  erased,   \* users with gdpr_erased_at
  fk,       \* the database enforces audit_logs.user_id -> users.id
  faults    \* faults so far
auditVars == <<log, lock, pc, route, subject, row, plan, erased, fk, faults>>

NoPlan == [own |-> {}, rows |-> <<>>, dirty |-> {}]

\* The migrations create the foreign key; the databases of the audit tests do
\* not enforce it.
AuditInit ==
  /\ log = <<>>
  /\ lock = Nobody
  /\ pc = [p \in Procs |-> "idle"]
  /\ route = [w \in Requests |-> "commits"]
  /\ subject = [p \in Procs |-> NoUser]
  /\ row = [w \in Requests |-> {}]
  /\ plan = [e \in Erasers |-> NoPlan]
  /\ erased = {}
  /\ fk \in BOOLEAN
  /\ faults = 0

------------------------------------------------------------------------------
(* The chain *)

Genesis == <<>>

Hash(prev, content) == Append(prev, content)

\* verify_chain, with the first link it should find.
Verifies(rows, genesis) ==
  \A i \in 1..Len(rows) :
    rows[i].prev = IF i = 1 THEN genesis
                   ELSE Hash(rows[i - 1].prev, rows[i - 1].content)

\* Mutant: an empty log starts at the number of its head.
NextRowFromZero(rows, content) ==
  [content |-> content, seq |-> Len(rows),
   prev |-> IF rows = <<>> THEN Genesis
            ELSE Hash(rows[Len(rows)].prev, rows[Len(rows)].content)]

\* What log_audit_event inserts after reading the head.
NextRow(rows, content) ==
  IF rows = <<>> THEN [content |-> content, seq |-> 1, prev |-> Genesis]
  ELSE LET head == rows[Len(rows)]
       IN [content |-> content, seq |-> head.seq + 1,
           prev |-> Hash(head.prev, head.content)]

Ids(rows) == {rows[i].content.id : i \in 1..Len(rows)}

OwnRows(rows, user) ==
  {i \in 1..Len(rows) : rows[i].content.user = user /\ ~rows[i].content.hidden}

Anonymized(rows, own) ==
  [i \in 1..Len(rows) |-> IF rows[i].content.id \in own
                          THEN [rows[i] EXCEPT !.content.hidden = TRUE]
                          ELSE rows[i]]

\* Mutant: a row is linked to its predecessor as that was stored.
RechainedNeighbours(rows) ==
  [i \in 1..Len(rows) |->
     [rows[i] EXCEPT !.prev = IF i = 1 THEN Genesis
                              ELSE Hash(rows[i - 1].prev, rows[i - 1].content)]]

\* The walk of erase_user over all rows.  As a hash is the sequence of what it
\* covers, each row's link is the contents of the rows before it.
Rechained(rows) ==
  [i \in 1..Len(rows) |->
     [rows[i] EXCEPT !.prev = [k \in 1..(i - 1) |-> rows[k].content]]]

------------------------------------------------------------------------------
(* log_audit_event *)

Fault == faults < MaxFaults /\ faults' = faults + 1

Released(p) == IF lock = p THEN Nobody ELSE lock


Goto(p, where) == pc' = [pc EXCEPT ![p] = where]

\* What a request did is done: its event is to be recorded.  A "closes" route,
\* attach or detach of a console, leaves its transaction to get_db, which closes
\* it; delete_session and log_audit_event_bg commit.
Act(w) ==
  /\ pc[w] = "idle"
  /\ \E r \in {"commits", "closes"}, u \in Users \cup {NoUser} :
       /\ route' = [route EXCEPT ![w] = r]
       /\ subject' = [subject EXCEPT ![w] = u]
  /\ Goto(w, "lock")
  /\ UNCHANGED <<log, lock, row, plan, erased, fk, faults>>

\* Mutant: erasures do not wait for writers.
LockWritersOnly(p) ==
  /\ pc[p] = "lock"
  /\ IF p \in Erasers THEN UNCHANGED lock ELSE lock = Nobody /\ lock' = p
  /\ Goto(p, IF p \in Requests THEN "read" ELSE "own")
  /\ UNCHANGED <<log, route, subject, row, plan, erased, fk, faults>>

\* Mutant: nobody waits.
LockNobody(p) ==
  /\ pc[p] = "lock"
  /\ Goto(p, IF p \in Requests THEN "read" ELSE "own")
  /\ UNCHANGED <<log, lock, route, subject, row, plan, erased, fk, faults>>

\* lock_audit_chain
LockChain(p) ==
  /\ pc[p] = "lock"
  /\ lock = Nobody
  /\ lock' = p
  /\ Goto(p, IF p \in Requests THEN "read" ELSE "own")
  /\ UNCHANGED <<log, route, subject, row, plan, erased, fk, faults>>

ReadHead(w) ==
  /\ pc[w] = "read"
  /\ row' = [row EXCEPT ![w] =
       {NextRow(log, [id |-> w, user |-> subject[w], hidden |-> FALSE])}]
  /\ Goto(w, "insert")
  /\ UNCHANGED <<log, lock, route, subject, plan, erased, fk, faults>>

\* The unique index on chain_seq: an insert waits for the transaction that
\* inserted the same number, and fails when that has committed.
Pending(w) == IF pc[w] = "finish" THEN row[w] ELSE {}

Insert(w) ==
  /\ pc[w] = "insert"
  /\ \E r \in row[w] :
       /\ \A v \in Requests \ {w} : \A s \in Pending(v) : s.seq # r.seq
       /\ IF \E i \in 1..Len(log) : log[i].seq = r.seq
          THEN row' = [row EXCEPT ![w] = {}] /\ lock' = Released(w)
          ELSE UNCHANGED <<row, lock>>
  /\ Goto(w, "finish")
  /\ UNCHANGED <<log, route, subject, plan, erased, fk, faults>>

\* Mutant: the caller goes on in the failed transaction, with the lock.
RefusedInPlace(w) ==
  /\ pc[w] \in {"lock", "read", "insert"}
  /\ Fault
  /\ row' = [row EXCEPT ![w] = {}]
  /\ Goto(w, "lock")
  /\ UNCHANGED <<log, lock, route, subject, plan, erased, fk>>

\* A statement fails: the savepoint is rolled back, the error is swallowed and
\* the caller goes on.
Refuse(w) ==
  /\ pc[w] \in {"lock", "read", "insert"}
  /\ Fault
  /\ row' = [row EXCEPT ![w] = {}]
  /\ lock' = Released(w)
  /\ Goto(w, "finish")
  /\ UNCHANGED <<log, route, subject, plan, erased, fk>>

Commit(w) ==
  /\ pc[w] = "finish" /\ route[w] = "commits"
  /\ log' = IF row[w] = {} THEN log ELSE Append(log, CHOOSE r \in row[w] : TRUE)
  /\ lock' = Released(w)
  /\ Goto(w, "done")
  /\ UNCHANGED <<route, subject, row, plan, erased, fk, faults>>

Close(w) ==
  /\ pc[w] = "finish" /\ route[w] = "closes"
  /\ row' = [row EXCEPT ![w] = {}]
  /\ lock' = Released(w)
  /\ Goto(w, "done")
  /\ UNCHANGED <<log, route, subject, plan, erased, fk, faults>>

------------------------------------------------------------------------------
(* erase_user *)

\* A user who is erased already is left alone.
Erase(e) ==
  /\ pc[e] = "idle"
  /\ \E u \in Users \ erased : subject' = [subject EXCEPT ![e] = u]
  /\ Goto(e, "lock")
  /\ UNCHANGED <<log, lock, route, row, plan, erased, fk, faults>>

RollBack(e) ==
  /\ plan' = [plan EXCEPT ![e] = NoPlan]
  /\ lock' = Released(e)
  /\ Goto(e, "done")

\* The user's rows are loaded and hashed; the next query flushes them, which
\* the foreign key refuses: no user has the hash as its id.
AnonymizeOwn(e) ==
  /\ pc[e] = "own"
  /\ LET own == {log[i].content.id : i \in OwnRows(log, subject[e])}
     IN IF fk /\ own # {} THEN RollBack(e)
        ELSE /\ plan' = [plan EXCEPT ![e].own = own]
             /\ Goto(e, "rechain")
             /\ UNCHANGED lock
  /\ UNCHANGED <<log, route, subject, row, erased, fk, faults>>

\* Only rows whose link changes will be written.
Rechain(e) ==
  /\ pc[e] = "rechain"
  /\ LET rows == Rechained(Anonymized(log, plan[e].own))
     IN plan' = [plan EXCEPT ![e].rows = rows,
          ![e].dirty = {log[i].content.id : i \in {j \in 1..Len(log) : rows[j].prev # log[j].prev}}]
  /\ Goto(e, "commit")
  /\ UNCHANGED <<log, lock, route, subject, row, erased, fk, faults>>

\* The log after the updates: rows that the plan does not have are as they were.
Updated(rows, new) ==
  [i \in 1..Len(rows) |->
     LET same == {j \in 1..Len(new) : new[j].content.id = rows[i].content.id}
     IN IF same = {} THEN rows[i] ELSE new[CHOOSE j \in same : TRUE]]

\* A row to update is gone: SQLAlchemy raises and everything is rolled back.
EraseCommit(e) ==
  /\ pc[e] = "commit"
  /\ IF plan[e].dirty \subseteq Ids(log)
     THEN /\ log' = Updated(log, plan[e].rows)
          /\ erased' = erased \cup {subject[e]}
          /\ plan' = [plan EXCEPT ![e] = NoPlan]
          /\ lock' = Released(e)
          /\ Goto(e, "done")
     ELSE RollBack(e) /\ UNCHANGED <<log, erased>>
  /\ UNCHANGED <<route, subject, row, fk, faults>>

------------------------------------------------------------------------------
(* The retention job and faults *)

\* run_retention: it takes no lock, but waits for rows an eraser has updated.
Retain(k) ==
  /\ k \in 1..Len(log)
  /\ \A e \in Erasers : plan[e].own \cap Ids(SubSeq(log, 1, k)) = {}
  /\ log' = SubSeq(log, k + 1, Len(log))
  /\ UNCHANGED <<lock, pc, route, subject, row, plan, erased, fk, faults>>

\* The process dies, or its commit fails: what it did not commit is rolled back.
DieRequest(w) ==
  /\ pc[w] \notin {"idle", "done"} /\ Fault
  /\ row' = [row EXCEPT ![w] = {}]
  /\ lock' = Released(w)
  /\ Goto(w, "done")
  /\ UNCHANGED <<log, route, subject, plan, erased, fk>>

DieEraser(e) ==
  /\ pc[e] \notin {"idle", "done"} /\ Fault
  /\ RollBack(e)
  /\ UNCHANGED <<log, route, subject, row, erased, fk>>

RequestStep(w) == LockChain(w) \/ ReadHead(w) \/ Insert(w) \/ Commit(w) \/ Close(w)
EraserStep(e)  == LockChain(e) \/ AnonymizeOwn(e) \/ Rechain(e) \/ EraseCommit(e)

AuditNext ==
  \/ \E w \in Requests : Act(w) \/ RequestStep(w) \/ Refuse(w) \/ DieRequest(w)
  \/ \E e \in Erasers : Erase(e) \/ EraserStep(e) \/ DieEraser(e)
  \/ \E k \in 1..Len(log) : Retain(k)

\* Postgres answers a statement that need not wait, and grants the lock to those
\* who wait for it in turn.
AuditSpec == AuditInit /\ [][AuditNext]_auditVars
FairAuditSpec ==
  /\ AuditSpec
  /\ \A w \in Requests : WF_auditVars(RequestStep(w))
  /\ \A e \in Erasers : WF_auditVars(EraserStep(e))

------------------------------------------------------------------------------
(* Properties *)

AuditTypeOK ==
  /\ log \in Seq(Row)
  /\ lock \in Procs \cup {Nobody}
  /\ pc \in [Procs -> {"idle", "lock", "read", "insert", "finish",
                       "own", "rechain", "commit", "done"}]
  /\ route \in [Requests -> {"commits", "closes"}]
  /\ subject \in [Procs -> Users \cup {NoUser}]
  /\ row \in [Requests -> SUBSET Row]
  /\ plan \in [Erasers -> [own : SUBSET Requests, rows : Seq(Row), dirty : SUBSET Requests]]
  /\ erased \subseteq Users
  /\ fk \in BOOLEAN
  /\ faults \in 0..MaxFaults

\* Whatever writers, erasures and pruning interleave, every row of the log that
\* survives links to the row before it: verify_chain (audit_chain.py) accepts
\* the log, given the first link as its genesis.
LogVerifies == log # <<>> => Verifies(log, log[1].prev)

\* An event whose route commits is lost only by a fault, never to another
\* writer: the lock is held from the read of the head to the commit, so the
\* unique index never refuses a row (audit_service.py, #806).
Lost == {w \in Requests : pc[w] = "done" /\ route[w] = "commits" /\ row[w] = {}}

OnlyFaultsLoseEvents == Cardinality(Lost) <= faults

\* The commit that marks a user erased leaves no row that names them, also when
\* events of theirs are being recorded meanwhile (gdpr.py).
ErasureIsComplete ==
  [][\A u \in erased' \ erased : OwnRows(log', u) = {}]_auditVars

\* Every request and every erasure ends: whoever holds the lock lets it go, also
\* when a statement of theirs fails, since the savepoint or the transaction that
\* took it is rolled back.
AuditEnds == \A p \in Procs : pc[p] = "lock" ~> pc[p] = "done"
==============================================================================
