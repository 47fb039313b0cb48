--------------------------- MODULE AuditChainProofs ---------------------------
(***************************************************************************)
(* What holds of the audit log for any number of requests, erasures, users *)
(* and faults: its types; that its rows link up; that no event is lost to  *)
(* another writer; and that an erasure leaves no row that names the user.  *)
(* The last three rest on the lock: between the reads and the commit of    *)
(* its holder nothing but the retention job changes the log, and that      *)
(* takes rows from the front.                                              *)
(***************************************************************************)
EXTENDS AuditChain, SequenceTheorems, FiniteSetTheorems, TLAPS

(***************************************************************************)
(* Sequences given as functions, and what the operators make of the log.   *)
(***************************************************************************)

LEMMA FunctionSeq ==
  ASSUME NEW S, NEW n \in Nat, NEW f \in [1..n -> S]
  PROVE  f \in Seq(S) /\ Len(f) = n
BY SeqDef

LEMMA RowOf ==
  ASSUME NEW rows \in Seq(Row), NEW i \in 1..Len(rows)
  PROVE  /\ rows[i] \in Row
         /\ rows[i].content \in Content
         /\ rows[i].seq \in Nat \ {0}
         /\ rows[i].prev \in Seq(Content)
<1>1. rows[i] \in Row
  BY ElementOfSeq
<1> QED BY <1>1 DEF Row

LEMMA HashType ==
  ASSUME NEW prev \in Seq(Content), NEW c \in Content
  PROVE  Hash(prev, c) \in Seq(Content)
BY AppendProperties DEF Hash

LEMMA NextRowResult ==
  ASSUME NEW rows \in Seq(Row), NEW c \in Content
  PROVE  /\ NextRow(rows, c) \in Row
         /\ NextRow(rows, c).content = c
         /\ rows # <<>> =>
              /\ NextRow(rows, c).prev = Hash(rows[Len(rows)].prev, rows[Len(rows)].content)
              /\ NextRow(rows, c).seq = rows[Len(rows)].seq + 1
<1>1. CASE rows = <<>>
  <2>1. Genesis \in Seq(Content)
    BY EmptySeq DEF Genesis
  <2> QED BY <1>1, <2>1 DEF NextRow, Row
<1>2. CASE rows # <<>>
  <2> DEFINE head == rows[Len(rows)]
  <2>1. head \in Row
    BY <1>2, EmptySeq, ElementOfSeq
  <2>2. head.prev \in Seq(Content) /\ head.content \in Content /\ head.seq \in Nat \ {0}
    BY <2>1 DEF Row
  <2>3. Hash(head.prev, head.content) \in Seq(Content)
    BY <2>2, HashType
  <2>4. NextRow(rows, c) = [content |-> c, seq |-> head.seq + 1, prev |-> Hash(head.prev, head.content)]
    BY <1>2 DEF NextRow
  <2>5. head.seq + 1 \in Nat \ {0}
    BY <2>2
  <2> HIDE DEF head
  <2>6. NextRow(rows, c) \in Row
    BY <2>3, <2>4, <2>5 DEF Row
  <2> QED BY <2>4, <2>6 DEF head
<1> QED BY <1>1, <1>2

(* Anonymizing touches nothing but the names of the rows it is given. *)
LEMMA AnonymizedResult ==
  ASSUME NEW rows \in Seq(Row), NEW own
  PROVE  /\ Anonymized(rows, own) \in Seq(Row)
         /\ Len(Anonymized(rows, own)) = Len(rows)
         /\ \A i \in 1..Len(rows) :
              /\ Anonymized(rows, own)[i].content.id = rows[i].content.id
              /\ Anonymized(rows, own)[i].content.user = rows[i].content.user
              /\ Anonymized(rows, own)[i].seq = rows[i].seq
              /\ Anonymized(rows, own)[i].content.hidden
                   = (rows[i].content.hidden \/ rows[i].content.id \in own)
<1> DEFINE new == Anonymized(rows, own)
<1>1. Len(rows) \in Nat
  BY LenProperties
<1>2. ASSUME NEW i \in 1..Len(rows)
      PROVE  /\ new[i] \in Row
             /\ new[i].content.id = rows[i].content.id
             /\ new[i].content.user = rows[i].content.user
             /\ new[i].seq = rows[i].seq
             /\ new[i].content.hidden = (rows[i].content.hidden \/ rows[i].content.id \in own)
  <2>1. rows[i] \in Row /\ rows[i].content \in Content
    BY RowOf
  <2>2. CASE rows[i].content.id \in own
    <3>1. new[i] = [rows[i] EXCEPT !.content = [rows[i].content EXCEPT !.hidden = TRUE]]
      BY <2>2 DEF Anonymized
    <3> DEFINE c == [rows[i].content EXCEPT !.hidden = TRUE]
    <3>2. /\ c \in Content /\ c.id = rows[i].content.id /\ c.user = rows[i].content.user
          /\ c.hidden = TRUE
      BY <2>1 DEF Content
    <3> HIDE DEF c
    <3>3. new[i] = [rows[i] EXCEPT !.content = c]
      BY <3>1 DEF c
    <3> HIDE DEF new
    <3>4. new[i] \in Row /\ new[i].content = c /\ new[i].seq = rows[i].seq
      BY <2>1, <3>2, <3>3 DEF Row
    <3> QED BY <2>2, <3>2, <3>4
  <2>3. CASE rows[i].content.id \notin own
    <3>1. new[i] = rows[i]
      BY <2>3 DEF Anonymized
    <3>2. rows[i].content.hidden \in BOOLEAN
      BY <2>1 DEF Content
    <3> QED BY <2>1, <2>3, <3>1, <3>2
  <2> QED BY <2>2, <2>3
<1>3. new \in [1..Len(rows) -> Row]
  <2>1. new = [i \in 1..Len(rows) |-> new[i]]
    BY DEF Anonymized
  <2> HIDE DEF new
  <2> QED BY <1>2, <2>1
<1> HIDE DEF new
<1>4. new \in Seq(Row) /\ Len(new) = Len(rows)
  BY <1>1, <1>3, FunctionSeq
<1> QED BY <1>2, <1>4 DEF new

(* Re-chaining gives every row the contents before it as its link. *)
LEMMA RechainedResult ==
  ASSUME NEW rows \in Seq(Row)
  PROVE  /\ Rechained(rows) \in Seq(Row)
         /\ Len(Rechained(rows)) = Len(rows)
         /\ \A i \in 1..Len(rows) :
              /\ Rechained(rows)[i].content = rows[i].content
              /\ Rechained(rows)[i].seq = rows[i].seq
              /\ Rechained(rows)[i].prev = [k \in 1..(i - 1) |-> rows[k].content]
<1> DEFINE new == Rechained(rows)
<1>1. Len(rows) \in Nat
  BY LenProperties
<1>2. ASSUME NEW i \in 1..Len(rows)
      PROVE  /\ new[i] \in Row
             /\ new[i].content = rows[i].content
             /\ new[i].seq = rows[i].seq
             /\ new[i].prev = [k \in 1..(i - 1) |-> rows[k].content]
  <2> DEFINE link == [k \in 1..(i - 1) |-> rows[k].content]
  <2>1. rows[i] \in Row
    BY ElementOfSeq
  <2>2. \A k \in 1..(i - 1) : rows[k].content \in Content
    BY <1>1, RowOf
  <2>3. link \in [1..(i - 1) -> Content]
    BY <2>2
  <2>4. new[i] = [rows[i] EXCEPT !.prev = link]
    BY DEF Rechained
  <2>5. i - 1 \in Nat
    BY <1>1
  <2> HIDE DEF link, new
  <2>6. link \in Seq(Content)
    BY <2>3, <2>5, FunctionSeq
  <2>7. new[i] \in Row /\ new[i].content = rows[i].content /\ new[i].seq = rows[i].seq /\ new[i].prev = link
    BY <2>1, <2>4, <2>6 DEF Row
  <2> QED BY <2>7 DEF link
<1>3. new \in [1..Len(rows) -> Row]
  <2>1. new = [i \in 1..Len(rows) |-> new[i]]
    BY DEF Rechained
  <2> HIDE DEF new
  <2> QED BY <1>2, <2>1
<1> HIDE DEF new
<1>4. new \in Seq(Row) /\ Len(new) = Len(rows)
  BY <1>1, <1>3, FunctionSeq
<1> QED BY <1>2, <1>4 DEF new

(* The links that re-chaining gives are those verify_chain looks for. *)
LEMMA RechainedLinks ==
  ASSUME NEW rows \in Seq(Row), NEW i \in 1..(Len(rows) - 1)
  PROVE  Rechained(rows)[i + 1].prev
           = Hash(Rechained(rows)[i].prev, Rechained(rows)[i].content)
<1> DEFINE before == [k \in 1..(i - 1) |-> rows[k].content]
<1> DEFINE upto == [k \in 1..i |-> rows[k].content]
<1>1. Len(rows) \in Nat /\ i \in 1..Len(rows) /\ i + 1 \in 1..Len(rows) /\ i \in Nat /\ i - 1 \in Nat
  BY LenProperties
<1>2. Rechained(rows)[i + 1].prev = [k \in 1..((i + 1) - 1) |-> rows[k].content]
  BY <1>1, RechainedResult
<1>3. (i + 1) - 1 = i
  BY <1>1
<1>4. Rechained(rows)[i].prev = before /\ Rechained(rows)[i].content = rows[i].content
  BY <1>1, RechainedResult
<1>5. \A k \in 1..i : rows[k].content \in Content
  BY <1>1, RowOf
<1>6. upto \in [1..i -> Content] /\ \A k \in 1..i : upto[k] = rows[k].content
  BY <1>5
<1>7. before \in [1..(i - 1) -> Content] /\ \A k \in 1..(i - 1) : before[k] = rows[k].content
  BY <1>1, <1>5
<1>8. rows[i].content \in Content
  BY <1>1, <1>5
<1>9. Rechained(rows)[i + 1].prev = upto
  BY <1>2, <1>3
<1> HIDE DEF before, upto
<1>10. upto \in Seq(Content) /\ Len(upto) = i /\ before \in Seq(Content) /\ Len(before) = i - 1
  BY <1>1, <1>6, <1>7, FunctionSeq
<1> DEFINE longer == Append(before, rows[i].content)
<1>11. /\ longer \in Seq(Content) /\ Len(longer) = i
       /\ \A k \in 1..(i - 1) : longer[k] = before[k]
       /\ longer[i] = rows[i].content
  BY <1>1, <1>8, <1>10, AppendProperties
<1> HIDE DEF longer
<1>12. \A k \in 1..i : longer[k] = upto[k]
  BY <1>1, <1>6, <1>7, <1>11
<1>13. longer = upto
  BY <1>10, <1>11, <1>12, SeqEqual
<1> QED BY <1>4, <1>9, <1>13 DEF longer, Hash

Same(rows, new, i) == {j \in 1..Len(new) : new[j].content.id = rows[i].content.id}

LEMMA UpdatedType ==
  ASSUME NEW rows \in Seq(Row), NEW new \in Seq(Row)
  PROVE  /\ Updated(rows, new) \in Seq(Row)
         /\ Len(Updated(rows, new)) = Len(rows)
<1>1. \A i \in 1..Len(rows) : Updated(rows, new)[i] =
        IF Same(rows, new, i) = {} THEN rows[i] ELSE new[CHOOSE j \in Same(rows, new, i) : TRUE]
  BY DEF Updated, Same
<1>2. ASSUME NEW i \in 1..Len(rows) PROVE Updated(rows, new)[i] \in Row
  <2>1. CASE Same(rows, new, i) = {}
    BY <1>1, <2>1, RowOf
  <2>2. CASE Same(rows, new, i) # {}
    <3>1. (CHOOSE j \in Same(rows, new, i) : TRUE) \in 1..Len(new)
      BY <2>2 DEF Same
    <3> QED BY <1>1, <2>2, <3>1, RowOf
  <2> QED BY <2>1, <2>2
<1>3. Updated(rows, new) \in [1..Len(rows) -> Row]
  <2>1. Updated(rows, new) = [i \in 1..Len(rows) |-> Updated(rows, new)[i]]
    BY DEF Updated
  <2> QED BY <1>2, <2>1
<1>4. Len(rows) \in Nat
  BY LenProperties
<1> QED BY <1>3, <1>4, FunctionSeq

(* Rows are matched by their ids: when the log is the end of what was read,  *)
(* it becomes the end of the plan.                                           *)
LEMMA UpdatedResult ==
  ASSUME NEW rows \in Seq(Row), NEW new \in Seq(Row), NEW d \in Nat,
         Len(new) = d + Len(rows),
         \A i \in 1..Len(rows) : new[d + i].content.id = rows[i].content.id,
         \A j, k \in 1..Len(new) : new[j].content.id = new[k].content.id => j = k
  PROVE  \A i \in 1..Len(rows) : Updated(rows, new)[i] = new[d + i]
<1> TAKE i \in 1..Len(rows)
<1>1. d + i \in 1..Len(new)
  BY LenProperties
<1>2. Same(rows, new, i) = {d + i}
  BY <1>1 DEF Same
<1>3. Updated(rows, new)[i] = new[CHOOSE j \in Same(rows, new, i) : TRUE]
  BY <1>2 DEF Updated, Same
<1> QED BY <1>2, <1>3

------------------------------------------------------------------------------
(***************************************************************************)
(* Types.                                                                  *)
(***************************************************************************)

\* An eraser that has begun has a user to erase.
SubjectInv == \A e \in Erasers : pc[e] # "idle" => subject[e] \in Users

LEMMA TypeInit == AuditInit => AuditTypeOK /\ SubjectInv
BY AuditAssumption, EmptySeq
   DEF AuditAssumption, AuditInit, AuditTypeOK, SubjectInv, Procs, NoPlan

LEMMA ReleasedType ==
  ASSUME AuditTypeOK, NEW p
  PROVE  Released(p) \in Procs \cup {Nobody}
BY DEF AuditTypeOK, Released

LEMMA RollBackType ==
  ASSUME AuditTypeOK, NEW e \in Erasers, RollBack(e)
  PROVE  /\ lock' \in Procs \cup {Nobody}
         /\ pc' \in [Procs -> {"idle", "lock", "read", "insert", "finish",
                               "own", "rechain", "commit", "done"}]
         /\ plan' \in [Erasers -> [own : SUBSET Requests, rows : Seq(Row), dirty : SUBSET Requests]]
<1>1. NoPlan \in [own : SUBSET Requests, rows : Seq(Row), dirty : SUBSET Requests]
  BY EmptySeq DEF NoPlan
<1>2. lock' \in Procs \cup {Nobody}
  BY ReleasedType DEF RollBack
<1> QED BY <1>1, <1>2 DEF RollBack, Goto, AuditTypeOK, Procs

LEMMA SubjectStep ==
  AuditTypeOK /\ SubjectInv /\ [AuditNext]_auditVars => SubjectInv'
<1> SUFFICES ASSUME AuditTypeOK, SubjectInv, [AuditNext]_auditVars PROVE SubjectInv'
  OBVIOUS
<1>0. /\ pc \in [Procs -> {"idle", "lock", "read", "insert", "finish",
                           "own", "rechain", "commit", "done"}]
      /\ subject \in [Procs -> Users \cup {NoUser}]
      /\ Requests \subseteq Procs /\ Erasers \subseteq Procs /\ Requests \cap Erasers = {}
  BY AuditAssumption DEF AuditTypeOK, AuditAssumption, Procs
<1>1. ASSUME NEW w \in Requests,
             Act(w) \/ RequestStep(w) \/ Refuse(w) \/ DieRequest(w)
      PROVE  SubjectInv'
  BY <1>0, <1>1 DEF SubjectInv, Act, RequestStep, LockChain, ReadHead, Insert, Commit, Close,
     Refuse, DieRequest, Goto
<1>2. ASSUME NEW e \in Erasers, Erase(e) PROVE SubjectInv'
  BY <1>0, <1>2 DEF SubjectInv, Erase, Goto
<1>3. ASSUME NEW e \in Erasers, EraserStep(e) \/ DieEraser(e) PROVE SubjectInv'
  BY <1>0, <1>3 DEF SubjectInv, EraserStep, LockChain, AnonymizeOwn, Rechain, EraseCommit,
     DieEraser, RollBack, Goto
<1>4. ASSUME NEW k \in 1..Len(log), Retain(k) PROVE SubjectInv'
  BY <1>4 DEF Retain, SubjectInv
<1>5. CASE UNCHANGED auditVars
  BY <1>5 DEF auditVars, SubjectInv
<1> QED BY <1>1, <1>2, <1>3, <1>4, <1>5 DEF AuditNext

LEMMA TypeStep ==
  AuditTypeOK /\ SubjectInv /\ [AuditNext]_auditVars => AuditTypeOK'
<1> SUFFICES ASSUME AuditTypeOK, SubjectInv, [AuditNext]_auditVars PROVE AuditTypeOK'
  OBVIOUS
<1> DEFINE Plan == [own : SUBSET Requests, rows : Seq(Row), dirty : SUBSET Requests]
<1>0. /\ log \in Seq(Row) /\ lock \in Procs \cup {Nobody}
      /\ row \in [Requests -> SUBSET Row] /\ plan \in [Erasers -> Plan]
      /\ faults \in 0..MaxFaults /\ faults \in Nat /\ MaxFaults \in Nat
      /\ Requests \subseteq Procs /\ Erasers \subseteq Procs
  BY AuditAssumption DEF AuditTypeOK, AuditAssumption, Procs
<1>1. ASSUME NEW w \in Requests, Act(w) PROVE AuditTypeOK'
  BY <1>0, <1>1 DEF Act, Goto, AuditTypeOK
<1>2. ASSUME NEW p \in Procs, LockChain(p) PROVE AuditTypeOK'
  BY <1>2 DEF LockChain, Goto, AuditTypeOK
<1>3. ASSUME NEW w \in Requests, ReadHead(w) PROVE AuditTypeOK'
  <2> DEFINE c == [id |-> w, user |-> subject[w], hidden |-> FALSE]
  <2>1. c \in Content
    BY <1>0 DEF AuditTypeOK, Content
  <2>2. NextRow(log, c) \in Row
    BY <1>0, <2>1, NextRowResult
  <2>3. row' = [row EXCEPT ![w] = {NextRow(log, c)}]
    BY <1>3 DEF ReadHead
  <2> HIDE DEF c
  <2>4. row' \in [Requests -> SUBSET Row]
    BY <1>0, <2>2, <2>3
  <2> QED BY <1>0, <1>3, <2>4 DEF ReadHead, Goto, AuditTypeOK
<1>4. ASSUME NEW w \in Requests, Insert(w) PROVE AuditTypeOK'
  <2>1. Released(w) \in Procs \cup {Nobody}
    BY ReleasedType
  <2>2. row' \in [Requests -> SUBSET Row] /\ lock' \in Procs \cup {Nobody}
    BY <1>0, <1>4, <2>1 DEF Insert
  <2> QED BY <1>0, <1>4, <2>2 DEF Insert, Goto, AuditTypeOK
<1>5. ASSUME NEW w \in Requests, Refuse(w) PROVE AuditTypeOK'
  <2>1. Released(w) \in Procs \cup {Nobody}
    BY ReleasedType
  <2>2. faults' \in 0..MaxFaults
    BY <1>0, <1>5 DEF Refuse, Fault
  <2> QED BY <1>0, <1>5, <2>1, <2>2 DEF Refuse, Goto, AuditTypeOK
<1>6. ASSUME NEW w \in Requests, Commit(w) PROVE AuditTypeOK'
  <2>1. Released(w) \in Procs \cup {Nobody}
    BY ReleasedType
  <2>2. log' \in Seq(Row)
    <3>1. CASE row[w] = {}
      BY <1>0, <1>6, <3>1 DEF Commit
    <3>2. CASE row[w] # {}
      <4>1. (CHOOSE r \in row[w] : TRUE) \in Row
        BY <1>0, <3>2
      <4>2. log' = Append(log, CHOOSE r \in row[w] : TRUE)
        BY <1>6, <3>2 DEF Commit
      <4> QED BY <1>0, <4>1, <4>2, AppendProperties
    <3> QED BY <3>1, <3>2
  <2> QED BY <1>0, <1>6, <2>1, <2>2 DEF Commit, Goto, AuditTypeOK
<1>7. ASSUME NEW w \in Requests, Close(w) PROVE AuditTypeOK'
  <2>1. Released(w) \in Procs \cup {Nobody}
    BY ReleasedType
  <2> QED BY <1>0, <1>7, <2>1 DEF Close, Goto, AuditTypeOK
<1>8. ASSUME NEW w \in Requests, DieRequest(w) PROVE AuditTypeOK'
  <2>1. Released(w) \in Procs \cup {Nobody}
    BY ReleasedType
  <2>2. faults' \in 0..MaxFaults
    BY <1>0, <1>8 DEF DieRequest, Fault
  <2> QED BY <1>0, <1>8, <2>1, <2>2 DEF DieRequest, Goto, AuditTypeOK
<1>9. ASSUME NEW e \in Erasers, Erase(e) PROVE AuditTypeOK'
  BY <1>0, <1>9 DEF Erase, Goto, AuditTypeOK
<1>10. ASSUME NEW e \in Erasers, AnonymizeOwn(e) PROVE AuditTypeOK'
  <2> DEFINE own == {log[i].content.id : i \in OwnRows(log, subject[e])}
  <2>1. CASE fk /\ own # {}
    <3>1. RollBack(e) /\ UNCHANGED <<log, route, subject, row, erased, fk, faults>>
      BY <1>10, <2>1 DEF AnonymizeOwn
    <3> QED BY <3>1, RollBackType DEF AuditTypeOK
  <2>2. CASE ~(fk /\ own # {})
    <3>1. own \subseteq Requests
      BY <1>0, RowOf DEF OwnRows, Content
    <3>2. plan' = [plan EXCEPT ![e].own = own]
      BY <1>10, <2>2 DEF AnonymizeOwn
    <3>3. pc' = [pc EXCEPT ![e] = "rechain"] /\ UNCHANGED <<log, lock, route, subject, row, erased, fk, faults>>
      BY <1>10, <2>2 DEF AnonymizeOwn, Goto
    <3> HIDE DEF own
    <3>4. plan' \in [Erasers -> Plan]
      BY <1>0, <3>1, <3>2
    <3> QED BY <1>0, <3>3, <3>4 DEF AuditTypeOK
  <2> QED BY <2>1, <2>2
<1>11. ASSUME NEW e \in Erasers, Rechain(e) PROVE AuditTypeOK'
  <2> DEFINE rows == Rechained(Anonymized(log, plan[e].own))
  <2> DEFINE dirty == {log[i].content.id : i \in {j \in 1..Len(log) : rows[j].prev # log[j].prev}}
  <2>1. rows \in Seq(Row)
    BY <1>0, AnonymizedResult, RechainedResult
  <2>2. dirty \subseteq Requests
    BY <1>0, RowOf DEF Content
  <2>3. plan' = [plan EXCEPT ![e].rows = rows, ![e].dirty = dirty]
    BY <1>11 DEF Rechain
  <2> HIDE DEF rows, dirty
  <2>4. plan' \in [Erasers -> Plan]
    BY <1>0, <2>1, <2>2, <2>3
  <2> QED BY <1>0, <1>11, <2>4 DEF Rechain, Goto, AuditTypeOK
<1>12. ASSUME NEW e \in Erasers, EraseCommit(e) PROVE AuditTypeOK'
  <2>1. CASE plan[e].dirty \subseteq Ids(log)
    <3>1. plan[e].rows \in Seq(Row)
      BY <1>0
    <3>2. log' = Updated(log, plan[e].rows) /\ RollBack(e) /\ erased' = erased \cup {subject[e]}
          /\ pc[e] = "commit" /\ UNCHANGED <<route, subject, row, fk, faults>>
      BY <1>12, <2>1 DEF EraseCommit, RollBack
    <3>3. log' \in Seq(Row)
      BY <1>0, <3>1, <3>2, UpdatedType
    <3>4. subject[e] \in Users
      BY <3>2 DEF SubjectInv
    <3> QED BY <1>0, <3>2, <3>3, <3>4, RollBackType DEF AuditTypeOK
  <2>2. CASE ~(plan[e].dirty \subseteq Ids(log))
    <3>1. RollBack(e) /\ UNCHANGED <<log, erased, route, subject, row, fk, faults>>
      BY <1>12, <2>2 DEF EraseCommit
    <3> QED BY <3>1, RollBackType DEF AuditTypeOK
  <2> QED BY <2>1, <2>2
<1>13. ASSUME NEW e \in Erasers, DieEraser(e) PROVE AuditTypeOK'
  <2>1. RollBack(e) /\ UNCHANGED <<log, route, subject, row, erased, fk>>
    BY <1>13 DEF DieEraser
  <2>2. faults' \in 0..MaxFaults
    BY <1>0, <1>13 DEF DieEraser, Fault
  <2> QED BY <2>1, <2>2, RollBackType DEF AuditTypeOK
<1>14. ASSUME NEW k \in 1..Len(log), Retain(k) PROVE AuditTypeOK'
  <2>1. Len(log) \in Nat
    BY <1>0, LenProperties
  <2>2. \A i \in (k + 1)..Len(log) : log[i] \in Row
    BY <1>0, <2>1, RowOf
  <2>3. SubSeq(log, k + 1, Len(log)) \in Seq(Row)
    BY <2>1, <2>2, SubSeqProperties
  <2> QED BY <1>14, <2>3 DEF Retain, AuditTypeOK
<1>15. CASE UNCHANGED auditVars
  BY <1>15 DEF auditVars, AuditTypeOK
<1> QED
  BY <1>0, <1>1, <1>2, <1>3, <1>4, <1>5, <1>6, <1>7, <1>8, <1>9, <1>10, <1>11,
     <1>12, <1>13, <1>14, <1>15 DEF AuditNext, RequestStep, EraserStep

(* Whatever requests, erasures, pruning and faults interleave, the log and   *)
(* what each process holds keep their types (AuditTypeOK).                   *)
THEOREM AuditWellTyped == AuditSpec => []AuditTypeOK
BY TypeInit, TypeStep, SubjectStep, PTL DEF AuditSpec

------------------------------------------------------------------------------
(***************************************************************************)
(* Who holds the lock, and what is known while it is held.                 *)
(***************************************************************************)

\* Where each process can stand, and from where on a request has a row.
PlaceInv ==
  /\ \A w \in Requests :
       /\ pc[w] \in {"idle", "lock", "read", "insert", "finish", "done"}
       /\ pc[w] \in {"idle", "lock", "read"} => row[w] = {}
       /\ \A r \in row[w] : r.content.id = w
  /\ \A e \in Erasers : pc[e] \in {"idle", "lock", "own", "rechain", "commit", "done"}

\* From the lock to the end of the transaction, or the rollback to the savepoint.
LockInv ==
  /\ \A w \in Requests :
       pc[w] \in {"read", "insert"} \/ (pc[w] = "finish" /\ row[w] # {}) => lock = w
  /\ \A e \in Erasers : pc[e] \in {"own", "rechain", "commit"} => lock = e

\* The log: gapless numbers, one row for each request that is done, linked rows.
LogInv ==
  /\ \A i, j \in 1..Len(log) : log[i].seq + j = log[j].seq + i
  /\ \A i, j \in 1..Len(log) : log[i].content.id = log[j].content.id => i = j
  /\ \A i \in 1..Len(log) : pc[log[i].content.id] = "done"
  /\ \A i \in 1..(Len(log) - 1) : log[i + 1].prev = Hash(log[i].prev, log[i].content)

\* A row that is made but not committed follows the last row of the log.
Follows(r) ==
  log # <<>> => /\ r.prev = Hash(log[Len(log)].prev, log[Len(log)].content)
                /\ r.seq = log[Len(log)].seq + 1

NextInv ==
  \A w \in Requests : pc[w] \in {"insert", "finish"} => \A r \in row[w] : Follows(r)

\* The log is the end of what an eraser read; the plan is linked and names the
\* user no more.
Planned(e) ==
  LET new == plan[e].rows
      d   == Len(new) - Len(log)
  IN /\ Len(log) <= Len(new)
     /\ \A i \in 1..Len(log) :
          new[d + i].content.id = log[i].content.id /\ new[d + i].seq = log[i].seq
     /\ \A j, k \in 1..Len(new) : new[j].content.id = new[k].content.id => j = k
     /\ \A k \in 1..(Len(new) - 1) : new[k + 1].prev = Hash(new[k].prev, new[k].content)
     /\ \A k \in 1..Len(new) : new[k].content.user = subject[e] => new[k].content.hidden

OwnKnown(e) ==
  \A i \in 1..Len(log) :
    log[i].content.user = subject[e] /\ ~log[i].content.hidden => log[i].content.id \in plan[e].own

PlanInv ==
  \A e \in Erasers :
    /\ pc[e] = "rechain" => OwnKnown(e)
    /\ pc[e] = "commit" => Planned(e)

HeldInv == AuditTypeOK /\ SubjectInv /\ PlaceInv /\ LockInv
AuditInv == HeldInv /\ LogInv /\ NextInv /\ PlanInv

LEMMA InvInit == AuditInit => AuditInv
<1> SUFFICES ASSUME AuditInit PROVE AuditInv
  OBVIOUS
<1>1. HeldInv
  BY TypeInit, AuditAssumption DEF AuditAssumption, AuditInit, HeldInv, PlaceInv, LockInv, Procs
<1>2. Len(log) = 0 /\ log = <<>>
  BY EmptySeq DEF AuditInit
<1>3. LogInv
  BY <1>2 DEF LogInv
<1>4. NextInv /\ PlanInv
  BY AuditAssumption DEF AuditAssumption, AuditInit, NextInv, PlanInv, Procs
<1> QED BY <1>1, <1>3, <1>4 DEF AuditInv

(* The steps of Next, one by one. *)
LEMMA Steps ==
  ASSUME [AuditNext]_auditVars
  PROVE  \/ \E w \in Requests : \/ Act(w) \/ LockChain(w) \/ ReadHead(w) \/ Insert(w)
                                \/ Refuse(w) \/ Commit(w) \/ Close(w) \/ DieRequest(w)
         \/ \E e \in Erasers : \/ Erase(e) \/ LockChain(e) \/ AnonymizeOwn(e) \/ Rechain(e)
                               \/ EraseCommit(e) \/ DieEraser(e)
         \/ \E k \in 1..Len(log) : Retain(k)
         \/ UNCHANGED auditVars
BY DEF AuditNext, RequestStep, EraserStep

LEMMA PlaceStep == HeldInv /\ [AuditNext]_auditVars => PlaceInv'
<1> SUFFICES ASSUME HeldInv, [AuditNext]_auditVars PROVE PlaceInv'
  OBVIOUS
<1> USE DEF PlaceInv, Goto
<1>0. /\ pc \in [Procs -> {"idle", "lock", "read", "insert", "finish",
                           "own", "rechain", "commit", "done"}]
      /\ row \in [Requests -> SUBSET Row] /\ log \in Seq(Row)
      /\ subject \in [Procs -> Users \cup {NoUser}]
      /\ Requests \subseteq Procs /\ Erasers \subseteq Procs /\ Requests \cap Erasers = {}
      /\ PlaceInv
  BY AuditAssumption DEF HeldInv, AuditTypeOK, AuditAssumption, Procs
<1>1. ASSUME NEW w \in Requests, Act(w) \/ LockChain(w) PROVE PlaceInv'
  BY <1>0, <1>1 DEF Act, LockChain
<1>2. ASSUME NEW w \in Requests, ReadHead(w) PROVE PlaceInv'
  <2> DEFINE c == [id |-> w, user |-> subject[w], hidden |-> FALSE]
  <2>1. c \in Content /\ c.id = w
    BY <1>0 DEF Content
  <2>2. row' = [row EXCEPT ![w] = {NextRow(log, c)}] /\ NextRow(log, c).content = c
    BY <1>0, <1>2, <2>1, NextRowResult DEF ReadHead
  <2> HIDE DEF c
  <2>3. \A r \in row'[w] : r.content.id = w
    BY <1>0, <2>1, <2>2
  <2>4. \A v \in Requests : v # w => row'[v] = row[v] /\ pc'[v] = pc[v]
    BY <1>0, <1>2, <2>2 DEF ReadHead
  <2>5. pc'[w] = "insert" /\ \A e \in Erasers : pc'[e] = pc[e]
    BY <1>0, <1>2 DEF ReadHead
  <2> QED BY <1>0, <2>3, <2>4, <2>5
<1>3. ASSUME NEW w \in Requests, Insert(w) PROVE PlaceInv'
  BY <1>0, <1>3 DEF Insert
<1>4. ASSUME NEW w \in Requests, Refuse(w) \/ Commit(w) \/ Close(w) \/ DieRequest(w) PROVE PlaceInv'
  BY <1>0, <1>4 DEF Refuse, Commit, Close, DieRequest
<1>5. ASSUME NEW e \in Erasers, Erase(e) \/ LockChain(e) \/ Rechain(e) PROVE PlaceInv'
  BY <1>0, <1>5 DEF Erase, LockChain, Rechain
<1>6. ASSUME NEW e \in Erasers, AnonymizeOwn(e) \/ EraseCommit(e) \/ DieEraser(e) PROVE PlaceInv'
  BY <1>0, <1>6 DEF AnonymizeOwn, EraseCommit, DieEraser, RollBack
<1>7. ASSUME NEW k \in 1..Len(log), Retain(k) PROVE PlaceInv'
  BY <1>0, <1>7 DEF Retain
<1>8. CASE UNCHANGED auditVars
  BY <1>0, <1>8 DEF auditVars
<1> QED BY <1>1, <1>2, <1>3, <1>4, <1>5, <1>6, <1>7, <1>8, Steps

LEMMA LockStep == HeldInv /\ [AuditNext]_auditVars => LockInv'
<1> SUFFICES ASSUME HeldInv, [AuditNext]_auditVars PROVE LockInv'
  OBVIOUS
<1> USE DEF LockInv, Goto, Released
<1>0. /\ pc \in [Procs -> {"idle", "lock", "read", "insert", "finish",
                           "own", "rechain", "commit", "done"}]
      /\ row \in [Requests -> SUBSET Row]
      /\ Requests \subseteq Procs /\ Erasers \subseteq Procs /\ Requests \cap Erasers = {}
      /\ Nobody \notin Procs
      /\ PlaceInv /\ LockInv
  BY AuditAssumption DEF HeldInv, AuditTypeOK, AuditAssumption, Procs
<1>1. ASSUME NEW w \in Requests, Act(w) \/ ReadHead(w) PROVE LockInv'
  BY <1>0, <1>1 DEF Act, ReadHead, PlaceInv
<1>2. ASSUME NEW p \in Procs, LockChain(p) PROVE LockInv'
  BY <1>0, <1>2 DEF LockChain, PlaceInv
<1>3. ASSUME NEW w \in Requests, Insert(w) PROVE LockInv'
  BY <1>0, <1>3 DEF Insert
<1>4. ASSUME NEW w \in Requests, Refuse(w) \/ Commit(w) \/ Close(w) \/ DieRequest(w) PROVE LockInv'
  BY <1>0, <1>4 DEF Refuse, Commit, Close, DieRequest
<1>5. ASSUME NEW e \in Erasers, Erase(e) \/ Rechain(e) PROVE LockInv'
  BY <1>0, <1>5 DEF Erase, Rechain
<1>6. ASSUME NEW e \in Erasers, AnonymizeOwn(e) \/ EraseCommit(e) \/ DieEraser(e) PROVE LockInv'
  BY <1>0, <1>6 DEF AnonymizeOwn, EraseCommit, DieEraser, RollBack
<1>7. ASSUME NEW k \in 1..Len(log), Retain(k) PROVE LockInv'
  BY <1>0, <1>7 DEF Retain
<1>8. CASE UNCHANGED auditVars
  BY <1>0, <1>8 DEF auditVars
<1> QED BY <1>0, <1>1, <1>2, <1>3, <1>4, <1>5, <1>6, <1>7, <1>8, Steps

(* What is done stays done. *)
LEMMA DoneStays ==
  ASSUME HeldInv, [AuditNext]_auditVars, NEW p \in Procs, pc[p] = "done"
  PROVE  pc'[p] = "done"
<1>0. pc \in [Procs -> {"idle", "lock", "read", "insert", "finish",
                        "own", "rechain", "commit", "done"}]
      /\ Requests \subseteq Procs /\ Erasers \subseteq Procs
  BY DEF HeldInv, AuditTypeOK, Procs
<1>1. ASSUME NEW w \in Requests, \/ Act(w) \/ LockChain(w) \/ ReadHead(w) \/ Insert(w)
                                 \/ Refuse(w) \/ Commit(w) \/ Close(w) \/ DieRequest(w)
      PROVE  pc'[p] = "done"
  BY <1>0, <1>1 DEF Act, LockChain, ReadHead, Insert, Refuse, Commit, Close, DieRequest, Goto
<1>2. ASSUME NEW e \in Erasers, \/ Erase(e) \/ LockChain(e) \/ AnonymizeOwn(e) \/ Rechain(e)
                                \/ EraseCommit(e) \/ DieEraser(e)
      PROVE  pc'[p] = "done"
  BY <1>0, <1>2 DEF Erase, LockChain, AnonymizeOwn, Rechain, EraseCommit, DieEraser, RollBack, Goto
<1>3. ASSUME NEW k \in 1..Len(log), Retain(k) PROVE pc'[p] = "done"
  BY <1>3 DEF Retain
<1>4. CASE UNCHANGED auditVars
  BY <1>4 DEF auditVars
<1> QED BY <1>1, <1>2, <1>3, <1>4, Steps

------------------------------------------------------------------------------
(***************************************************************************)
(* The chain.                                                              *)
(***************************************************************************)

(* Only a commit with a row, a commit of an erasure and the retention job    *)
(* change the log.                                                           *)
LEMMA LogChange ==
  ASSUME [AuditNext]_auditVars
  PROVE  \/ log' = log
         \/ \E w \in Requests : Commit(w) /\ row[w] # {}
         \/ \E e \in Erasers : EraseCommit(e) /\ plan[e].dirty \subseteq Ids(log)
         \/ \E k \in 1..Len(log) : Retain(k)
<1>1. ASSUME NEW w \in Requests, \/ Act(w) \/ LockChain(w) \/ ReadHead(w) \/ Insert(w)
                                 \/ Refuse(w) \/ Close(w) \/ DieRequest(w)
      PROVE  log' = log
  BY <1>1 DEF Act, LockChain, ReadHead, Insert, Refuse, Close, DieRequest
<1>2. ASSUME NEW w \in Requests, Commit(w), row[w] = {} PROVE log' = log
  BY <1>2 DEF Commit
<1>3. ASSUME NEW e \in Erasers, \/ Erase(e) \/ LockChain(e) \/ AnonymizeOwn(e) \/ Rechain(e)
                                \/ DieEraser(e)
      PROVE  log' = log
  BY <1>3 DEF Erase, LockChain, AnonymizeOwn, Rechain, DieEraser
<1>4. ASSUME NEW e \in Erasers, EraseCommit(e), ~(plan[e].dirty \subseteq Ids(log))
      PROVE  log' = log
  BY <1>4 DEF EraseCommit
<1>5. CASE UNCHANGED auditVars
  BY <1>5 DEF auditVars
<1> QED BY <1>1, <1>2, <1>3, <1>4, <1>5, Steps

(* The row a commit appends. *)
LEMMA CommitResult ==
  ASSUME AuditInv, NEW w \in Requests, Commit(w), row[w] # {}
  PROVE  \E r \in Row :
           /\ r \in row[w] /\ r.content.id = w /\ Follows(r)
           /\ log' = Append(log, r) /\ lock = w /\ pc[w] = "finish" /\ pc' = [pc EXCEPT ![w] = "done"]
           /\ UNCHANGED <<subject, row, plan>>
<1> DEFINE r == CHOOSE s \in row[w] : TRUE
<1>1. r \in row[w]
  OBVIOUS
<1>2. pc[w] = "finish" /\ log' = Append(log, r) /\ pc' = [pc EXCEPT ![w] = "done"] /\ UNCHANGED <<subject, row, plan>>
  BY DEF Commit, Goto
<1> HIDE DEF r
<1>3. row[w] \subseteq Row
  BY DEF AuditInv, HeldInv, AuditTypeOK
<1>4. r.content.id = w /\ lock = w
  BY <1>1, <1>2 DEF AuditInv, HeldInv, PlaceInv, LockInv
<1>5. Follows(r)
  BY <1>1, <1>2 DEF AuditInv, NextInv
<1> QED BY <1>1, <1>2, <1>3, <1>4, <1>5

(* What a commit of an erasure writes. *)
LEMMA EraseCommitResult ==
  ASSUME AuditInv, NEW e \in Erasers, EraseCommit(e), plan[e].dirty \subseteq Ids(log)
  PROVE  LET new == plan[e].rows
             d   == Len(new) - Len(log)
         IN /\ new \in Seq(Row) /\ d \in Nat /\ Planned(e)
            /\ log' \in Seq(Row) /\ Len(log') = Len(log)
            /\ \A i \in 1..Len(log) : d + i \in 1..Len(new) /\ log'[i] = new[d + i]
            /\ pc[e] = "commit" /\ lock = e /\ pc' = [pc EXCEPT ![e] = "done"]
            /\ erased' = erased \cup {subject[e]}
            /\ UNCHANGED <<subject, row>> /\ plan' = [plan EXCEPT ![e] = NoPlan]
<1> DEFINE new == plan[e].rows
<1> DEFINE d == Len(new) - Len(log)
<1>1. pc[e] = "commit" /\ log' = Updated(log, new) /\ pc' = [pc EXCEPT ![e] = "done"]
      /\ erased' = erased \cup {subject[e]} /\ UNCHANGED <<subject, row>>
      /\ plan' = [plan EXCEPT ![e] = NoPlan]
  BY DEF EraseCommit, Goto
<1>2. Planned(e) /\ lock = e
  BY <1>1 DEF AuditInv, PlanInv, HeldInv, LockInv
<1>3. new \in Seq(Row) /\ log \in Seq(Row)
  BY DEF AuditInv, HeldInv, AuditTypeOK
<1>4. Len(log) \in Nat /\ Len(new) \in Nat
  BY <1>3, LenProperties
<1>5. /\ d \in Nat /\ Len(new) = d + Len(log)
      /\ \A i \in 1..Len(log) : new[d + i].content.id = log[i].content.id
      /\ \A j, k \in 1..Len(new) : new[j].content.id = new[k].content.id => j = k
  BY <1>2, <1>4 DEF Planned
<1>6. log' \in Seq(Row) /\ Len(log') = Len(log)
  BY <1>1, <1>3, UpdatedType
<1> HIDE DEF new, d
<1>7. \A i \in 1..Len(log) : Updated(log, new)[i] = new[d + i]
  BY <1>3, <1>5, UpdatedResult
<1>8. \A i \in 1..Len(log) : d + i \in 1..Len(new)
  BY <1>4, <1>5
<1> QED BY <1>1, <1>2, <1>3, <1>5, <1>6, <1>7, <1>8 DEF new, d

(* What the retention job leaves. *)
LEMMA RetainResult ==
  ASSUME log \in Seq(Row), NEW k \in 1..Len(log), Retain(k)
  PROVE  /\ log' \in Seq(Row) /\ Len(log') = Len(log) - k /\ Len(log) \in Nat
         /\ \A i \in 1..Len(log') : k + i \in 1..Len(log) /\ log'[i] = log[k + i]
         /\ UNCHANGED <<lock, pc, subject, row, plan>>
<1>1. Len(log) \in Nat
  BY LenProperties
<1>2. log' = SubSeq(log, k + 1, Len(log)) /\ UNCHANGED <<lock, pc, subject, row, plan>>
  BY DEF Retain
<1>3. \A i \in (k + 1)..Len(log) : log[i] \in Row
  BY <1>1, RowOf
<1>4. /\ log' \in Seq(Row)
      /\ Len(log') = IF k + 1 <= Len(log) THEN Len(log) - (k + 1) + 1 ELSE 0
      /\ \A i \in 1..(Len(log) - (k + 1) + 1) : log'[i] = log[(k + 1) + i - 1]
  BY <1>1, <1>2, <1>3, SubSeqProperties
<1>5. Len(log') = Len(log) - k
  BY <1>1, <1>4
<1>6. ASSUME NEW i \in 1..Len(log') PROVE k + i \in 1..Len(log) /\ log'[i] = log[k + i]
  <2>1. i \in 1..(Len(log) - (k + 1) + 1) /\ (k + 1) + i - 1 = k + i
    BY <1>1, <1>5
  <2> QED BY <1>1, <1>4, <1>5, <2>1
<1> QED BY <1>1, <1>2, <1>4, <1>5, <1>6

(* Numbers without gaps, one further or counted from another row. *)
LEMMA NextNumber ==
  ASSUME NEW a \in Nat, NEW b \in Nat, NEW n \in Nat, NEW i \in Nat, a + n = b + i
  PROVE  a + (n + 1) = (b + 1) + i
OBVIOUS

LEMMA SameShift ==
  ASSUME NEW a \in Nat, NEW b \in Nat, NEW k \in Nat, NEW i \in Nat, NEW j \in Nat,
         a + (k + j) = b + (k + i)
  PROVE  a + j = b + i
OBVIOUS

LEMMA LogStep == AuditInv /\ [AuditNext]_auditVars => LogInv'
<1> SUFFICES ASSUME AuditInv, [AuditNext]_auditVars PROVE LogInv'
  OBVIOUS
<1>0. /\ HeldInv /\ LogInv /\ log \in Seq(Row) /\ Len(log) \in Nat
      /\ \A i \in 1..Len(log) : log[i].content.id \in Requests
      /\ \A i \in 1..Len(log) : log[i].seq \in Nat
  <2>1. HeldInv /\ LogInv /\ log \in Seq(Row)
    BY DEF AuditInv, HeldInv, AuditTypeOK
  <2>2. \A i \in 1..Len(log) : log[i].content \in Content /\ log[i].seq \in Nat
    BY <2>1, RowOf
  <2> QED BY <2>1, <2>2, LenProperties DEF Content
<1>1. CASE log' = log
  <2>1. \A i \in 1..Len(log) : pc'[log[i].content.id] = "done"
    BY <1>0, DoneStays DEF LogInv, Procs
  <2> QED BY <1>0, <1>1, <2>1 DEF LogInv
<1>2. ASSUME NEW w \in Requests, Commit(w), row[w] # {} PROVE LogInv'
  <2>1. PICK r \in Row : /\ r.content.id = w /\ Follows(r) /\ log' = Append(log, r)
                         /\ pc[w] = "finish" /\ pc' = [pc EXCEPT ![w] = "done"]
    BY <1>2, CommitResult
  <2>2. /\ Len(log') = Len(log) + 1 /\ log'[Len(log) + 1] = r
        /\ \A i \in 1..Len(log) : log'[i] = log[i]
    BY <1>0, <2>1, AppendProperties
  <2>3. \A i \in 1..Len(log) : log[i].content.id # w
    BY <1>0, <2>1 DEF LogInv
  <2>4. Len(log) > 0 => /\ r.prev = Hash(log[Len(log)].prev, log[Len(log)].content)
                        /\ r.seq = log[Len(log)].seq + 1
    BY <2>1 DEF Follows
  <2>5. r.seq \in Nat
    BY DEF Row
  <2>6. ASSUME NEW i \in 1..Len(log) PROVE log'[i].seq + (Len(log) + 1) = r.seq + i
    <3>1. Len(log) \in 1..Len(log) /\ Len(log) > 0
      BY <1>0
    <3>2. log[i].seq + Len(log) = log[Len(log)].seq + i
      BY <1>0, <3>1 DEF LogInv
    <3>3. log[i].seq \in Nat /\ log[Len(log)].seq \in Nat /\ Len(log) \in Nat /\ i \in Nat
      BY <1>0, <3>1
    <3>4. r.seq = log[Len(log)].seq + 1 /\ log'[i] = log[i]
      BY <2>2, <2>4, <3>1
    <3> QED BY <3>2, <3>3, <3>4, NextNumber
  <2>7. \A i, j \in 1..Len(log') : log'[i].seq + j = log'[j].seq + i
    <3> TAKE i, j \in 1..Len(log')
    <3>1. CASE i = Len(log) + 1 /\ j = Len(log) + 1
      BY <3>1
    <3>2. CASE i \in 1..Len(log) /\ j = Len(log) + 1
      BY <2>2, <2>6, <3>2
    <3>3. CASE i = Len(log) + 1 /\ j \in 1..Len(log)
      BY <2>2, <2>6, <3>3
    <3>4. CASE i \in 1..Len(log) /\ j \in 1..Len(log)
      BY <1>0, <2>2, <3>4 DEF LogInv
    <3> QED BY <1>0, <2>2, <3>1, <3>2, <3>3, <3>4
  <2>8. \A i, j \in 1..Len(log') : log'[i].content.id = log'[j].content.id => i = j
    BY <1>0, <2>1, <2>2, <2>3 DEF LogInv
  <2>9. \A i \in 1..Len(log') : pc'[log'[i].content.id] = "done"
    <3>1. pc'[w] = "done"
      BY <1>0, <2>1 DEF HeldInv, AuditTypeOK, Procs
    <3>2. \A i \in 1..Len(log) : pc'[log[i].content.id] = "done"
      BY <1>0, DoneStays DEF LogInv, Procs
    <3> QED BY <1>0, <2>1, <2>2, <3>1, <3>2
  <2>10. \A i \in 1..(Len(log') - 1) : log'[i + 1].prev = Hash(log'[i].prev, log'[i].content)
    <3> TAKE i \in 1..(Len(log') - 1)
    <3>1. CASE i = Len(log)
      BY <1>0, <2>2, <2>4, <3>1
    <3>2. CASE i \in 1..(Len(log) - 1)
      BY <1>0, <2>2, <3>2 DEF LogInv
    <3> QED BY <1>0, <2>2, <3>1, <3>2
  <2> QED BY <2>7, <2>8, <2>9, <2>10 DEF LogInv
<1>3. ASSUME NEW e \in Erasers, EraseCommit(e), plan[e].dirty \subseteq Ids(log) PROVE LogInv'
  <2> DEFINE new == plan[e].rows
  <2> DEFINE d == Len(new) - Len(log)
  <2>1. /\ new \in Seq(Row) /\ d \in Nat /\ Planned(e)
        /\ log' \in Seq(Row) /\ Len(log') = Len(log)
        /\ \A i \in 1..Len(log) : d + i \in 1..Len(new) /\ log'[i] = new[d + i]
    BY <1>3, EraseCommitResult
  <2>2. /\ \A i \in 1..Len(log) : new[d + i].content.id = log[i].content.id /\ new[d + i].seq = log[i].seq
        /\ \A k \in 1..(Len(new) - 1) : new[k + 1].prev = Hash(new[k].prev, new[k].content)
    BY <2>1 DEF Planned
  <2>3. Len(new) \in Nat /\ Len(new) = d + Len(log)
    BY <1>0, <2>1, LenProperties
  <2> HIDE DEF new, d
  <2>4. \A i \in 1..Len(log) : log'[i].content.id = log[i].content.id /\ log'[i].seq = log[i].seq
    BY <2>1, <2>2
  <2>5. \A i \in 1..Len(log) : pc'[log[i].content.id] = "done"
    BY <1>0, DoneStays DEF LogInv, Procs
  <2>6. ASSUME NEW i \in 1..(Len(log) - 1)
        PROVE  log'[i + 1].prev = Hash(log'[i].prev, log'[i].content)
    <3>1. d + i \in 1..(Len(new) - 1) /\ i \in 1..Len(log) /\ i + 1 \in 1..Len(log) /\ (d + i) + 1 = d + (i + 1)
      BY <1>0, <2>1, <2>3
    <3>2. new[(d + i) + 1].prev = Hash(new[d + i].prev, new[d + i].content)
      BY <2>2, <3>1
    <3> QED BY <2>1, <3>1, <3>2
  <2>7. DOMAIN log' = 1..Len(log) /\ Len(log') = Len(log)
    BY <2>1
  <2>8. \A i, j \in 1..Len(log') : log'[i].seq + j = log'[j].seq + i
    <3> TAKE i, j \in 1..Len(log')
    <3>1. log[i].seq + j = log[j].seq + i
      BY <1>0, <2>7 DEF LogInv
    <3>2. log'[i].seq = log[i].seq /\ log'[j].seq = log[j].seq
      BY <2>4, <2>7
    <3> QED BY <3>1, <3>2
  <2>9. \A i, j \in 1..Len(log') : log'[i].content.id = log'[j].content.id => i = j
    BY <1>0, <2>4, <2>7 DEF LogInv
  <2>10. \A i \in 1..Len(log') : pc'[log'[i].content.id] = "done"
    BY <2>4, <2>5, <2>7
  <2>11. \A i \in 1..(Len(log') - 1) : log'[i + 1].prev = Hash(log'[i].prev, log'[i].content)
    BY <2>6, <2>7
  <2> QED BY <2>8, <2>9, <2>10, <2>11 DEF LogInv
<1>4. ASSUME NEW k \in 1..Len(log), Retain(k) PROVE LogInv'
  <2>1. /\ Len(log') = Len(log) - k /\ pc' = pc
        /\ \A i \in 1..Len(log') : k + i \in 1..Len(log) /\ log'[i] = log[k + i]
    BY <1>0, <1>4, RetainResult
  <2>2. \A i, j \in 1..Len(log') : log'[i].seq + j = log'[j].seq + i
    <3> TAKE i, j \in 1..Len(log')
    <3>1. log[k + i].seq + (k + j) = log[k + j].seq + (k + i)
      BY <1>0, <2>1 DEF LogInv
    <3>2. log[k + i].seq \in Nat /\ log[k + j].seq \in Nat /\ k \in Nat /\ i \in Nat /\ j \in Nat
      BY <1>0, <2>1
    <3>3. log'[i] = log[k + i] /\ log'[j] = log[k + j]
      BY <2>1
    <3> DEFINE a == log[k + i].seq
    <3> DEFINE b == log[k + j].seq
    <3> HIDE DEF a, b
    <3>4. a \in Nat /\ b \in Nat /\ a + (k + j) = b + (k + i)
      BY <3>1, <3>2 DEF a, b
    <3>5. a + j = b + i
      BY <3>2, <3>4, SameShift
    <3> QED BY <3>3, <3>5 DEF a, b
  <2>3. \A i, j \in 1..Len(log') : log'[i].content.id = log'[j].content.id => i = j
    BY <1>0, <2>1 DEF LogInv
  <2>4. ASSUME NEW i \in 1..(Len(log') - 1)
        PROVE  log'[i + 1].prev = Hash(log'[i].prev, log'[i].content)
    <3>1. i \in 1..Len(log') /\ i + 1 \in 1..Len(log') /\ k + i \in 1..(Len(log) - 1) /\ (k + i) + 1 = k + (i + 1)
      BY <1>0, <2>1
    <3>2. log[(k + i) + 1].prev = Hash(log[k + i].prev, log[k + i].content)
      BY <1>0, <3>1 DEF LogInv
    <3> QED BY <2>1, <3>1, <3>2
  <2>5. \A i \in 1..Len(log') : pc'[log'[i].content.id] = "done"
    <3> TAKE i \in 1..Len(log')
    <3>1. k + i \in 1..Len(log) /\ log'[i] = log[k + i] /\ pc' = pc
      BY <2>1
    <3>2. pc[log[k + i].content.id] = "done"
      BY <1>0, <3>1 DEF LogInv
    <3> QED BY <3>1, <3>2
  <2> QED BY <2>2, <2>3, <2>4, <2>5 DEF LogInv
<1> QED BY <1>1, <1>2, <1>3, <1>4, LogChange

(***************************************************************************)
(* Rows that are made but not committed.                                   *)
(***************************************************************************)

(* Only the read of the head makes a row. *)
LEMMA RowOrigin ==
  ASSUME HeldInv, [AuditNext]_auditVars, NEW v \in Requests,
         pc'[v] \in {"insert", "finish"}, NEW r \in row'[v]
  PROVE  \/ pc[v] \in {"insert", "finish"} /\ r \in row[v]
         \/ /\ ReadHead(v) /\ log' = log
            /\ r = NextRow(log, [id |-> v, user |-> subject[v], hidden |-> FALSE])
<1> USE DEF Goto
<1>0. /\ pc \in [Procs -> {"idle", "lock", "read", "insert", "finish",
                           "own", "rechain", "commit", "done"}]
      /\ row \in [Requests -> SUBSET Row]
      /\ Requests \subseteq Procs /\ Erasers \subseteq Procs /\ Requests \cap Erasers = {}
  BY AuditAssumption DEF HeldInv, AuditTypeOK, AuditAssumption, Procs
<1>1. CASE \E w \in Requests : Act(w) \/ LockChain(w) \/ Commit(w) \/ Close(w) \/ DieRequest(w)
  BY <1>0, <1>1 DEF Act, LockChain, Commit, Close, DieRequest
<1>2. ASSUME NEW w \in Requests, ReadHead(w)
      PROVE  \/ pc[v] \in {"insert", "finish"} /\ r \in row[v]
             \/ /\ ReadHead(v) /\ log' = log
                /\ r = NextRow(log, [id |-> v, user |-> subject[v], hidden |-> FALSE])
  <2> DEFINE next == NextRow(log, [id |-> w, user |-> subject[w], hidden |-> FALSE])
  <2>1. row' = [row EXCEPT ![w] = {next}] /\ pc' = [pc EXCEPT ![w] = "insert"] /\ log' = log
    BY <1>2 DEF ReadHead
  <2>2. CASE w = v
    <3>1. row'[v] = {next}
      BY <1>0, <2>1, <2>2
    <3> QED BY <1>2, <2>1, <2>2, <3>1
  <2>3. CASE w # v
    <3> HIDE DEF next
    <3> QED BY <1>0, <2>1, <2>3
  <2> QED BY <2>2, <2>3
<1>3. CASE \E w \in Requests : Insert(w) \/ Refuse(w)
  BY <1>0, <1>3 DEF Insert, Refuse
<1>4. CASE \E e \in Erasers : \/ Erase(e) \/ LockChain(e) \/ AnonymizeOwn(e) \/ Rechain(e)
                              \/ EraseCommit(e) \/ DieEraser(e)
  BY <1>0, <1>4 DEF Erase, LockChain, AnonymizeOwn, Rechain, EraseCommit, DieEraser, RollBack
<1>5. CASE \E k \in 1..Len(log) : Retain(k)
  BY <1>0, <1>5 DEF Retain
<1>6. CASE UNCHANGED auditVars
  BY <1>0, <1>6 DEF auditVars
<1> QED BY <1>1, <1>2, <1>3, <1>4, <1>5, <1>6, Steps

LEMMA NextStep == AuditInv /\ [AuditNext]_auditVars => NextInv'
<1> SUFFICES ASSUME AuditInv, [AuditNext]_auditVars,
                    NEW v \in Requests, pc'[v] \in {"insert", "finish"}, NEW r \in row'[v]
             PROVE  Follows(r)'
  BY DEF NextInv
<1>0. HeldInv /\ NextInv /\ log \in Seq(Row) /\ Len(log) \in Nat
  BY LenProperties DEF AuditInv, HeldInv, AuditTypeOK
<1>1. CASE /\ log' = log
           /\ r = NextRow(log, [id |-> v, user |-> subject[v], hidden |-> FALSE])
  <2> DEFINE c == [id |-> v, user |-> subject[v], hidden |-> FALSE]
  <2>1. c \in Content
    BY DEF AuditInv, HeldInv, AuditTypeOK, Content, Procs
  <2> HIDE DEF c
  <2>2. Follows(NextRow(log, c))
    BY <1>0, <2>1, NextRowResult DEF Follows
  <2>3. r = NextRow(log, c)
    BY <1>1 DEF c
  <2> QED BY <1>1, <2>2, <2>3 DEF Follows
<1>2. CASE pc[v] \in {"insert", "finish"} /\ r \in row[v]
  <2>1. Follows(r) /\ lock = v
    BY <1>0, <1>2 DEF NextInv, HeldInv, LockInv
  <2>2. CASE log' = log
    BY <2>1, <2>2 DEF Follows
  <2>3. ASSUME NEW w \in Requests, Commit(w), row[w] # {} PROVE FALSE
    <3>1. lock = w /\ pc' = [pc EXCEPT ![w] = "done"]
      BY <2>3, CommitResult
    <3> QED BY <2>1, <3>1 DEF AuditInv, HeldInv, AuditTypeOK, Procs
  <2>4. ASSUME NEW e \in Erasers, EraseCommit(e), plan[e].dirty \subseteq Ids(log) PROVE FALSE
    BY <2>1, <2>4, EraseCommitResult, AuditAssumption DEF AuditAssumption
  <2>5. ASSUME NEW k \in 1..Len(log), Retain(k) PROVE Follows(r)'
    <3>1. CASE log' = <<>>
      BY <3>1 DEF Follows
    <3>2. CASE log' # <<>>
      <4>1. /\ log' \in Seq(Row) /\ Len(log') = Len(log) - k
            /\ \A i \in 1..Len(log') : k + i \in 1..Len(log) /\ log'[i] = log[k + i]
        BY <1>0, <2>5, RetainResult
      <4>2. Len(log') \in 1..Len(log')
        BY <3>2, <4>1, EmptySeq, LenProperties
      <4>3. k + Len(log') = Len(log) /\ log # <<>>
        BY <1>0, <4>1, <4>2, EmptySeq
      <4>4. log'[Len(log')] = log[Len(log)]
        BY <4>1, <4>2, <4>3
      <4> QED BY <2>1, <4>3, <4>4 DEF Follows
    <3> QED BY <3>1, <3>2
  <2> QED BY <2>2, <2>3, <2>4, <2>5, LogChange
<1> QED BY <1>0, <1>1, <1>2, RowOrigin

------------------------------------------------------------------------------
(***************************************************************************)
(* Erasures.                                                               *)
(***************************************************************************)

(* While an eraser has the lock only the retention job changes the log.      *)
LEMMA HeldLog ==
  ASSUME AuditInv, [AuditNext]_auditVars, NEW e \in Erasers,
         pc[e] \in {"rechain", "commit"}, pc'[e] # "done"
  PROVE  log' = log \/ \E k \in 1..Len(log) : Retain(k)
<1>1. lock = e
  BY DEF AuditInv, HeldInv, LockInv
<1>2. ASSUME NEW w \in Requests, Commit(w), row[w] # {} PROVE FALSE
  BY <1>1, <1>2, CommitResult, AuditAssumption DEF AuditAssumption
<1>3. ASSUME NEW f \in Erasers, EraseCommit(f), plan[f].dirty \subseteq Ids(log) PROVE FALSE
  <2>1. lock = f /\ pc' = [pc EXCEPT ![f] = "done"]
    BY <1>3, EraseCommitResult
  <2> QED BY <1>1, <2>1 DEF AuditInv, HeldInv, AuditTypeOK, Procs
<1> QED BY <1>2, <1>3, LogChange

(* An eraser works from what it read under the lock.                         *)
LEMMA PlanOrigin ==
  ASSUME HeldInv, [AuditNext]_auditVars, NEW e \in Erasers
  PROVE  /\ pc'[e] = "rechain" =>
              \/ pc[e] = "rechain" /\ plan'[e] = plan[e] /\ subject'[e] = subject[e]
              \/ /\ log' = log /\ subject' = subject
                 /\ plan'[e].own = {log[i].content.id : i \in OwnRows(log, subject[e])}
         /\ pc'[e] = "commit" =>
              \/ pc[e] = "commit" /\ plan'[e] = plan[e] /\ subject'[e] = subject[e]
              \/ /\ pc[e] = "rechain" /\ log' = log /\ subject' = subject
                 /\ plan'[e].rows = Rechained(Anonymized(log, plan[e].own))
<1> USE DEF Goto
<1>0. /\ pc \in [Procs -> {"idle", "lock", "read", "insert", "finish",
                           "own", "rechain", "commit", "done"}]
      /\ subject \in [Procs -> Users \cup {NoUser}]
      /\ plan \in [Erasers -> [own : SUBSET Requests, rows : Seq(Row), dirty : SUBSET Requests]]
      /\ Requests \subseteq Procs /\ Erasers \subseteq Procs /\ Requests \cap Erasers = {}
  BY AuditAssumption DEF HeldInv, AuditTypeOK, AuditAssumption, Procs
<1>1. CASE \E w \in Requests : \/ Act(w) \/ LockChain(w) \/ ReadHead(w) \/ Insert(w) \/ Refuse(w)
                               \/ Commit(w) \/ Close(w) \/ DieRequest(w)
  BY <1>0, <1>1 DEF Act, LockChain, ReadHead, Insert, Refuse, Commit, Close, DieRequest
<1>2. CASE \E f \in Erasers : Erase(f) \/ LockChain(f) \/ EraseCommit(f) \/ DieEraser(f)
  BY <1>0, <1>2 DEF Erase, LockChain, EraseCommit, DieEraser, RollBack
<1>3. ASSUME NEW f \in Erasers, AnonymizeOwn(f)
      PROVE  /\ pc'[e] = "rechain" =>
                  \/ pc[e] = "rechain" /\ plan'[e] = plan[e] /\ subject'[e] = subject[e]
                  \/ /\ log' = log /\ subject' = subject
                     /\ plan'[e].own = {log[i].content.id : i \in OwnRows(log, subject[e])}
             /\ pc'[e] = "commit" =>
                  pc[e] = "commit" /\ plan'[e] = plan[e] /\ subject'[e] = subject[e]
  <2> DEFINE own == {log[i].content.id : i \in OwnRows(log, subject[f])}
  <2> HIDE DEF own
  <2>1. /\ pc[f] = "own" /\ log' = log /\ subject' = subject
        /\ IF fk /\ own # {} THEN RollBack(f)
           ELSE plan' = [plan EXCEPT ![f].own = own] /\ pc' = [pc EXCEPT ![f] = "rechain"]
    BY <1>3 DEF AnonymizeOwn, own
  <2>2. CASE f # e
    BY <1>0, <2>1, <2>2 DEF RollBack
  <2>3. CASE f = e
    <3>1. CASE fk /\ own # {}
      BY <1>0, <2>1, <2>3, <3>1 DEF RollBack
    <3>2. CASE ~(fk /\ own # {})
      <4>1. plan'[e].own = own /\ pc'[e] = "rechain"
        BY <1>0, <2>1, <2>3, <3>2
      <4> QED BY <2>1, <2>3, <4>1 DEF own
    <3> QED BY <3>1, <3>2
  <2> QED BY <2>2, <2>3
<1>4. ASSUME NEW f \in Erasers, Rechain(f)
      PROVE  /\ pc'[e] = "rechain" =>
                  pc[e] = "rechain" /\ plan'[e] = plan[e] /\ subject'[e] = subject[e]
             /\ pc'[e] = "commit" =>
                  \/ pc[e] = "commit" /\ plan'[e] = plan[e] /\ subject'[e] = subject[e]
                  \/ /\ pc[e] = "rechain" /\ log' = log /\ subject' = subject
                     /\ plan'[e].rows = Rechained(Anonymized(log, plan[e].own))
  <2>1. /\ pc[f] = "rechain" /\ log' = log /\ subject' = subject /\ pc' = [pc EXCEPT ![f] = "commit"]
        /\ \E dirty : plan' = [plan EXCEPT ![f].rows = Rechained(Anonymized(log, plan[f].own)),
                                           ![f].dirty = dirty]
    BY <1>4 DEF Rechain
  <2>2. CASE f # e
    BY <1>0, <2>1, <2>2
  <2>3. CASE f = e
    BY <1>0, <2>1, <2>3
  <2> QED BY <2>2, <2>3
<1>5. CASE \E k \in 1..Len(log) : Retain(k)
  BY <1>0, <1>5 DEF Retain
<1>6. CASE UNCHANGED auditVars
  BY <1>0, <1>6 DEF auditVars
<1> QED BY <1>1, <1>2, <1>3, <1>4, <1>5, <1>6, Steps

(* The plan made from the log under the lock.                                *)
LEMMA FreshPlan ==
  ASSUME AuditInv, NEW e \in Erasers, OwnKnown(e), [AuditNext]_auditVars,
         log' = log, subject' = subject,
         plan'[e].rows = Rechained(Anonymized(log, plan[e].own))
  PROVE  Planned(e)'
<1> DEFINE mid == Anonymized(log, plan[e].own)
<1> DEFINE new == Rechained(mid)
<1>1. log \in Seq(Row) /\ Len(log) \in Nat /\ LogInv
  BY LenProperties DEF AuditInv, HeldInv, AuditTypeOK
<1>2. /\ mid \in Seq(Row) /\ Len(mid) = Len(log)
      /\ \A i \in 1..Len(log) :
           /\ mid[i].content.id = log[i].content.id
           /\ mid[i].content.user = log[i].content.user
           /\ mid[i].seq = log[i].seq
           /\ mid[i].content.hidden = (log[i].content.hidden \/ log[i].content.id \in plan[e].own)
  BY <1>1, AnonymizedResult
<1> HIDE DEF mid
<1>3. /\ Len(new) = Len(log)
      /\ \A i \in 1..Len(log) : new[i].content = mid[i].content /\ new[i].seq = mid[i].seq
      /\ \A i \in 1..(Len(log) - 1) : new[i + 1].prev = Hash(new[i].prev, new[i].content)
  BY <1>2, RechainedResult, RechainedLinks
<1>4. plan'[e].rows = new
  BY DEF mid
<1> HIDE DEF new
<1>5. ASSUME NEW i \in 1..Len(log)
      PROVE  0 + i = i /\ new[i].content.id = log[i].content.id /\ new[i].seq = log[i].seq
  BY <1>1, <1>2, <1>3
<1>6. \A j, k \in 1..Len(new) : new[j].content.id = new[k].content.id => j = k
  BY <1>1, <1>3, <1>5 DEF LogInv
<1>7. ASSUME NEW k \in 1..Len(new), new[k].content.user = subject[e]
      PROVE  new[k].content.hidden
  <2>1. k \in 1..Len(log) /\ new[k].content = mid[k].content
    BY <1>3
  <2>2. log[k].content.user = subject[e]
    BY <1>2, <1>7, <2>1
  <2>3. log[k].content.hidden \/ log[k].content.id \in plan[e].own
    BY <2>1, <2>2 DEF OwnKnown
  <2>4. mid[k].content.hidden = (log[k].content.hidden \/ log[k].content.id \in plan[e].own)
    BY <1>2, <2>1
  <2>5. mid[k].content.hidden
    BY <2>3, <2>4, Zenon
  <2> QED BY <2>1, <2>5
<1>8. Len(new) - Len(log) = 0
  BY <1>1, <1>3
<1> QED BY <1>1, <1>3, <1>4, <1>5, <1>6, <1>7, <1>8 DEF Planned

(* The retention job leaves the end of a plan that was the end before.       *)
LEMMA PrunedPlan ==
  ASSUME AuditInv, NEW e \in Erasers, Planned(e), NEW k \in 1..Len(log), Retain(k)
  PROVE  Planned(e)'
<1> DEFINE new == plan[e].rows
<1> DEFINE d == Len(new) - Len(log)
<1>1. log \in Seq(Row) /\ new \in Seq(Row) /\ Len(log) \in Nat /\ Len(new) \in Nat
  BY LenProperties DEF AuditInv, HeldInv, AuditTypeOK
<1>2. /\ Len(log') = Len(log) - k /\ plan' = plan /\ subject' = subject
      /\ \A i \in 1..Len(log') : k + i \in 1..Len(log) /\ log'[i] = log[k + i]
  BY <1>1, RetainResult
<1>3. /\ Len(log) <= Len(new)
      /\ \A i \in 1..Len(log) : new[d + i].content.id = log[i].content.id /\ new[d + i].seq = log[i].seq
  BY DEF Planned
<1>4. ASSUME NEW i \in 1..Len(log')
      PROVE  LET shift == Len(new) - Len(log')
             IN new[shift + i].content.id = log'[i].content.id /\ new[shift + i].seq = log'[i].seq
  <2>1. d + (k + i) = (Len(new) - Len(log')) + i
    <3> DEFINE a == Len(new)
    <3> DEFINE n == Len(log)
    <3> DEFINE m == Len(log')
    <3> HIDE DEF a, n, m
    <3>1. a \in Nat /\ n \in Nat /\ k \in 1..n /\ m = n - k /\ i \in 1..m
      BY <1>1, <1>2 DEF a, n, m
    <3>2. (a - n) + (k + i) = (a - m) + i
      BY <3>1
    <3> QED BY <3>2 DEF a, n, m
  <2> QED BY <1>2, <1>3, <2>1
<1>5. Len(log') <= Len(new)
  BY <1>1, <1>2, <1>3
<1> QED BY <1>2, <1>4, <1>5 DEF Planned

LEMMA PlanStep == AuditInv /\ [AuditNext]_auditVars => PlanInv'
<1> SUFFICES ASSUME AuditInv, [AuditNext]_auditVars, NEW e \in Erasers
             PROVE  /\ pc'[e] = "rechain" => OwnKnown(e)'
                    /\ pc'[e] = "commit" => Planned(e)'
  BY DEF PlanInv
<1>0. HeldInv /\ PlanInv /\ log \in Seq(Row)
  BY DEF AuditInv, HeldInv, AuditTypeOK
<1>1. ASSUME pc'[e] = "rechain" PROVE OwnKnown(e)'
  <2>1. CASE /\ log' = log /\ subject' = subject
             /\ plan'[e].own = {log[i].content.id : i \in OwnRows(log, subject[e])}
    BY <2>1 DEF OwnKnown, OwnRows
  <2>2. CASE pc[e] = "rechain" /\ plan'[e] = plan[e] /\ subject'[e] = subject[e]
    <3>1. OwnKnown(e)
      BY <1>0, <2>2 DEF PlanInv
    <3>2. CASE log' = log
      BY <2>2, <3>1, <3>2 DEF OwnKnown
    <3>3. ASSUME NEW k \in 1..Len(log), Retain(k) PROVE OwnKnown(e)'
      <4>1. \A i \in 1..Len(log') : k + i \in 1..Len(log) /\ log'[i] = log[k + i]
        BY <1>0, <3>3, RetainResult
      <4> QED BY <2>2, <3>1, <4>1 DEF OwnKnown
    <3> QED BY <1>1, <2>2, <3>2, <3>3, HeldLog
  <2> QED BY <1>0, <1>1, <2>1, <2>2, PlanOrigin
<1>2. ASSUME pc'[e] = "commit" PROVE Planned(e)'
  <2>1. CASE /\ pc[e] = "rechain" /\ log' = log /\ subject' = subject
             /\ plan'[e].rows = Rechained(Anonymized(log, plan[e].own))
    BY <1>0, <2>1, FreshPlan DEF PlanInv
  <2>2. CASE pc[e] = "commit" /\ plan'[e] = plan[e] /\ subject'[e] = subject[e]
    <3>1. Planned(e)
      BY <1>0, <2>2 DEF PlanInv
    <3>2. CASE log' = log
      BY <2>2, <3>1, <3>2 DEF Planned
    <3> QED BY <1>2, <2>2, <3>1, <3>2, HeldLog, PrunedPlan
  <2> QED BY <1>0, <1>2, <2>1, <2>2, PlanOrigin
<1> QED BY <1>1, <1>2

LEMMA InvStep == AuditInv /\ [AuditNext]_auditVars => AuditInv'
<1> SUFFICES ASSUME AuditInv, [AuditNext]_auditVars PROVE AuditInv'
  OBVIOUS
<1>1. HeldInv
  BY DEF AuditInv
<1>2. HeldInv'
  BY <1>1, TypeStep, SubjectStep, PlaceStep, LockStep DEF HeldInv
<1> QED BY <1>2, LogStep, NextStep, PlanStep DEF AuditInv

LEMMA AuditAlways == AuditSpec => []AuditInv
BY InvInit, InvStep, PTL DEF AuditSpec

------------------------------------------------------------------------------
(***************************************************************************)
(* What the log promises.                                                  *)
(***************************************************************************)

(* Whatever requests, erasures and pruning interleave, every row of the log  *)
(* that survives links to the row before it (LogVerifies): verify_chain      *)
(* accepts the log from its first link on.                                   *)
THEOREM ChainAlwaysLinks == AuditSpec => []LogVerifies
<1>1. AuditInv => LogVerifies
  <2> SUFFICES ASSUME AuditInv, NEW i \in 1..Len(log)
               PROVE  log[i].prev = IF i = 1 THEN log[1].prev
                                    ELSE Hash(log[i - 1].prev, log[i - 1].content)
    BY DEF LogVerifies, Verifies
  <2>1. LogInv /\ Len(log) \in Nat
    BY LenProperties DEF AuditInv, HeldInv, AuditTypeOK
  <2>2. CASE i # 1
    <3>1. i - 1 \in 1..(Len(log) - 1) /\ (i - 1) + 1 = i
      BY <2>1, <2>2
    <3>2. log[(i - 1) + 1].prev = Hash(log[i - 1].prev, log[i - 1].content)
      BY <2>1, <3>1 DEF LogInv
    <3> QED BY <2>2, <3>1, <3>2
  <2> QED BY <2>2
<1> QED BY <1>1, AuditAlways, PTL

(* The commit that marks a user erased leaves no row that names them, also   *)
(* when events of theirs are recorded meanwhile (ErasureIsComplete).         *)
THEOREM ErasureNamesNobody == AuditSpec => ErasureIsComplete
<1>1. ASSUME AuditInv, [AuditNext]_auditVars, NEW u \in erased' \ erased
      PROVE  OwnRows(log', u) = {}
  <2>1. PICK e \in Erasers : EraseCommit(e) /\ plan[e].dirty \subseteq Ids(log)
    <3>1. ASSUME NEW w \in Requests, \/ Act(w) \/ LockChain(w) \/ ReadHead(w) \/ Insert(w)
                                     \/ Refuse(w) \/ Commit(w) \/ Close(w) \/ DieRequest(w)
          PROVE  FALSE
      BY <1>1, <3>1 DEF Act, LockChain, ReadHead, Insert, Refuse, Commit, Close, DieRequest
    <3>2. ASSUME NEW e \in Erasers, \/ Erase(e) \/ LockChain(e) \/ AnonymizeOwn(e) \/ Rechain(e)
                                    \/ DieEraser(e)
          PROVE  FALSE
      BY <1>1, <3>2 DEF Erase, LockChain, AnonymizeOwn, Rechain, DieEraser
    <3>3. ASSUME NEW e \in Erasers, EraseCommit(e), ~(plan[e].dirty \subseteq Ids(log))
          PROVE  FALSE
      BY <1>1, <3>3 DEF EraseCommit
    <3>4. ASSUME NEW k \in 1..Len(log), Retain(k) PROVE FALSE
      BY <1>1, <3>4 DEF Retain
    <3>5. CASE UNCHANGED auditVars
      BY <1>1, <3>5 DEF auditVars
    <3> QED BY <1>1, <3>1, <3>2, <3>3, <3>4, <3>5, Steps
  <2> DEFINE new == plan[e].rows
  <2> DEFINE d == Len(new) - Len(log)
  <2>2. /\ Planned(e) /\ Len(log') = Len(log) /\ erased' = erased \cup {subject[e]}
        /\ \A i \in 1..Len(log) : d + i \in 1..Len(new) /\ log'[i] = new[d + i]
    BY <1>1, <2>1, EraseCommitResult
  <2>3. u = subject[e]
    BY <1>1, <2>2
  <2>4. \A k \in 1..Len(new) : new[k].content.user = u => new[k].content.hidden
    BY <2>2, <2>3 DEF Planned
  <2> HIDE DEF new, d
  <2> QED BY <2>2, <2>4 DEF OwnRows
<1>2. AuditInv /\ [AuditNext]_auditVars =>
        [\A u \in erased' \ erased : OwnRows(log', u) = {}]_auditVars
  BY <1>1
<1> QED BY <1>2, AuditAlways, PTL DEF AuditSpec, ErasureIsComplete

------------------------------------------------------------------------------
(***************************************************************************)
(* Events that are lost.                                                   *)
(***************************************************************************)

\* Requests that will lose their event, or have lost it.
Losing == {w \in Requests : pc[w] \in {"finish", "done"} /\ route[w] = "commits" /\ row[w] = {}}

LossInv == IsFiniteSet(Losing) /\ Cardinality(Losing) <= faults

(* A row that follows the last one has a number that no row of the log has.  *)
LEMMA NumberIsFree ==
  ASSUME AuditInv, NEW r \in Row, Follows(r), NEW i \in 1..Len(log)
  PROVE  log[i].seq # r.seq
<1>1. LogInv /\ log \in Seq(Row) /\ Len(log) \in Nat
  BY LenProperties DEF AuditInv, HeldInv, AuditTypeOK
<1>2. Len(log) \in 1..Len(log) /\ log # <<>> /\ i \in Nat /\ i <= Len(log)
  BY <1>1, EmptySeq
<1>3. r.seq = log[Len(log)].seq + 1
  BY <1>2 DEF Follows
<1>4. log[i].seq \in Nat /\ log[Len(log)].seq \in Nat
  BY <1>1, <1>2, RowOf
<1>5. log[i].seq + Len(log) = log[Len(log)].seq + i
  BY <1>1, <1>2 DEF LogInv
<1> DEFINE a == log[i].seq
<1> DEFINE b == log[Len(log)].seq
<1> DEFINE n == Len(log)
<1> HIDE DEF a, b, n
<1>6. a \in Nat /\ b \in Nat /\ n \in Nat /\ i \in Nat /\ i <= n /\ a + n = b + i
  BY <1>1, <1>2, <1>4, <1>5 DEF a, b, n
<1>7. a # b + 1
  BY <1>6
<1> QED BY <1>3, <1>7 DEF a, b

LEMMA LosingStep ==
  ASSUME AuditInv, [AuditNext]_auditVars
  PROVE  \/ Losing' \subseteq Losing /\ faults' \in {faults, faults + 1}
         \/ \E w \in Requests : Losing' \subseteq Losing \cup {w} /\ faults' = faults + 1
<1> USE DEF Losing, Goto
<1>0. /\ pc \in [Procs -> {"idle", "lock", "read", "insert", "finish",
                           "own", "rechain", "commit", "done"}]
      /\ route \in [Requests -> {"commits", "closes"}]
      /\ row \in [Requests -> SUBSET Row]
      /\ Requests \subseteq Procs /\ Erasers \subseteq Procs /\ Requests \cap Erasers = {}
  BY AuditAssumption DEF AuditInv, HeldInv, AuditTypeOK, AuditAssumption, Procs
<1>1. ASSUME NEW w \in Requests, Act(w) \/ LockChain(w) PROVE Losing' \subseteq Losing /\ faults' = faults
  BY <1>0, <1>1 DEF Act, LockChain
<1>2. ASSUME NEW w \in Requests, ReadHead(w) PROVE Losing' \subseteq Losing /\ faults' = faults
  BY <1>0, <1>2 DEF ReadHead
<1>3. ASSUME NEW w \in Requests, Insert(w) PROVE Losing' \subseteq Losing /\ faults' = faults
  <2>1. PICK r \in row[w] :
          IF \E i \in 1..Len(log) : log[i].seq = r.seq
          THEN row' = [row EXCEPT ![w] = {}] /\ lock' = Released(w)
          ELSE UNCHANGED <<row, lock>>
    BY <1>3 DEF Insert
  <2>2. r \in Row /\ Follows(r) /\ pc' = [pc EXCEPT ![w] = "finish"]
        /\ UNCHANGED <<route, faults>>
    BY <1>0, <1>3 DEF Insert, AuditInv, NextInv
  <2>3. row' = row
    BY <2>1, <2>2, NumberIsFree
  <2> QED BY <1>0, <2>1, <2>2, <2>3
<1>4. ASSUME NEW w \in Requests, Refuse(w) \/ DieRequest(w)
      PROVE  Losing' \subseteq Losing \cup {w} /\ faults' = faults + 1
  BY <1>0, <1>4 DEF Refuse, DieRequest, Fault
<1>5. ASSUME NEW w \in Requests, Commit(w) \/ Close(w) PROVE Losing' \subseteq Losing /\ faults' = faults
  BY <1>0, <1>5 DEF Commit, Close
<1>6. ASSUME NEW e \in Erasers, \/ Erase(e) \/ LockChain(e) \/ AnonymizeOwn(e) \/ Rechain(e)
                                \/ EraseCommit(e)
      PROVE  Losing' \subseteq Losing /\ faults' = faults
  BY <1>0, <1>6 DEF Erase, LockChain, AnonymizeOwn, Rechain, EraseCommit, RollBack
<1>7. ASSUME NEW e \in Erasers, DieEraser(e) PROVE Losing' \subseteq Losing /\ faults' = faults + 1
  BY <1>0, <1>7 DEF DieEraser, RollBack, Fault
<1>8. ASSUME NEW k \in 1..Len(log), Retain(k) PROVE Losing' \subseteq Losing /\ faults' = faults
  BY <1>8 DEF Retain
<1>9. CASE UNCHANGED auditVars
  BY <1>9 DEF auditVars
<1> HIDE DEF Losing
<1> QED BY <1>1, <1>2, <1>3, <1>4, <1>5, <1>6, <1>7, <1>8, <1>9, Steps

LEMMA LossStep == AuditInv /\ LossInv /\ [AuditNext]_auditVars => LossInv'
<1> SUFFICES ASSUME AuditInv, LossInv, [AuditNext]_auditVars PROVE LossInv'
  OBVIOUS
<1>1. faults \in Nat /\ IsFiniteSet(Losing) /\ Cardinality(Losing) \in Nat /\ Cardinality(Losing) <= faults
  BY AuditAssumption, FS_CardinalityType DEF LossInv, AuditInv, HeldInv, AuditTypeOK, AuditAssumption
<1>2. CASE Losing' \subseteq Losing /\ faults' \in {faults, faults + 1}
  <2>1. IsFiniteSet(Losing') /\ Cardinality(Losing') <= Cardinality(Losing) /\ Cardinality(Losing') \in Nat
    BY <1>1, <1>2, FS_Subset, FS_CardinalityType
  <2> QED BY <1>1, <1>2, <2>1 DEF LossInv
<1>3. ASSUME NEW w \in Requests, Losing' \subseteq Losing \cup {w}, faults' = faults + 1 PROVE LossInv'
  <2>1. /\ IsFiniteSet(Losing \cup {w})
        /\ Cardinality(Losing \cup {w}) \in {Cardinality(Losing), Cardinality(Losing) + 1}
    BY <1>1, FS_AddElement
  <2>2. IsFiniteSet(Losing') /\ Cardinality(Losing') <= Cardinality(Losing \cup {w}) /\ Cardinality(Losing') \in Nat
    BY <1>3, <2>1, FS_Subset, FS_CardinalityType
  <2> QED BY <1>1, <1>3, <2>1, <2>2 DEF LossInv
<1> QED BY <1>2, <1>3, LosingStep

(* An event whose route commits is lost only by a fault, never to another    *)
(* writer (OnlyFaultsLoseEvents): the number of the row a writer makes under *)
(* the lock is free when it is inserted.                                     *)
THEOREM EventsSurviveWriters == AuditSpec => []OnlyFaultsLoseEvents
<1>1. AuditInit => LossInv
  <2> SUFFICES ASSUME AuditInit PROVE LossInv
    OBVIOUS
  <2>1. Losing = {}
    BY DEF AuditInit, Losing, Procs
  <2> QED BY <2>1, FS_EmptySet DEF AuditInit, LossInv
<1>2. AuditInv /\ LossInv => OnlyFaultsLoseEvents
  <2> SUFFICES ASSUME AuditInv, LossInv PROVE Cardinality(Lost) <= faults
    BY DEF OnlyFaultsLoseEvents
  <2>1. Lost \subseteq Losing
    BY DEF Lost, Losing
  <2>2. IsFiniteSet(Losing) /\ Cardinality(Losing) \in Nat /\ Cardinality(Losing) <= faults
    BY FS_CardinalityType DEF LossInv
  <2>3. IsFiniteSet(Lost) /\ Cardinality(Lost) <= Cardinality(Losing) /\ Cardinality(Lost) \in Nat
    BY <2>1, <2>2, FS_Subset, FS_CardinalityType
  <2>4. faults \in Nat
    BY AuditAssumption DEF AuditInv, HeldInv, AuditTypeOK, AuditAssumption
  <2> QED BY <2>2, <2>3, <2>4
<1> QED BY <1>1, <1>2, LossStep, AuditAlways, PTL DEF AuditSpec
==============================================================================
