---------------------------- MODULE PlanEmitProofs ----------------------------
(***************************************************************************)
(* What holds of the emission of a session for any number of replicas,     *)
(* children, faults and emits begun: its types, that one replica emits at  *)
(* a time, that a completed announcement is true, and that every duplicate *)
(* issue is accounted for.                                                 *)
(*                                                                         *)
(* The first part says what each step makes of the call it belongs to and  *)
(* that it leaves the other calls alone, or makes their copies stale; the  *)
(* properties then rest on invariants about calls.                         *)
(***************************************************************************)
EXTENDS PlanEmit, FiniteSetTheorems, SequenceTheorems, WellFoundedInduction, TLAPS

(***************************************************************************)
(* The next child without a number.                                        *)
(***************************************************************************)

LEMMA LeastNumber ==
  ASSUME NEW T \in SUBSET Nat, T # {}
  PROVE  \E a \in T : \A b \in T : a <= b
<1>1. PICK m \in T : TRUE
  OBVIOUS
<1> DEFINE up == {0..i : i \in {j \in T : j <= m}}
<1>2. up \subseteq FiniteSubsetsOf(0..m) /\ up # {}
  <2>1. ASSUME NEW i \in T, i <= m PROVE 0..i \in FiniteSubsetsOf(0..m)
    <3>1. IsFiniteSet(0..i)
      BY FS_Interval
    <3>2. 0..i \in SUBSET (0..m)
      BY <2>1
    <3> QED BY <3>1, <3>2 DEF FiniteSubsetsOf
  <2> QED BY <1>1, <2>1
<1>3. IsWellFoundedOn(StrictSubsetOrdering(0..m), FiniteSubsetsOf(0..m))
  BY FS_StrictSubsetOrderingWellFounded
<1>4. PICK x \in up : \A y \in up : ~(<<y, x>> \in StrictSubsetOrdering(0..m))
  <2> HIDE DEF up
  <2> QED BY <1>2, <1>3, WFMin
<1>5. PICK a \in T : a <= m /\ x = 0..a
  OBVIOUS
<1>6. ASSUME NEW b \in T, b < a PROVE FALSE
  <2>1. 0..b \in up
    BY <1>5, <1>6
  <2>2. 0..b \subseteq 0..a /\ a \in 0..a /\ a \notin 0..b /\ 0..a \subseteq 0..m
    BY <1>5, <1>6
  <2>3. <<0..b, 0..a>> \in StrictSubsetOrdering(0..m)
    BY <2>2 DEF StrictSubsetOrdering
  <2> QED BY <1>4, <1>5, <2>1, <2>3
<1> QED BY <1>6

LEMMA NextMissingResult ==
  ASSUME NEW doc \in Row, NEW k \in Issues
  PROVE  LET next == NextMissing(doc, k) IN
         /\ next \in (k + 1)..(N + 1)
         /\ next <= N => next \in Issues /\ doc.numbers[next] = 0
         /\ \A j \in Issues : k < j /\ j < next => doc.numbers[j] # 0
<1> DEFINE T == {i \in (k + 1)..(N + 1) : i <= N => doc.numbers[i] = 0}
           P(i) == /\ i <= N => doc.numbers[i] = 0
                   /\ \A j \in (k + 1)..(i - 1) : doc.numbers[j] # 0
<1>0. N \in Nat
  BY PlanEmitAssumption DEF PlanEmitAssumption
<1>1. k \in Nat /\ k <= N
  BY <1>0 DEF Issues
<1>2. N + 1 \in T /\ T \subseteq Nat
  BY <1>0, <1>1
<1>3. PICK a \in T : \A b \in T : a <= b
  <2> HIDE DEF T
  <2> QED BY <1>2, LeastNumber
<1>4. a \in (k + 1)..(N + 1) /\ P(a)
  BY <1>0, <1>1, <1>3
<1>5. NextMissing(doc, k) \in (k + 1)..(N + 1) /\ P(NextMissing(doc, k))
  <2>1. NextMissing(doc, k) = CHOOSE i \in (k + 1)..(N + 1) : P(i)
    BY DEF NextMissing
  <2> HIDE DEF P
  <2> QED BY <1>4, <2>1
<1>6. \A i \in (k + 1)..(N + 1), j \in Issues : k < j /\ j < i => j \in (k + 1)..(i - 1)
  BY <1>0, <1>1 DEF Issues
<1>7. \A i \in (k + 1)..(N + 1) : i <= N => i \in Issues
  BY <1>0, <1>1 DEF Issues
<1> QED BY <1>5, <1>6, <1>7

------------------------------------------------------------------------------
(***************************************************************************)
(* Calls.                                                                  *)
(***************************************************************************)

\* Where a call is in the loop, and what its copy knows there.
CallOK(c) ==
  /\ c.pc \in {"check", "copy", "refresh"} => c.at = 0
  /\ c.pc \in {"create", "report"} => c.at \in Issues
  /\ c.pc = "create" => c.doc.numbers[c.at] = 0
  /\ c.pc = "report" => c.doc.numbers[c.at] # 0
  /\ c.pc \in {"create", "report"} /\ ~c.errors =>
       \A j \in Issues : j < c.at => c.doc.numbers[j] # 0
  /\ c.pc = "announce" => \A j \in Issues : c.doc.numbers[j] # 0

CallInv == EmitTypeOK /\ \A r \in Replicas : Busy(r) => CallOK(call[r])

LEMMA Constants ==
  /\ N \in Nat /\ 0 \in Issues /\ 0 \in 0..(N + 1)
  /\ \A k \in Issues : k \in Nat /\ k \in 0..(N + 1)
  /\ NoNumbers \in [Issues -> Nat] /\ Unread \in Row
  /\ Idle \notin Call /\ Idle \notin Replicas /\ "dead" \notin Replicas /\ Idle # "dead"
  /\ IsFiniteSet(Replicas)
BY PlanEmitAssumption DEF PlanEmitAssumption, Issues, NoNumbers, Unread, Row, Reviews

LEMMA ClearedRow ==
  ASSUME NEW doc \in Row
  PROVE  /\ Cleared(doc) \in Row
         /\ Cleared(doc).numbers[0] = doc.numbers[0]
         /\ \A k \in Issues : k # 0 => Cleared(doc).numbers[k] = 0
<1>1. doc.numbers \in [Issues -> Nat] /\ doc.review \in Reviews /\ doc.emitted \in BOOLEAN
  BY DEF Row
<1>2. [NoNumbers EXCEPT ![0] = doc.numbers[0]] \in [Issues -> Nat]
  BY <1>1, Constants
<1>3. /\ Cleared(doc).numbers = [NoNumbers EXCEPT ![0] = doc.numbers[0]]
      /\ Cleared(doc).review = doc.review /\ Cleared(doc).emitted = doc.emitted
      /\ Cleared(doc) = [doc EXCEPT !.numbers = [NoNumbers EXCEPT ![0] = doc.numbers[0]]]
  BY DEF Cleared, Row
<1>4. Cleared(doc) \in Row
  BY <1>1, <1>2, <1>3 DEF Row
<1>5. Cleared(doc).numbers[0] = doc.numbers[0]
      /\ \A k \in Issues : k # 0 => Cleared(doc).numbers[k] = 0
  BY <1>3, Constants DEF NoNumbers
<1> QED BY <1>4, <1>5

\* Issue at of a call was dealt with; without errors, all before it are too.
LEMMA AfterIssueCall ==
  ASSUME NEW c \in Call, c.at \in Issues, NEW errors \in BOOLEAN,
         ~errors => \A j \in Issues : j <= c.at => c.doc.numbers[j] # 0
  PROVE  LET after == AfterIssue(c.doc, c.at, errors)
             next  == [c EXCEPT !.errors = errors, !.at = after.at, !.pc = after.pc]
         IN  /\ next \in Call /\ CallOK(next)
             /\ next.pc \in {"create", "save", "announce"}
<1> DEFINE at    == NextMissing(c.doc, c.at)
           pc    == IF at <= N THEN "create" ELSE IF errors THEN "save" ELSE "announce"
           next  == [c EXCEPT !.errors = errors, !.at = at, !.pc = pc]
<1>1. c.doc \in Row
  BY DEF Call
<1>2. /\ at \in (c.at + 1)..(N + 1)
      /\ at <= N => at \in Issues /\ c.doc.numbers[at] = 0
      /\ \A j \in Issues : c.at < j /\ j < at => c.doc.numbers[j] # 0
  BY <1>1, NextMissingResult
<1>3. at \in 0..(N + 1)
  BY <1>2, Constants
<1> HIDE DEF at
<1>4. pc \in {"create", "save", "announce"} /\ (pc = "create" <=> at <= N)
      /\ (pc = "announce" => ~errors /\ ~(at <= N))
  OBVIOUS
<1> HIDE DEF pc
<1>5. /\ next.pc = pc /\ next.at = at /\ next.errors = errors /\ next.doc = c.doc
      /\ next \in Call
  BY <1>3, <1>4 DEF Call, Steps
<1>6. ~errors => \A j \in Issues : j < at => c.doc.numbers[j] # 0
  BY <1>2, Constants
<1>7. \A j \in Issues : ~(at <= N) => j < at
  BY <1>3, Constants DEF Issues
<1>8. CallOK(next)
  BY <1>2, <1>4, <1>5, <1>6, <1>7 DEF CallOK
<1> QED BY <1>4, <1>5, <1>8 DEF AfterIssue, at, pc

------------------------------------------------------------------------------
(***************************************************************************)
(* What each step makes of its call.                                       *)
(***************************************************************************)

\* The other calls stay, or their copies become stale.
Others(r) ==
  \A s \in Replicas \ {r} :
    \/ call'[s] = call[s]
    \/ Busy(s) /\ call'[s] = [call[s] EXCEPT !.fresh = FALSE]

\* After a save, they are all stale.
OthersStale(r) == \A s \in Replicas \ {r} : Busy(s) => ~call'[s].fresh

\* The calls after a step of r are calls again.
Turn(r) ==
  /\ call' \in [Replicas -> Call \cup {Idle}]
  /\ \A s \in Replicas : Busy(s)' => CallOK(call'[s])
  /\ Others(r)

\* The call of r goes on as c.
Becomes(r, c) == Turn(r) /\ c \in Call /\ c # Idle /\ call'[r] = c

LEMMA StaleCall ==
  ASSUME NEW c \in Call, CallOK(c)
  PROVE  LET stale == [c EXCEPT !.fresh = FALSE] IN
         /\ stale \in Call /\ CallOK(stale) /\ ~stale.fresh
         /\ stale.op = c.op /\ stale.pc = c.pc /\ stale.doc = c.doc
         /\ stale.late = c.late /\ stale.at = c.at /\ stale.errors = c.errors
<1> DEFINE stale == [c EXCEPT !.fresh = FALSE]
<1>1. /\ stale \in Call /\ ~stale.fresh
      /\ stale.op = c.op /\ stale.pc = c.pc /\ stale.doc = c.doc
      /\ stale.late = c.late /\ stale.at = c.at /\ stale.errors = c.errors
  BY DEF Call
<1> HIDE DEF stale
<1>2. CallOK(stale)
  BY <1>1 DEF CallOK
<1> QED BY <1>1, <1>2 DEF stale

LEMMA TurnOf ==
  ASSUME CallInv, NEW r \in Replicas, NEW c \in Call \cup {Idle}, c # Idle => CallOK(c),
         call' = [s \in Replicas |-> call'[s]], call'[r] = c, Others(r)
  PROVE  Turn(r) /\ (c \in Call => Becomes(r, c))
<1>1. ASSUME NEW s \in Replicas
      PROVE  call'[s] \in Call \cup {Idle} /\ (call'[s] # Idle => CallOK(call'[s]))
  <2>1. call[s] \in Call \cup {Idle} /\ (call[s] # Idle => CallOK(call[s]))
    BY DEF CallInv, EmitTypeOK, Busy
  <2>2. CASE s = r
    BY <2>2
  <2>3. CASE s # r /\ call'[s] = call[s]
    BY <2>1, <2>3
  <2>4. CASE s # r /\ Busy(s) /\ call'[s] = [call[s] EXCEPT !.fresh = FALSE]
    BY <2>1, <2>4, StaleCall DEF Busy
  <2> QED BY <2>2, <2>3, <2>4 DEF Others
<1>2. Turn(r)
  BY <1>1 DEF Turn, Busy
<1> QED BY <1>2, Constants DEF Becomes

\* One call is changed, or ends.
LEMMA TurnExcept ==
  ASSUME CallInv, NEW r \in Replicas, NEW c \in Call \cup {Idle}, c # Idle => CallOK(c),
         call' = [call EXCEPT ![r] = c]
  PROVE  Turn(r) /\ call'[r] = c /\ (c \in Call => Becomes(r, c))
<1>1. call' = [s \in Replicas |-> call'[s]] /\ call'[r] = c /\ Others(r)
  BY DEF CallInv, EmitTypeOK, Others
<1> QED BY <1>1, TurnOf

\* A save commits and the call goes on as c.
LEMMA TurnSaved ==
  ASSUME CallInv, NEW r \in Replicas, NEW c \in Call \cup {Idle}, c # Idle => CallOK(c),
         NEW doc, NEW pc, call' = [Saved(r, doc, pc) EXCEPT ![r] = c]
  PROVE  /\ Turn(r) /\ call'[r] = c /\ (c \in Call => Becomes(r, c)) /\ OthersStale(r)
<1>1. /\ call' = [s \in Replicas |-> call'[s]] /\ call'[r] = c
      /\ \A s \in Replicas \ {r} :
           call'[s] = IF call[s] = Idle THEN Idle ELSE [call[s] EXCEPT !.fresh = FALSE]
  BY DEF Saved
<1>2. Others(r)
  BY <1>1 DEF Others, Busy
<1>3. OthersStale(r)
  <2> SUFFICES ASSUME NEW s \in Replicas \ {r}, Busy(s) PROVE ~call'[s].fresh
    BY DEF OthersStale
  <2>1. call[s] \in Call /\ CallOK(call[s])
    BY DEF CallInv, EmitTypeOK, Busy
  <2> QED BY <1>1, <2>1, StaleCall DEF Busy
<1> QED BY <1>1, <1>2, <1>3, TurnOf

LEMMA ThisCall ==
  ASSUME CallInv, NEW r \in Replicas, Busy(r)
  PROVE  /\ call[r] \in Call /\ CallOK(call[r]) /\ call[r].doc \in Row
         /\ call[r].at \in 0..(N + 1) /\ call[r].errors \in BOOLEAN
         /\ call[r].fresh \in BOOLEAN /\ call[r].late \in BOOLEAN
         /\ call[r].op \in {"live", "dry", "contract"} /\ call[r].pc \in Steps
BY DEF CallInv, EmitTypeOK, Busy, Call

\* A call that only goes on, to a step that asks nothing of it.
LEMMA GoesOn ==
  ASSUME CallInv, NEW r \in Replicas, Busy(r), NEW pc \in {"release", "save", "post"},
         Go(r, pc)
  PROVE  Becomes(r, [call[r] EXCEPT !.pc = pc])
<1> DEFINE c == [call[r] EXCEPT !.pc = pc]
<1>1. call[r] \in Call
  BY ThisCall
<1>2. c \in Call /\ c.pc = pc
  BY <1>1 DEF Call, Steps
<1>3. call' = [call EXCEPT ![r] = c]
  BY DEF Go
<1> HIDE DEF c
<1>4. CallOK(c)
  BY <1>2 DEF CallOK
<1> QED BY <1>2, <1>3, <1>4, TurnExcept, Constants DEF c

\* The call of r goes on under the same operation, at pc, with its copy as doc.
Continues(r, pc, doc) ==
  /\ Turn(r) /\ Busy(r) /\ Busy(r)' /\ call'[r] \in Call
  /\ call'[r].op = call[r].op /\ call'[r].pc = pc /\ call'[r].doc = doc

LEMMA BeginCall ==
  ASSUME CallInv, NEW r \in Replicas,
         BeginDry(r) \/ \E op \in Ops : BeginLive(r, op)
  PROVE  /\ Turn(r) /\ ~Busy(r) /\ Busy(r)' /\ call'[r] \in Call
         /\ call'[r].pc \in {"check", "copy"} /\ ~call'[r].fresh /\ call'[r].doc = Unread
         /\ call'[r].op = "dry" \/ (LeaseFree /\ lease' = [owner |-> r, lapsed |-> FALSE])
<1>1. CASE BeginDry(r)
  <2> DEFINE c == [op |-> "dry", pc |-> "copy", doc |-> Unread, fresh |-> FALSE,
                   late |-> FALSE, at |-> 0, errors |-> FALSE]
  <2>1. c \in Call /\ CallOK(c) /\ call' = [call EXCEPT ![r] = c] /\ ~Busy(r)
    BY <1>1, Constants DEF BeginDry, Call, Steps, CallOK
  <2>2. Turn(r) /\ call'[r] = c
    BY <2>1, TurnExcept
  <2>3. Busy(r)'
    BY <2>1, <2>2, Constants DEF Busy
  <2> QED BY <2>1, <2>2, <2>3
<1>2. ASSUME NEW op \in Ops, BeginLive(r, op)
      PROVE  /\ Turn(r) /\ ~Busy(r) /\ Busy(r)' /\ call'[r] \in Call
             /\ call'[r].pc \in {"check", "copy"} /\ ~call'[r].fresh /\ call'[r].doc = Unread
             /\ LeaseFree /\ lease' = [owner |-> r, lapsed |-> FALSE]
  <2> DEFINE c == [op |-> op, pc |-> IF op = "live" THEN "check" ELSE "copy",
                   doc |-> Unread, fresh |-> FALSE, late |-> FALSE, at |-> 0,
                   errors |-> FALSE]
  <2>0. op \in {"live", "contract"}
    BY <1>2 DEF BeginLive
  <2>1. c \in Call /\ CallOK(c) /\ call' = [call EXCEPT ![r] = c] /\ ~Busy(r)
    BY <1>2, <2>0, Constants DEF BeginLive, Call, Steps, CallOK
  <2>2. Turn(r) /\ call'[r] = c
    BY <2>1, TurnExcept
  <2>3. Busy(r)'
    BY <2>1, <2>2, Constants DEF Busy
  <2> QED BY <1>2, <2>1, <2>2, <2>3 DEF BeginLive
<1> QED BY <1>1, <1>2

LEMMA EndCall ==
  ASSUME CallInv, NEW r \in Replicas, Ended(r)
  PROVE  Turn(r) /\ ~Busy(r)'
BY TurnExcept DEF Ended, Busy

LEMMA CheckEmittedCall ==
  ASSUME CallInv, NEW r \in Replicas, CheckEmitted(r)
  PROVE  /\ \E pc \in {"release", "copy"} : Continues(r, pc, call[r].doc)
         /\ call'[r].late = call[r].late /\ call'[r].fresh = call[r].fresh
<1>1. Busy(r) /\ call[r].pc = "check"
  BY DEF CheckEmitted, At
<1>2. PICK pc \in {"release", "copy"} : Go(r, pc)
  BY DEF CheckEmitted
<1> DEFINE c == [call[r] EXCEPT !.pc = pc]
<1>3. call[r] \in Call /\ CallOK(call[r])
  BY <1>1, ThisCall
<1>4. /\ c \in Call /\ c.pc = pc /\ c.doc = call[r].doc /\ c.at = call[r].at
      /\ c.op = call[r].op /\ c.late = call[r].late /\ c.fresh = call[r].fresh
  BY <1>3 DEF Call, Steps
<1>5. call' = [call EXCEPT ![r] = c]
  BY <1>2 DEF Go
<1> HIDE DEF c
<1>6. CallOK(c)
  BY <1>1, <1>3, <1>4 DEF CallOK
<1>7. Turn(r) /\ call'[r] = c
  BY <1>4, <1>5, <1>6, TurnExcept
<1> QED BY <1>1, <1>4, <1>7, Constants DEF Continues, Busy

LEMMA CopyCall ==
  ASSUME CallInv, NEW r \in Replicas, Copy(r)
  PROVE  /\ \E pc \in {"save", "refresh", "release"} : Continues(r, pc, row)
         /\ call'[r].late = call[r].late /\ call'[r].fresh
<1>1. Busy(r) /\ call[r].pc = "copy"
  BY DEF Copy, At
<1> DEFINE to == CASE call[r].op = "dry"  -> "save"
                   [] call[r].op = "live" -> "refresh"
                   [] HardTier /\ row.review # "signed" /\ ~row.emitted -> "release"
                   [] OTHER -> "refresh"
           c == [call[r] EXCEPT !.doc = row, !.fresh = TRUE, !.pc = to]
<1>2. to \in {"save", "refresh", "release"}
  BY <1>1, ThisCall
<1>3. call' = [call EXCEPT ![r] = c]
  <2>1. call' = [call EXCEPT ![r].doc = row, ![r].fresh = TRUE, ![r].pc = to]
    BY DEF Copy
  <2> HIDE DEF to
  <2> DEFINE f == [call EXCEPT ![r] = [call[r] EXCEPT !.doc = row]]
             g == [f EXCEPT ![r] = [f[r] EXCEPT !.fresh = TRUE]]
  <2>2. call \in [Replicas -> Call \cup {Idle}]
    BY DEF CallInv, EmitTypeOK
  <2>3. f[r] = [call[r] EXCEPT !.doc = row]
    BY <2>2
  <2>4. g = [call EXCEPT ![r] = [call[r] EXCEPT !.doc = row, !.fresh = TRUE]]
        /\ g[r] = [call[r] EXCEPT !.doc = row, !.fresh = TRUE]
    BY <2>2, <2>3
  <2>5. call' = [g EXCEPT ![r] = [g[r] EXCEPT !.pc = to]]
    BY <2>1
  <2> HIDE DEF f, g
  <2>6. [g[r] EXCEPT !.pc = to] = c
    BY <2>4
  <2> QED BY <2>2, <2>4, <2>5, <2>6
<1> HIDE DEF to
<1>4. call[r] \in Call /\ CallOK(call[r]) /\ row \in Row
  BY <1>1, ThisCall DEF CallInv, EmitTypeOK
<1>5. /\ c \in Call /\ c.pc = to /\ c.doc = row /\ c.at = call[r].at /\ c.fresh
      /\ c.op = call[r].op /\ c.late = call[r].late
  BY <1>2, <1>4 DEF Call, Steps
<1> HIDE DEF c
<1>6. CallOK(c)
  BY <1>1, <1>2, <1>4, <1>5 DEF CallOK
<1>7. Turn(r) /\ call'[r] = c
  BY <1>3, <1>5, <1>6, TurnExcept
<1> QED BY <1>1, <1>2, <1>5, <1>7, Constants DEF Continues, Busy

LEMMA SaveDryRunCall ==
  ASSUME CallInv, NEW r \in Replicas, SaveDryRun(r)
  PROVE  /\ Turn(r) /\ ~Busy(r)'
         /\ call[r].fresh => OthersStale(r) /\ row' = Cleared(call[r].doc)
         /\ ~call[r].fresh => row' = row
<1>1. Busy(r) /\ call[r].fresh \in BOOLEAN
  BY ThisCall DEF SaveDryRun, Doing, At
<1>2. CASE call[r].fresh
  <2>1. call' = [Saved(r, Cleared(call[r].doc), "save") EXCEPT ![r] = Idle]
        /\ row' = Cleared(call[r].doc)
    BY <1>2 DEF SaveDryRun
  <2>2. Turn(r) /\ call'[r] = Idle /\ OthersStale(r)
    BY <2>1, TurnSaved
  <2> QED BY <1>2, <2>1, <2>2 DEF Busy
<1>3. CASE ~call[r].fresh
  <2>1. call' = [call EXCEPT ![r] = Idle] /\ row' = row
    BY <1>3 DEF SaveDryRun
  <2>2. Turn(r) /\ call'[r] = Idle
    BY <2>1, TurnExcept
  <2> QED BY <1>3, <2>1, <2>2 DEF Busy
<1> QED BY <1>1, <1>2, <1>3

LEMMA RefreshCall ==
  ASSUME CallInv, NEW r \in Replicas, Refresh(r)
  PROVE  /\ \/ /\ call'[r].pc \in {"release", "post", "create", "report"}
               /\ Continues(r, call'[r].pc, call[r].doc)
            \/ Continues(r, "save", Cleared(call[r].doc))
         /\ call'[r].late = call[r].late /\ call'[r].fresh = call[r].fresh
         /\ call[r].fresh => OthersStale(r)
         /\ ~call[r].fresh => call'[r].pc = "release"
         /\ call'[r].at = 0
<1>0. Busy(r) /\ call[r].pc = "refresh"
  BY DEF Refresh, At
<1>1. /\ call[r] \in Call /\ CallOK(call[r]) /\ call[r].doc \in Row /\ call[r].at = 0
      /\ call[r].fresh \in BOOLEAN
  BY <1>0, ThisCall DEF CallOK
<1> DEFINE doc == call[r].doc
<1>2. CASE ~call[r].fresh
  <2>1. Go(r, "release")
    BY <1>2 DEF Refresh
  <2>2. Becomes(r, [call[r] EXCEPT !.pc = "release"])
    BY <1>0, <2>1, GoesOn
  <2> QED BY <1>0, <1>1, <1>2, <2>2 DEF Becomes, Continues, Busy, Call
<1>3. CASE call[r].fresh
  <2>1. PICK to \in {"release", "post", "create", "report", "save"} :
          /\ to = "create" => doc.numbers[0] = 0
          /\ to = "report" => doc.numbers[0] # 0
          /\ call' = [Saved(r, doc, to) EXCEPT
                        ![r].doc = IF to = "save" THEN Cleared(@) ELSE @]
    <3>1. PICK b \in Blocks : TRUE /\
            LET ready == doc.review = "signed" /\ ~b
                to    == CASE call[r].op = "contract" -> IF b THEN "release" ELSE "post"
                           [] ready -> IF doc.numbers[0] = 0 THEN "create" ELSE "report"
                           [] OTHER -> "save"
            IN call' = [Saved(r, doc, to) EXCEPT
                          ![r].doc = IF to = "save" THEN Cleared(@) ELSE @]
      BY <1>3 DEF Refresh
    <3> DEFINE ready == doc.review = "signed" /\ ~b
               to    == CASE call[r].op = "contract" -> IF b THEN "release" ELSE "post"
                          [] ready -> IF doc.numbers[0] = 0 THEN "create" ELSE "report"
                          [] OTHER -> "save"
    <3>2. /\ to \in {"release", "post", "create", "report", "save"}
          /\ to = "create" => doc.numbers[0] = 0
          /\ to = "report" => doc.numbers[0] # 0
      BY <1>0, ThisCall
    <3>3. call' = [Saved(r, doc, to) EXCEPT
                      ![r].doc = IF to = "save" THEN Cleared(@) ELSE @]
      BY <3>1
    <3> HIDE DEF to
    <3> QED BY <3>2, <3>3
  <2> DEFINE new == IF to = "save" THEN Cleared(doc) ELSE doc
             c   == [call[r] EXCEPT !.doc = new, !.fresh = TRUE, !.pc = to]
  <2>2. new \in Row
    BY <1>1, ClearedRow
  <2>3. to # "save" => new = doc
    OBVIOUS
  <2>4. call' = [Saved(r, doc, to) EXCEPT ![r] = c]
    <3>1. Saved(r, doc, to)[r] = [call[r] EXCEPT !.doc = doc, !.fresh = TRUE, !.pc = to]
      BY DEF Saved
    <3>2. [Saved(r, doc, to)[r] EXCEPT !.doc = new] = c
      BY <1>1, <3>1 DEF Call
    <3>3. Saved(r, doc, to)[r].doc = doc
      BY <1>1, <3>1 DEF Call
    <3> QED BY <2>1, <3>2, <3>3
  <2> HIDE DEF new
  <2>5. /\ c \in Call /\ c.pc = to /\ c.doc = new /\ c.at = 0 /\ c.fresh
        /\ c.op = call[r].op /\ c.late = call[r].late /\ c.errors = call[r].errors
    BY <1>1, <2>2 DEF Call, Steps
  <2> HIDE DEF c
  <2>6. CallOK(c)
    BY <2>1, <2>3, <2>5, Constants DEF CallOK
  <2>7. Turn(r) /\ call'[r] = c /\ OthersStale(r)
    BY <2>4, <2>5, <2>6, TurnSaved
  <2>8. Busy(r)'
    BY <2>5, <2>7, Constants DEF Busy
  <2>9. Continues(r, to, new)
    BY <1>0, <2>5, <2>7, <2>8 DEF Continues
  <2>10. /\ call'[r].late = call[r].late /\ call'[r].fresh /\ call'[r].at = 0
         /\ call'[r].pc = to
    BY <2>5, <2>7
  <2>11. CASE to = "save"
    BY <1>1, <1>3, <2>7, <2>9, <2>10, <2>11 DEF new
  <2>12. CASE to # "save"
    BY <1>1, <1>3, <2>1, <2>3, <2>7, <2>9, <2>10, <2>12
  <2> QED BY <2>11, <2>12
<1> QED BY <1>1, <1>2, <1>3

LEMMA UnreviewedCall ==
  ASSUME CallInv, NEW r \in Replicas, Unreviewed(r)
  PROVE  /\ Continues(r, call'[r].pc, call[r].doc)
         /\ call'[r].pc \in {"post", "create", "report"} /\ call'[r].at = 0
         /\ call'[r].late = call[r].late /\ call'[r].fresh = call[r].fresh
<1>1. Busy(r) /\ call[r].pc = "refresh"
  BY DEF Unreviewed, At
<1>2. call[r] \in Call /\ CallOK(call[r]) /\ call[r].at = 0
  BY <1>1, ThisCall DEF CallOK
<1>3. PICK pc \in {"post", "create", "report"} :
        /\ pc = "create" => call[r].doc.numbers[0] = 0
        /\ pc = "report" => call[r].doc.numbers[0] # 0
        /\ Go(r, pc)
  BY DEF Unreviewed
<1> DEFINE c == [call[r] EXCEPT !.pc = pc]
<1>4. /\ c \in Call /\ c.pc = pc /\ c.doc = call[r].doc /\ c.at = 0
      /\ c.op = call[r].op /\ c.late = call[r].late /\ c.fresh = call[r].fresh
  BY <1>2 DEF Call, Steps
<1>5. call' = [call EXCEPT ![r] = c]
  BY <1>3 DEF Go
<1> HIDE DEF c
<1>6. CallOK(c)
  BY <1>3, <1>4, Constants DEF CallOK
<1>7. Turn(r) /\ call'[r] = c
  BY <1>4, <1>5, <1>6, TurnExcept
<1> QED BY <1>1, <1>4, <1>7, Constants DEF Continues, Busy

LEMMA CreateIssueCall ==
  ASSUME CallInv, NEW r \in Replicas, CreateIssue(r)
  PROVE  /\ Continues(r, "report", Numbered(r)) /\ call'[r].late = call[r].late
         /\ call'[r].fresh = call[r].fresh /\ call'[r].at = call[r].at
         /\ call'[r].errors = call[r].errors
<1>1. Busy(r) /\ call[r].pc = "create"
  BY DEF CreateIssue, At
<1>2. /\ call[r] \in Call /\ CallOK(call[r]) /\ call[r].doc \in Row
      /\ call[r].at \in Issues
  BY <1>1, ThisCall DEF CallOK
<1>3. Len(issues) \in Nat /\ Len(issues) + 1 \in Nat /\ Len(issues) + 1 # 0
  BY LenProperties DEF CallInv, EmitTypeOK
<1> DEFINE n == Len(issues) + 1
           doc == Numbered(r)
           c == [call[r] EXCEPT !.doc = doc, !.pc = "report"]
<1>4. /\ doc \in Row /\ doc.numbers[call[r].at] # 0
      /\ \A j \in Issues : j < call[r].at => doc.numbers[j] = call[r].doc.numbers[j]
  <2>1. /\ doc = [call[r].doc EXCEPT !.numbers[call[r].at] = n]
        /\ doc.numbers = [call[r].doc.numbers EXCEPT ![call[r].at] = n]
    BY <1>2 DEF Numbered, Row
  <2>2. call[r].doc.numbers \in [Issues -> Nat]
    BY <1>2 DEF Row
  <2>3. n \in Nat /\ n # 0
    BY <1>3
  <2> HIDE DEF n
  <2>4. doc.numbers \in [Issues -> Nat] /\ doc.numbers[call[r].at] = n
    BY <1>2, <2>1, <2>2, <2>3
  <2>5. \A j \in Issues : j # call[r].at => doc.numbers[j] = call[r].doc.numbers[j]
    BY <1>2, <2>1, <2>2
  <2>6. \A j \in Issues : j < call[r].at => j # call[r].at
    BY <1>2, Constants
  <2> QED BY <1>2, <2>1, <2>3, <2>4, <2>5, <2>6 DEF Row
<1>5. call' = [call EXCEPT ![r] = c]
  <2>1. call' = [call EXCEPT ![r].doc = doc, ![r].pc = "report"]
    BY DEF CreateIssue
  <2> HIDE DEF doc
  <2> DEFINE f == [call EXCEPT ![r] = [call[r] EXCEPT !.doc = doc]]
  <2>2. call \in [Replicas -> Call \cup {Idle}]
    BY DEF CallInv, EmitTypeOK
  <2>3. f[r] = [call[r] EXCEPT !.doc = doc]
    BY <2>2
  <2>4. call' = [f EXCEPT ![r] = [f[r] EXCEPT !.pc = "report"]]
    BY <2>1
  <2> HIDE DEF f
  <2>5. [f[r] EXCEPT !.pc = "report"] = c
    BY <2>3
  <2> QED BY <2>2, <2>4, <2>5 DEF f
<1> HIDE DEF doc, n
<1>6. /\ c \in Call /\ c.pc = "report" /\ c.doc = doc /\ c.at = call[r].at
      /\ c.op = call[r].op /\ c.late = call[r].late /\ c.fresh = call[r].fresh
      /\ c.errors = call[r].errors
  BY <1>2, <1>4 DEF Call, Steps
<1> HIDE DEF c
<1>7. CallOK(c)
  BY <1>1, <1>2, <1>4, <1>6 DEF CallOK
<1>8. Turn(r) /\ call'[r] = c
  BY <1>5, <1>6, <1>7, TurnExcept
<1> QED BY <1>1, <1>6, <1>8, Constants DEF Continues, Busy, doc

\* What a failure makes of the call.
LEMMA FailedCall ==
  ASSUME CallInv, NEW r \in Replicas, At(r, "create")
  PROVE  LET c == Failed(r) IN
         /\ c \in Call /\ CallOK(c) /\ c.doc = call[r].doc /\ c.op = call[r].op
         /\ c.late = call[r].late /\ c.fresh = call[r].fresh
         /\ c.pc \in {"create", "save"} /\ c.errors
<1>1. /\ call[r] \in Call /\ CallOK(call[r]) /\ call[r].at \in Issues
  BY ThisCall DEF At, CallOK
<1>2. CASE call[r].at = 0
  <2> DEFINE c == [call[r] EXCEPT !.errors = TRUE, !.pc = "save"]
  <2>1. /\ c \in Call /\ c.pc = "save" /\ c.doc = call[r].doc /\ c.op = call[r].op
        /\ c.late = call[r].late /\ c.fresh = call[r].fresh /\ c.errors
    BY <1>1 DEF Call, Steps
  <2>2. Failed(r) = c
    BY <1>2 DEF Failed
  <2> HIDE DEF c
  <2>3. CallOK(c)
    BY <2>1 DEF CallOK
  <2> QED BY <2>1, <2>2, <2>3
<1>3. CASE call[r].at # 0
  <2> DEFINE after == AfterIssue(call[r].doc, call[r].at, TRUE)
             c == [call[r] EXCEPT !.errors = TRUE, !.at = after.at, !.pc = after.pc]
  <2>1. Failed(r) = c
    BY <1>3 DEF Failed
  <2>2. c \in Call /\ CallOK(c) /\ c.pc \in {"create", "save", "announce"}
    BY <1>1, AfterIssueCall
  <2>3. after.pc # "announce"
    BY DEF AfterIssue
  <2> HIDE DEF after
  <2>4. /\ c.doc = call[r].doc /\ c.op = call[r].op /\ c.late = call[r].late
        /\ c.fresh = call[r].fresh /\ c.errors /\ c.pc = after.pc
    BY <1>1 DEF Call
  <2> QED BY <2>1, <2>2, <2>3, <2>4
<1> QED BY <1>2, <1>3

\* A creation that fails, or whose answer is lost.
LEMMA FailureCall ==
  ASSUME CallInv, NEW r \in Replicas, At(r, "create"), call' = [call EXCEPT ![r] = Failed(r)]
  PROVE  /\ \E pc \in {"create", "save"} : Continues(r, pc, call[r].doc)
         /\ call'[r].late = call[r].late /\ call'[r].fresh = call[r].fresh
         /\ call'[r].errors
<1> DEFINE c == Failed(r)
<1>1. /\ c \in Call /\ CallOK(c) /\ c.doc = call[r].doc /\ c.op = call[r].op
      /\ c.late = call[r].late /\ c.fresh = call[r].fresh
      /\ c.pc \in {"create", "save"} /\ c.errors
  BY FailedCall
<1> HIDE DEF c
<1>2. Turn(r) /\ call'[r] = c
  BY <1>1, TurnExcept DEF c
<1> QED BY <1>1, <1>2, Constants DEF Continues, Busy, At

LEMMA ReportCall ==
  ASSUME CallInv, NEW r \in Replicas, Report(r)
  PROVE  /\ \E pc \in {"create", "save", "announce"} : Continues(r, pc, call[r].doc)
         /\ call'[r].late = call[r].late /\ call'[r].fresh = call[r].fresh
         /\ call[r].fresh => OthersStale(r) /\ row' = call[r].doc /\ slips' = slips
         /\ ~call[r].fresh =>
              /\ row' = row
              /\ slips' = IF Unrecorded(r) THEN [slips EXCEPT ![call[r].at] = @ + 1]
                          ELSE slips
<1>1. Busy(r) /\ call[r].pc = "report"
  BY DEF Report, At
<1>2. /\ call[r] \in Call /\ CallOK(call[r]) /\ call[r].at \in Issues
      /\ call[r].errors \in BOOLEAN /\ call[r].fresh \in BOOLEAN
  BY <1>1, ThisCall DEF CallOK
<1>3. ~call[r].errors => \A j \in Issues : j <= call[r].at => call[r].doc.numbers[j] # 0
  <2>1. \A j \in Issues : j <= call[r].at => j < call[r].at \/ j = call[r].at
    BY <1>2, Constants
  <2> QED BY <1>1, <1>2, <2>1 DEF CallOK
<1> DEFINE after == AfterIssue(call[r].doc, call[r].at, call[r].errors)
           c     == [call[r] EXCEPT !.at = after.at, !.pc = after.pc]
           d     == [call[r] EXCEPT !.errors = call[r].errors, !.at = after.at,
                                    !.pc = after.pc]
<1>4. d \in Call /\ CallOK(d) /\ d.pc \in {"create", "save", "announce"}
  BY <1>2, <1>3, AfterIssueCall
<1>5. IF call[r].fresh
      THEN /\ row' = call[r].doc /\ slips' = slips
           /\ call' = [Saved(r, call[r].doc, "report") EXCEPT ![r] = c]
      ELSE /\ call' = [call EXCEPT ![r] = c] /\ row' = row
           /\ slips' = IF Unrecorded(r) THEN [slips EXCEPT ![call[r].at] = @ + 1]
                       ELSE slips
  BY DEF Report, Reported
<1> HIDE DEF after
<1>6. c = d
  BY <1>2 DEF Call
<1>7. /\ c.doc = call[r].doc /\ c.op = call[r].op /\ c.late = call[r].late
      /\ c.fresh = call[r].fresh
  BY <1>2 DEF Call
<1> HIDE DEF c, d
<1>8. Turn(r) /\ call'[r] = c /\ (call[r].fresh => OthersStale(r))
  BY <1>2, <1>4, <1>5, <1>6, TurnExcept, TurnSaved
<1> QED BY <1>1, <1>2, <1>4, <1>5, <1>6, <1>7, <1>8, Constants DEF Continues, Busy

\* The emit succeeded: its copy says so, and the last save follows.
LEMMA EmittedCall ==
  ASSUME CallInv, NEW r \in Replicas, Busy(r),
         call' = [call EXCEPT ![r].doc.emitted = TRUE, ![r].pc = "save"]
  PROVE  /\ Continues(r, "save", [call[r].doc EXCEPT !.emitted = TRUE])
         /\ call'[r].late = call[r].late /\ call'[r].fresh = call[r].fresh
<1>1. call[r] \in Call /\ CallOK(call[r]) /\ call[r].doc \in Row
  BY ThisCall
<1> DEFINE doc == [call[r].doc EXCEPT !.emitted = TRUE]
           c == [call[r] EXCEPT !.doc = doc, !.pc = "save"]
<1>2. doc \in Row
  BY <1>1 DEF Row
<1>3. call' = [call EXCEPT ![r] = c]
  <2> DEFINE f == [call EXCEPT ![r] = [call[r] EXCEPT !.doc = doc]]
  <2>1. call \in [Replicas -> Call \cup {Idle}]
    BY DEF CallInv, EmitTypeOK
  <2>2. f[r] = [call[r] EXCEPT !.doc = doc]
    BY <2>1
  <2>3. call' = [f EXCEPT ![r] = [f[r] EXCEPT !.pc = "save"]]
    OBVIOUS
  <2> HIDE DEF f
  <2>4. [f[r] EXCEPT !.pc = "save"] = c
    BY <2>2
  <2> QED BY <2>1, <2>3, <2>4 DEF f
<1> HIDE DEF doc
<1>4. /\ c \in Call /\ c.pc = "save" /\ c.doc = doc /\ c.op = call[r].op
      /\ c.late = call[r].late /\ c.fresh = call[r].fresh
  BY <1>1, <1>2 DEF Call, Steps
<1> HIDE DEF c
<1>5. CallOK(c)
  BY <1>4 DEF CallOK
<1>6. Turn(r) /\ call'[r] = c
  BY <1>3, <1>4, <1>5, TurnExcept
<1> QED BY <1>4, <1>6, Constants DEF Continues, Busy, doc

LEMMA AnnounceCall ==
  ASSUME CallInv, NEW r \in Replicas, Announce(r)
  PROVE  /\ Continues(r, "save", [call[r].doc EXCEPT !.emitted = TRUE])
         /\ call'[r].late = call[r].late /\ call'[r].fresh = call[r].fresh
<1>1. Busy(r) /\ call[r].pc = "announce"
  BY DEF Announce, At
<1> QED BY <1>1, EmittedCall DEF Announce

LEMMA PostContractCall ==
  ASSUME CallInv, NEW r \in Replicas, PostContract(r)
  PROVE  /\ \/ Continues(r, "save", [call[r].doc EXCEPT !.emitted = TRUE])
            \/ Continues(r, "save", call[r].doc)
         /\ call'[r].late = call[r].late /\ call'[r].fresh = call[r].fresh
<1>1. Busy(r) /\ call[r].pc = "post"
  BY DEF PostContract, At
<1>2. CASE call' = [call EXCEPT ![r].doc.emitted = TRUE, ![r].pc = "save"]
  BY <1>1, <1>2, EmittedCall
<1>3. CASE Go(r, "save")
  <2>1. Becomes(r, [call[r] EXCEPT !.pc = "save"])
    BY <1>1, <1>3, GoesOn
  <2>2. call[r] \in Call
    BY <1>1, ThisCall
  <2> QED BY <1>1, <2>1, <2>2 DEF Becomes, Continues, Busy, Call
<1> QED BY <1>2, <1>3 DEF PostContract

LEMMA FinalSaveCall ==
  ASSUME CallInv, NEW r \in Replicas, FinalSave(r)
  PROVE  /\ Continues(r, "release", call[r].doc)
         /\ call'[r].late = call[r].late /\ call'[r].fresh = call[r].fresh
         /\ call[r].fresh => OthersStale(r) /\ row' = call[r].doc
         /\ ~call[r].fresh => row' = row
<1>1. Busy(r) /\ call[r].pc = "save"
  BY DEF FinalSave, At
<1>2. call[r] \in Call /\ call[r].fresh \in BOOLEAN
  BY <1>1, ThisCall
<1> DEFINE c == [call[r] EXCEPT !.pc = "release"]
<1>3. /\ c \in Call /\ c.pc = "release" /\ c.doc = call[r].doc
      /\ c.op = call[r].op /\ c.late = call[r].late /\ c.fresh = call[r].fresh
  BY <1>2 DEF Call, Steps
<1>4. CASE ~call[r].fresh
  <2>1. call' = [call EXCEPT ![r] = c] /\ row' = row
    BY <1>4 DEF FinalSave
  <2> HIDE DEF c
  <2>2. CallOK(c)
    BY <1>3 DEF CallOK
  <2>3. Turn(r) /\ call'[r] = c
    BY <1>3, <2>1, <2>2, TurnExcept
  <2> QED BY <1>1, <1>3, <1>4, <2>1, <2>3, Constants DEF Continues, Busy
<1>5. CASE call[r].fresh
  <2>1. call' = Saved(r, call[r].doc, "release") /\ row' = call[r].doc
    BY <1>5 DEF FinalSave
  <2>2. Saved(r, call[r].doc, "release")[r] = c
    <3>1. Saved(r, call[r].doc, "release")[r]
            = [call[r] EXCEPT !.doc = call[r].doc, !.fresh = TRUE, !.pc = "release"]
      BY DEF Saved
    <3>2. @ = c
      BY <1>2, <1>5 DEF Call
    <3> QED BY <3>1, <3>2
  <2>3. call' = [Saved(r, call[r].doc, "release") EXCEPT ![r] = c]
    <3> DEFINE f == Saved(r, call[r].doc, "release")
    <3>1. f = [s \in Replicas |-> f[s]]
      BY DEF Saved
    <3> HIDE DEF f, c
    <3>2. f = [f EXCEPT ![r] = f[r]]
      BY <3>1
    <3> QED BY <2>1, <2>2, <3>2 DEF f
  <2> HIDE DEF c
  <2>4. CallOK(c)
    BY <1>3 DEF CallOK
  <2>5. Turn(r) /\ call'[r] = c /\ OthersStale(r)
    BY <1>3, <2>3, <2>4, TurnSaved
  <2> QED BY <1>1, <1>3, <1>5, <2>1, <2>5, Constants DEF Continues, Busy
<1> QED BY <1>2, <1>4, <1>5

LEMMA LeaseOutlivedCall ==
  ASSUME CallInv, NEW r \in Replicas, LeaseOutlived(r)
  PROVE  /\ Continues(r, call[r].pc, call[r].doc)
         /\ call'[r].late /\ call'[r].fresh = call[r].fresh
         /\ call'[r].at = call[r].at
<1>1. Busy(r)
  BY DEF LeaseOutlived
<1>2. call[r] \in Call /\ CallOK(call[r])
  BY <1>1, ThisCall
<1> DEFINE c == [call[r] EXCEPT !.late = TRUE]
<1>3. /\ c \in Call /\ c.pc = call[r].pc /\ c.doc = call[r].doc /\ c.at = call[r].at
      /\ c.op = call[r].op /\ c.late /\ c.fresh = call[r].fresh /\ c.errors = call[r].errors
  BY <1>2 DEF Call
<1>4. call' = [call EXCEPT ![r] = c]
  BY DEF LeaseOutlived
<1> HIDE DEF c
<1>5. CallOK(c)
  BY <1>2, <1>3 DEF CallOK
<1>6. Turn(r) /\ call'[r] = c
  BY <1>3, <1>4, <1>5, TurnExcept
<1> QED BY <1>1, <1>3, <1>6, Constants DEF Continues, Busy

\* Every call goes on as it was, with a stale copy.
LEMMA TouchCalls ==
  ASSUME CallInv, Touch
  PROVE  /\ call' \in [Replicas -> Call \cup {Idle}]
         /\ \A s \in Replicas : /\ Busy(s)' <=> Busy(s)
                                /\ Busy(s) => /\ call'[s] = [call[s] EXCEPT !.fresh = FALSE]
                                              /\ CallOK(call'[s])
         /\ row' \in Row /\ row'.numbers = row.numbers
<1>1. ASSUME NEW s \in Replicas
      PROVE  /\ call'[s] \in Call \cup {Idle} /\ (Busy(s)' <=> Busy(s))
             /\ Busy(s) => /\ call'[s] = [call[s] EXCEPT !.fresh = FALSE]
                           /\ CallOK(call'[s])
  <2>1. CASE Busy(s)
    <3>1. call[s] \in Call /\ CallOK(call[s])
      BY <2>1, ThisCall
    <3>2. call'[s] = [call[s] EXCEPT !.fresh = FALSE]
      BY <2>1 DEF Touch, Busy
    <3> QED BY <2>1, <3>1, <3>2, StaleCall, Constants DEF Busy
  <2>2. CASE ~Busy(s)
    BY <2>2 DEF Touch, Busy
  <2> QED BY <2>1, <2>2
<1>2. call' = [s \in Replicas |-> call'[s]]
  BY DEF Touch
<1>3. PICK review \in SignOffs, emitted \in {FALSE, row.emitted} :
        row' = [row EXCEPT !.review = review, !.emitted = emitted]
  BY DEF Touch
<1>4. row \in Row /\ review \in Reviews
  BY PlanEmitAssumption DEF PlanEmitAssumption, CallInv, EmitTypeOK
<1>5. row' \in Row /\ row'.numbers = row.numbers
  BY <1>3, <1>4 DEF Row
<1> QED BY <1>1, <1>2, <1>5

------------------------------------------------------------------------------
(***************************************************************************)
(* The types.                                                              *)
(***************************************************************************)

\* A step of r takes a turn of r and leaves the other calls alone.
LEMMA StepTurn ==
  ASSUME CallInv, NEW r \in Replicas,
         \/ BeginDry(r) \/ (\E op \in Ops : BeginLive(r, op)) \/ EmitStep(r)
         \/ Kill(r) \/ LeaseOutlived(r)
  PROVE  Turn(r)
<1>1. CASE BeginDry(r) \/ (\E op \in Ops : BeginLive(r, op))
  BY <1>1, BeginCall
<1>2. CASE CheckEmitted(r)
  BY <1>2, CheckEmittedCall DEF Continues
<1>3. CASE Copy(r)
  BY <1>3, CopyCall DEF Continues
<1>4. CASE SaveDryRun(r)
  BY <1>4, SaveDryRunCall
<1>5. CASE Refresh(r)
  BY <1>5, RefreshCall DEF Continues
<1>6. CASE CreateIssue(r)
  BY <1>6, CreateIssueCall DEF Continues
<1>7. CASE CreateFails(r)
  BY <1>7, FailureCall DEF CreateFails, Continues
<1>8. CASE CreateAnswerLost(r)
  <2>1. At(r, "create")
    BY <1>8 DEF CreateAnswerLost
  <2>2. CASE UNCHANGED call
    <3>1. Busy(r)
      BY <2>1 DEF At
    <3>2. call[r] \in Call /\ CallOK(call[r])
      BY <3>1, ThisCall
    <3>3. call' = [call EXCEPT ![r] = call[r]]
      BY <2>2 DEF CallInv, EmitTypeOK
    <3> QED BY <3>2, <3>3, TurnExcept
  <2>3. CASE call' = [call EXCEPT ![r] = Failed(r)]
    BY <2>1, <2>3, FailureCall DEF Continues
  <2> QED BY <1>8, <2>2, <2>3 DEF CreateAnswerLost
<1>9. CASE Report(r)
  BY <1>9, ReportCall DEF Continues
<1>10. CASE Announce(r)
  BY <1>10, AnnounceCall DEF Continues
<1>11. CASE PostContract(r)
  BY <1>11, PostContractCall DEF Continues
<1>12. CASE FinalSave(r)
  BY <1>12, FinalSaveCall DEF Continues
<1>13. CASE Release(r)
  BY <1>13, EndCall DEF Release
<1>14. CASE Kill(r)
  BY <1>14, EndCall DEF Kill
<1>15. CASE LeaseOutlived(r)
  BY <1>15, LeaseOutlivedCall DEF Continues
<1>16. CASE Unreviewed(r)
  BY <1>16, UnreviewedCall DEF Continues
<1> QED
  BY <1>1, <1>2, <1>3, <1>4, <1>5, <1>6, <1>7, <1>8, <1>9, <1>10, <1>11, <1>12, <1>13,
     <1>14, <1>15, <1>16 DEF EmitStep

\* Counting a number that is left out.
LEMMA Slip ==
  ASSUME slips \in [Issues -> Nat], NEW k \in Issues
  PROVE  /\ [slips EXCEPT ![k] = @ + 1] \in [Issues -> Nat]
         /\ [slips EXCEPT ![k] = @ + 1][k] = slips[k] + 1
         /\ \A j \in Issues \ {k} : [slips EXCEPT ![k] = @ + 1][j] = slips[j]
<1>1. slips[k] + 1 \in Nat
  OBVIOUS
<1> DEFINE n == slips[k] + 1
<1> HIDE DEF n
<1>2. n \in Nat
  BY <1>1 DEF n
<1>3. [slips EXCEPT ![k] = n] \in [Issues -> Nat] /\ [slips EXCEPT ![k] = n][k] = n
      /\ \A j \in Issues \ {k} : [slips EXCEPT ![k] = n][j] = slips[j]
  BY <1>2
<1> QED BY <1>3 DEF n

\* The row, the record of slips and the issues keep their types.
LEMMA StepRecords ==
  ASSUME CallInv, NEW r \in Replicas, EmitStep(r) \/ Kill(r)
  PROVE  row' \in Row /\ slips' \in [Issues -> Nat] /\ issues' \in Seq(Issues)
<1>0. row \in Row /\ slips \in [Issues -> Nat] /\ issues \in Seq(Issues)
  BY DEF CallInv, EmitTypeOK
<1>1. ASSUME NEW doc PROVE SlipsWhenSaved(r, doc) \in [Issues -> Nat]
  BY <1>0 DEF SlipsWhenSaved
<1>2. ASSUME Busy(r) PROVE call[r].doc \in Row /\ Cleared(call[r].doc) \in Row
  BY <1>2, ThisCall, ClearedRow
<1>3. ASSUME At(r, "create") \/ At(r, "report")
      PROVE  /\ call[r].at \in Issues
             /\ [slips EXCEPT ![call[r].at] = @ + 1] \in [Issues -> Nat]
             /\ Append(issues, call[r].at) \in Seq(Issues)
  <2>1. call[r].at \in Issues
    BY <1>3, ThisCall DEF At, CallOK
  <2> QED BY <1>0, <2>1, Slip, AppendProperties
<1>4. CASE SaveDryRun(r)
  BY <1>0, <1>1, <1>2, <1>4 DEF SaveDryRun, Doing, At
<1>5. CASE CreateIssue(r)
  BY <1>0, <1>3, <1>5 DEF CreateIssue
<1>6. CASE CreateAnswerLost(r)
  BY <1>0, <1>3, <1>6 DEF CreateAnswerLost
<1>7. CASE Report(r)
  BY <1>0, <1>2, <1>3, <1>7 DEF Report, Reported, At
<1>8. CASE FinalSave(r)
  BY <1>0, <1>1, <1>2, <1>8 DEF FinalSave, At
<1>9. CASE Kill(r)
  BY <1>0, <1>3, <1>9 DEF Kill, At
<1>10. CASE CheckEmitted(r) \/ Copy(r) \/ Refresh(r) \/ Unreviewed(r) \/ CreateFails(r)
            \/ Announce(r) \/ PostContract(r) \/ Release(r)
  BY <1>0, <1>10 DEF CheckEmitted, Copy, Refresh, Unreviewed, CreateFails, Announce,
     PostContract, Release
<1> QED BY <1>4, <1>5, <1>6, <1>7, <1>8, <1>9, <1>10 DEF EmitStep

\* Faults and emits begun are only counted up.
LEMMA StepCounts ==
  ASSUME CallInv, EmitNext
  PROVE  /\ lease' \in [owner : Replicas \cup {"dead", Idle}, lapsed : BOOLEAN]
         /\ announced' \in BOOLEAN /\ faults' \in Nat /\ begun' \in Nat
<1>0. /\ lease \in [owner : Replicas \cup {"dead", Idle}, lapsed : BOOLEAN]
      /\ announced \in BOOLEAN /\ faults \in Nat /\ begun \in Nat
      /\ faults + 1 \in Nat /\ begun + 1 \in Nat
      /\ Free \in [owner : Replicas \cup {"dead", Idle}, lapsed : BOOLEAN]
  BY DEF CallInv, EmitTypeOK, Free
<1>1. ASSUME NEW r \in Replicas, BeginDry(r) \/ \E op \in Ops : BeginLive(r, op)
      PROVE  /\ lease' \in [owner : Replicas \cup {"dead", Idle}, lapsed : BOOLEAN]
             /\ announced' \in BOOLEAN /\ faults' \in Nat /\ begun' \in Nat
  <2>1. CASE BeginDry(r)
    BY <1>0, <2>1 DEF BeginDry
  <2>2. ASSUME NEW op \in Ops, BeginLive(r, op)
        PROVE  lease' = [owner |-> r, lapsed |-> FALSE] /\ announced' = announced
               /\ faults' = faults /\ begun' = begun + 1
    BY <2>2 DEF BeginLive
  <2>3. CASE \E op \in Ops : BeginLive(r, op)
    <3>1. /\ lease' = [owner |-> r, lapsed |-> FALSE] /\ announced' = announced
          /\ faults' = faults /\ begun' = begun + 1
      BY <2>2, <2>3
    <3>2. [owner |-> r, lapsed |-> FALSE]
            \in [owner : Replicas \cup {"dead", Idle}, lapsed : BOOLEAN]
      OBVIOUS
    <3> QED BY <1>0, <3>1, <3>2
  <2> QED BY <1>1, <2>1, <2>3
<1>2. ASSUME NEW r \in Replicas, EmitStep(r)
      PROVE  /\ lease' \in [owner : Replicas \cup {"dead", Idle}, lapsed : BOOLEAN]
             /\ announced' \in BOOLEAN /\ faults' \in Nat /\ begun' \in Nat
  <2>1. CASE CreateAnswerLost(r)
    BY <1>0, <2>1 DEF CreateAnswerLost, Fault
  <2>2. CASE Release(r)
    BY <1>0, <2>2 DEF Release
  <2>3. CASE Announce(r)
    BY <1>0, <2>3 DEF Announce
  <2>4. CASE CheckEmitted(r) \/ Copy(r) \/ SaveDryRun(r) \/ Refresh(r) \/ Unreviewed(r)
    BY <1>0, <2>4 DEF CheckEmitted, Copy, SaveDryRun, Refresh, Unreviewed
  <2>5. CASE \/ CreateIssue(r) \/ CreateFails(r) \/ Report(r) \/ PostContract(r)
             \/ FinalSave(r)
    BY <1>0, <2>5 DEF CreateIssue, CreateFails, Report, PostContract, FinalSave
  <2> QED BY <1>2, <2>1, <2>2, <2>3, <2>4, <2>5 DEF EmitStep
<1>3. ASSUME NEW r \in Replicas, Kill(r) \/ LeaseOutlived(r)
      PROVE  /\ lease' \in [owner : Replicas \cup {"dead", Idle}, lapsed : BOOLEAN]
             /\ announced' \in BOOLEAN /\ faults' \in Nat /\ begun' \in Nat
  BY <1>0, <1>3 DEF Kill, LeaseOutlived, Fault
<1>4. CASE Touch \/ LeaseLapses
  BY <1>0, <1>4 DEF Touch, LeaseLapses
<1> QED BY <1>1, <1>2, <1>3, <1>4 DEF EmitNext

LEMMA CallInvInit == EmitInit => CallInv
<1> SUFFICES ASSUME EmitInit PROVE CallInv
  OBVIOUS
<1>1. row \in Row
  BY Constants, PlanEmitAssumption DEF EmitInit, PlanEmitAssumption, Row
<1>2. issues \in Seq(Issues)
  BY EmptySeq DEF EmitInit
<1>3. \A r \in Replicas : ~Busy(r)
  BY DEF EmitInit, Busy
<1> QED BY <1>1, <1>2, <1>3 DEF EmitInit, CallInv, EmitTypeOK, Free

LEMMA CallInvStep == CallInv /\ [EmitNext]_emitVars => CallInv'
<1> SUFFICES ASSUME CallInv, [EmitNext]_emitVars PROVE CallInv'
  OBVIOUS
<1>1. CASE EmitNext
  <2>1. /\ lease' \in [owner : Replicas \cup {"dead", Idle}, lapsed : BOOLEAN]
        /\ announced' \in BOOLEAN /\ faults' \in Nat /\ begun' \in Nat
    BY <1>1, StepCounts
  <2>2. /\ call' \in [Replicas -> Call \cup {Idle}]
        /\ \A s \in Replicas : Busy(s)' => CallOK(call'[s])
    <3>1. ASSUME NEW r \in Replicas,
                 \/ BeginDry(r) \/ (\E op \in Ops : BeginLive(r, op)) \/ EmitStep(r)
                 \/ Kill(r) \/ LeaseOutlived(r)
          PROVE  /\ call' \in [Replicas -> Call \cup {Idle}]
                 /\ \A s \in Replicas : Busy(s)' => CallOK(call'[s])
      BY <3>1, StepTurn DEF Turn
    <3>2. CASE Touch
      BY <3>2, TouchCalls
    <3>3. CASE LeaseLapses
      BY <3>3 DEF LeaseLapses, CallInv, EmitTypeOK, Busy
    <3> QED BY <1>1, <3>1, <3>2, <3>3 DEF EmitNext
  <2>3. row' \in Row /\ slips' \in [Issues -> Nat] /\ issues' \in Seq(Issues)
    <3>1. ASSUME NEW r \in Replicas, EmitStep(r) \/ Kill(r)
          PROVE  row' \in Row /\ slips' \in [Issues -> Nat] /\ issues' \in Seq(Issues)
      BY <3>1, StepRecords
    <3>2. ASSUME NEW r \in Replicas,
                 BeginDry(r) \/ (\E op \in Ops : BeginLive(r, op)) \/ LeaseOutlived(r)
          PROVE  row' \in Row /\ slips' \in [Issues -> Nat] /\ issues' \in Seq(Issues)
      BY <3>2 DEF BeginDry, BeginLive, LeaseOutlived, CallInv, EmitTypeOK
    <3>3. CASE Touch
      BY <3>3, TouchCalls DEF Touch, CallInv, EmitTypeOK
    <3>4. CASE LeaseLapses
      BY <3>4 DEF LeaseLapses, CallInv, EmitTypeOK
    <3> QED BY <1>1, <3>1, <3>2, <3>3, <3>4 DEF EmitNext
  <2>4. EmitTypeOK'
    BY <2>1, <2>2, <2>3 DEF EmitTypeOK
  <2> QED BY <2>2, <2>4 DEF CallInv
<1>2. CASE UNCHANGED emitVars
  BY <1>2 DEF emitVars, CallInv, EmitTypeOK, Busy, CallOK
<1> QED BY <1>1, <1>2

\* Every variable keeps its type, for any number of replicas, children and faults.
THEOREM EmitWellTyped == EmitSpec => []EmitTypeOK
<1>1. CallInv => EmitTypeOK
  BY DEF CallInv
<1> QED BY <1>1, CallInvInit, CallInvStep, PTL DEF EmitSpec

------------------------------------------------------------------------------
(***************************************************************************)
(* The emit lease.                                                         *)
(***************************************************************************)

\* A live emit holds the lease until it has run past it.
Holder(r) == call[r].late \/ (lease.owner = r /\ ~lease.lapsed)

LeaseInv == CallInv /\ \A r \in Replicas : Emitting(r) => Holder(r)

\* A lease that can be taken belongs to no emit within its time.
LEMMA FreeLease ==
  ASSUME LeaseInv, LeaseFree, NEW r \in Replicas, Emitting(r)
  PROVE  call[r].late
<1>1. lease.owner = Idle \/ lease.lapsed
  BY DEF LeaseFree, Free
<1> QED BY <1>1, Constants DEF LeaseInv, Holder

\* A call that goes on keeps its operation and does not become punctual.
LEMMA OthersHold ==
  ASSUME LeaseInv, NEW r \in Replicas, Others(r), NEW s \in Replicas \ {r},
         Emitting(s)'
  PROVE  Emitting(s) /\ call'[s].late = call[s].late
<1>1. CASE call'[s] = call[s]
  BY <1>1 DEF Emitting, Busy
<1>2. CASE Busy(s) /\ call'[s] = [call[s] EXCEPT !.fresh = FALSE]
  <2>1. call[s] \in Call /\ CallOK(call[s])
    BY <1>2, ThisCall DEF LeaseInv
  <2> QED BY <1>2, <2>1, StaleCall DEF Emitting
<1> QED BY <1>1, <1>2 DEF Others

\* A step that goes on with the lease as it was.
LEMMA SameLease ==
  ASSUME LeaseInv, CallInv', NEW r \in Replicas, Turn(r), lease' = lease,
         Busy(r)' => Busy(r) /\ call'[r].op = call[r].op /\ call'[r].late = call[r].late
  PROVE  LeaseInv'
<1> SUFFICES ASSUME NEW s \in Replicas, Emitting(s)' PROVE Holder(s)'
  BY DEF LeaseInv
<1>1. CASE s = r
  BY <1>1 DEF LeaseInv, Holder, Emitting
<1>2. CASE s # r
  BY <1>2, OthersHold DEF Turn, LeaseInv, Holder
<1> QED BY <1>1, <1>2

\* The call stays what it was: its operation and its lateness.
LEMMA StepOperation ==
  ASSUME CallInv, NEW r \in Replicas, EmitStep(r)
  PROVE  Busy(r)' => Busy(r) /\ call'[r].op = call[r].op /\ call'[r].late = call[r].late
<1>1. CASE CheckEmitted(r)
  BY <1>1, CheckEmittedCall DEF Continues
<1>2. CASE Copy(r)
  BY <1>2, CopyCall DEF Continues
<1>3. CASE SaveDryRun(r)
  BY <1>3, SaveDryRunCall
<1>4. CASE Refresh(r)
  BY <1>4, RefreshCall DEF Continues
<1>5. CASE CreateIssue(r)
  BY <1>5, CreateIssueCall DEF Continues
<1>6. CASE CreateFails(r)
  BY <1>6, FailureCall DEF CreateFails, Continues
<1>7. CASE CreateAnswerLost(r)
  BY <1>7, FailureCall DEF CreateAnswerLost, Continues, At, Busy
<1>8. CASE Report(r)
  BY <1>8, ReportCall DEF Continues
<1>9. CASE Announce(r)
  BY <1>9, AnnounceCall DEF Continues
<1>10. CASE PostContract(r)
  BY <1>10, PostContractCall DEF Continues
<1>11. CASE FinalSave(r)
  BY <1>11, FinalSaveCall DEF Continues
<1>12. CASE Release(r)
  BY <1>12, EndCall DEF Release
<1>13. CASE Unreviewed(r)
  BY <1>13, UnreviewedCall DEF Continues
<1> QED BY <1>1, <1>2, <1>3, <1>4, <1>5, <1>6, <1>7, <1>8, <1>9, <1>10, <1>11, <1>12,
           <1>13 DEF EmitStep

LEMMA LeaseInvStep == LeaseInv /\ [EmitNext]_emitVars => LeaseInv'
<1> SUFFICES ASSUME LeaseInv, [EmitNext]_emitVars PROVE LeaseInv'
  OBVIOUS
<1>0. CallInv /\ CallInv'
  BY CallInvStep DEF LeaseInv
<1>1. ASSUME NEW r \in Replicas, BeginDry(r) \/ \E op \in Ops : BeginLive(r, op)
      PROVE  LeaseInv'
  <2>1. /\ Turn(r) /\ ~Busy(r)
        /\ call'[r].op = "dry" \/ (LeaseFree /\ lease' = [owner |-> r, lapsed |-> FALSE])
    BY <1>0, <1>1, BeginCall
  <2>2. lease' = lease \/ (LeaseFree /\ lease' = [owner |-> r, lapsed |-> FALSE])
    BY <1>1 DEF BeginDry, BeginLive
  <2> SUFFICES ASSUME NEW s \in Replicas, Emitting(s)' PROVE Holder(s)'
    BY <1>0 DEF LeaseInv
  <2>3. CASE s = r
    BY <2>1, <2>3 DEF Emitting, Holder
  <2>4. CASE s # r
    <3>1. Emitting(s) /\ call'[s].late = call[s].late
      BY <2>1, <2>4, OthersHold DEF Turn
    <3> QED BY <2>2, <3>1, FreeLease DEF LeaseInv, Holder
  <2> QED BY <2>3, <2>4
<1>2. ASSUME NEW r \in Replicas, EmitStep(r) PROVE LeaseInv'
  <2>1. Turn(r)
    BY <1>0, <1>2, StepTurn
  <2>2. CASE Release(r)
    <3>1. ~Busy(r)'
      BY <1>0, <2>2, EndCall DEF Release
    <3> SUFFICES ASSUME NEW s \in Replicas, Emitting(s)' PROVE Holder(s)'
      BY <1>0 DEF LeaseInv
    <3>2. s # r
      BY <3>1 DEF Emitting
    <3>3. Emitting(s) /\ call'[s].late = call[s].late
      BY <2>1, <3>2, OthersHold DEF Turn
    <3> QED BY <2>2, <3>2, <3>3 DEF LeaseInv, Holder, Release
  <2>3. CASE ~Release(r)
    <3>1. lease' = lease
      BY <1>2, <2>3 DEF EmitStep, CheckEmitted, Copy, SaveDryRun, Refresh, Unreviewed,
         CreateIssue, CreateFails, CreateAnswerLost, Report, Announce, PostContract, FinalSave
    <3>2. Busy(r)' => Busy(r) /\ call'[r].op = call[r].op /\ call'[r].late = call[r].late
      BY <1>0, <1>2, <2>3, StepOperation
    <3> QED BY <1>0, <2>1, <3>1, <3>2, SameLease
  <2> QED BY <2>2, <2>3
<1>3. ASSUME NEW r \in Replicas, Kill(r) PROVE LeaseInv'
  <2>1. Turn(r) /\ ~Busy(r)'
    BY <1>0, <1>3, EndCall DEF Kill
  <2> SUFFICES ASSUME NEW s \in Replicas, Emitting(s)' PROVE Holder(s)'
    BY <1>0 DEF LeaseInv
  <2>2. s # r /\ Emitting(s) /\ call'[s].late = call[s].late
    BY <2>1, OthersHold DEF Turn, Emitting
  <2> QED BY <1>3, <2>2 DEF LeaseInv, Holder, Kill
<1>4. ASSUME NEW r \in Replicas, LeaseOutlived(r) PROVE LeaseInv'
  <2>1. Turn(r) /\ call'[r].late /\ lease.owner = r
    BY <1>0, <1>4, LeaseOutlivedCall DEF Continues, LeaseOutlived
  <2> SUFFICES ASSUME NEW s \in Replicas, Emitting(s)' PROVE Holder(s)'
    BY <1>0 DEF LeaseInv
  <2>2. CASE s # r
    <3>1. Emitting(s) /\ call'[s].late = call[s].late
      BY <2>1, <2>2, OthersHold DEF Turn
    <3> QED BY <2>1, <2>2, <3>1 DEF LeaseInv, Holder
  <2> QED BY <2>1, <2>2 DEF Holder
<1>5. CASE Touch
  <2> SUFFICES ASSUME NEW s \in Replicas, Emitting(s)' PROVE Holder(s)'
    BY <1>0 DEF LeaseInv
  <2>1. Busy(s) /\ call'[s] = [call[s] EXCEPT !.fresh = FALSE]
    BY <1>0, <1>5, TouchCalls DEF Emitting
  <2>2. call[s] \in Call /\ CallOK(call[s])
    BY <1>0, <2>1, ThisCall
  <2>3. call'[s].op = call[s].op /\ call'[s].late = call[s].late
    BY <2>1, <2>2, StaleCall
  <2> QED BY <1>5, <2>1, <2>3 DEF LeaseInv, Holder, Emitting, Touch
<1>6. CASE LeaseLapses
  BY <1>0, <1>6, Constants DEF LeaseLapses, LeaseInv, Holder, Emitting, Busy
<1>7. CASE UNCHANGED emitVars
  BY <1>0, <1>7 DEF emitVars, LeaseInv, Holder, Emitting, Busy
<1> QED BY <1>1, <1>2, <1>3, <1>4, <1>5, <1>6, <1>7 DEF EmitNext

\* However many replicas are asked, two of them emit the session at once only when
\* one runs on after its lease.
THEOREM OneEmitterAlways == EmitSpec => []OneEmitter
<1>1. EmitInit => LeaseInv
  BY CallInvInit DEF EmitInit, LeaseInv, Emitting, Busy
<1>2. LeaseInv => OneEmitter
  BY DEF LeaseInv, Holder, OneEmitter
<1> QED BY <1>1, <1>2, LeaseInvStep, PTL DEF EmitSpec

------------------------------------------------------------------------------
(***************************************************************************)
(* What each step does to the issue numbers.                               *)
(***************************************************************************)

Num(s, k) == call[s].doc.numbers[k]

\* The call of s keeps its place and its numbers; its copy is not fresher.
Same(s) ==
  /\ Busy(s)' <=> Busy(s)
  /\ Busy(s) => /\ call'[s].pc = call[s].pc /\ call'[s].at = call[s].at
                /\ call'[s].doc = call[s].doc
                /\ call'[s].fresh => call[s].fresh

SameRecords == row' = row /\ slips' = slips /\ issues' = issues

\* Nothing happens to any number.
Still ==
  /\ \A s \in Replicas : Same(s)
  /\ row'.numbers = row.numbers /\ slips' = slips /\ issues' = issues

Opens(r) ==
  /\ SameRecords /\ ~Busy(r) /\ Busy(r)' /\ call'[r].pc \in {"check", "copy"}
  /\ ~call'[r].fresh /\ call'[r].doc = Unread

Reads(r) ==
  /\ SameRecords /\ Busy(r) /\ Busy(r)' /\ call[r].pc = "copy"
  /\ call'[r].pc \in {"save", "refresh", "release"} /\ call'[r].doc = row

\* The call leaves neither the report nor the save; it reaches neither the report nor
\* the refresh.
Moves(r) ==
  /\ Busy(r) /\ Busy(r)' /\ call'[r].doc.numbers = call[r].doc.numbers
  /\ call'[r].fresh = call[r].fresh
  /\ call[r].pc \notin {"report", "save"} /\ call'[r].pc \notin {"report", "refresh"}
  /\ call'[r].pc \in {"check", "copy"} => call[r].pc \in {"check", "copy"}

\* The readiness verdicts are saved.
Refreshes(r) ==
  /\ SameRecords /\ OthersStale(r) /\ Busy(r) /\ Busy(r)' /\ call[r].pc = "refresh"
  /\ call[r].fresh /\ call'[r].pc \in {"release", "post", "create", "report", "save"}
  /\ call'[r].at = 0
  /\ \A k \in Issues : \/ Num(r, k)' = Num(r, k)
                       \/ call'[r].pc = "save" /\ k # 0 /\ Num(r, k)' = 0

\* There are no verdicts to save.
Skips(r) ==
  /\ SameRecords /\ Busy(r) /\ Busy(r)' /\ call[r].pc = "refresh"
  /\ call'[r].pc \in {"post", "create", "report"}
  /\ call'[r].doc = call[r].doc /\ call'[r].at = 0 /\ call'[r].fresh = call[r].fresh

Closes(r) == Release(r) \/ Kill(r)

LEMMA OthersSame ==
  ASSUME CallInv, NEW r \in Replicas, Others(r), NEW s \in Replicas \ {r}
  PROVE  Same(s)
<1>1. CASE call'[s] = call[s]
  BY <1>1 DEF Same, Busy
<1>2. CASE Busy(s) /\ call'[s] = [call[s] EXCEPT !.fresh = FALSE]
  <2>1. call[s] \in Call /\ CallOK(call[s])
    BY <1>2, ThisCall
  <2>2. call'[s] # Idle
    BY <1>2, <2>1, StaleCall, Constants
  <2> QED BY <1>2, <2>1, <2>2, StaleCall DEF Same, Busy
<1> QED BY <1>1, <1>2 DEF Others

LEMMA ClearedNumbers ==
  ASSUME NEW doc \in Row, NEW k \in Issues
  PROVE  Cleared(doc).numbers[k] = doc.numbers[k] \/ (k # 0 /\ Cleared(doc).numbers[k] = 0)
BY ClearedRow

LEMMA EmittedNumbers ==
  ASSUME NEW doc \in Row
  PROVE  [doc EXCEPT !.emitted = TRUE].numbers = doc.numbers
BY DEF Row

LEMMA StillWhenOutlived ==
  ASSUME CallInv, NEW r \in Replicas, LeaseOutlived(r)
  PROVE  Still
<1>1. /\ Continues(r, call[r].pc, call[r].doc)
      /\ call'[r].fresh = call[r].fresh /\ call'[r].at = call[r].at
  BY LeaseOutlivedCall
<1>2. \A s \in Replicas : Same(s)
  BY <1>1, OthersSame DEF Continues, Turn, Same
<1> QED BY <1>2 DEF LeaseOutlived, Still

LEMMA StillWhenTouched ==
  ASSUME CallInv, Touch
  PROVE  Still
<1>1. ASSUME NEW s \in Replicas PROVE Same(s)
  <2>1. /\ Busy(s)' <=> Busy(s)
        /\ Busy(s) => call'[s] = [call[s] EXCEPT !.fresh = FALSE]
    BY TouchCalls
  <2>2. Busy(s) => call[s] \in Call /\ CallOK(call[s])
    BY ThisCall
  <2> QED BY <2>1, <2>2, StaleCall DEF Same
<1>2. row'.numbers = row.numbers
  BY TouchCalls
<1> QED BY <1>1, <1>2 DEF Touch, Still

\* A step within a call that has not created anything, or does not save.
LEMMA StepMoves ==
  ASSUME CallInv, NEW r \in Replicas,
         CheckEmitted(r) \/ CreateFails(r) \/ Announce(r) \/ PostContract(r)
  PROVE  Moves(r) /\ SameRecords
<1>1. CASE CheckEmitted(r)
  BY <1>1, CheckEmittedCall DEF CheckEmitted, At, Continues, Moves, SameRecords
<1>2. CASE CreateFails(r)
  BY <1>2, FailureCall DEF CreateFails, At, Continues, Moves, SameRecords
<1>3. CASE Announce(r)
  <2>1. Busy(r) /\ call[r].pc = "announce" /\ SameRecords
    BY <1>3 DEF Announce, At, SameRecords
  <2>2. call[r].doc \in Row
    BY <2>1, ThisCall
  <2> QED BY <1>3, <2>1, <2>2, AnnounceCall, EmittedNumbers DEF Continues, Moves
<1>4. CASE PostContract(r)
  <2>1. Busy(r) /\ call[r].pc = "post" /\ SameRecords
    BY <1>4 DEF PostContract, At, SameRecords
  <2>2. call[r].doc \in Row
    BY <2>1, ThisCall
  <2> QED BY <1>4, <2>1, <2>2, PostContractCall, EmittedNumbers DEF Continues, Moves
<1> QED BY <1>1, <1>2, <1>3, <1>4

LEMMA StepRefreshes ==
  ASSUME CallInv, NEW r \in Replicas, Refresh(r)
  PROVE  (Moves(r) /\ SameRecords) \/ Refreshes(r)
<1>1. Busy(r) /\ call[r].pc = "refresh" /\ SameRecords
  BY DEF Refresh, At, SameRecords
<1>2. call[r].doc \in Row /\ call[r].fresh \in BOOLEAN
  BY <1>1, ThisCall
<1>3. \A k \in Issues : \/ Cleared(call[r].doc).numbers[k] = call[r].doc.numbers[k]
                        \/ k # 0 /\ Cleared(call[r].doc).numbers[k] = 0
  BY <1>2, ClearedNumbers
<1>4. CASE call[r].fresh
  <2>1. Busy(r)' /\ OthersStale(r) /\ call'[r].at = 0
    BY <1>4, RefreshCall DEF Continues
  <2>2. CASE /\ call'[r].pc \in {"release", "post", "create", "report"}
             /\ Continues(r, call'[r].pc, call[r].doc)
    BY <1>1, <1>4, <2>1, <2>2 DEF Continues, Refreshes, Num
  <2>3. CASE Continues(r, "save", Cleared(call[r].doc))
    BY <1>1, <1>3, <1>4, <2>1, <2>3 DEF Continues, Refreshes, Num
  <2> QED BY <2>2, <2>3, RefreshCall
<1>5. CASE ~call[r].fresh
  <2>1. call'[r].pc = "release" /\ call'[r].fresh = call[r].fresh
    BY <1>5, RefreshCall
  <2>2. Continues(r, "release", call[r].doc)
    BY <2>1, RefreshCall DEF Continues
  <2> QED BY <1>1, <2>1, <2>2 DEF Continues, Moves
<1> QED BY <1>2, <1>4, <1>5

\* The kinds of steps.
LEMMA StepKinds ==
  ASSUME CallInv, [EmitNext]_emitVars
  PROVE  \/ Still
         \/ \E r \in Replicas :
              /\ Turn(r)
              /\ \/ Opens(r) \/ Reads(r) \/ (Moves(r) /\ SameRecords) \/ Refreshes(r)
                 \/ Skips(r) \/ CreateIssue(r) \/ CreateAnswerLost(r) \/ Report(r)
                 \/ FinalSave(r) \/ SaveDryRun(r) \/ Closes(r)
<1>1. ASSUME NEW r \in Replicas, BeginDry(r) \/ \E op \in Ops : BeginLive(r, op)
      PROVE  Turn(r) /\ Opens(r)
  <2>1. SameRecords
    BY <1>1 DEF BeginDry, BeginLive, SameRecords
  <2> QED BY <1>1, <2>1, BeginCall DEF Opens
<1>2. ASSUME NEW r \in Replicas, EmitStep(r)
      PROVE  /\ Turn(r)
             /\ \/ Reads(r) \/ (Moves(r) /\ SameRecords) \/ Refreshes(r)
                \/ Skips(r) \/ CreateIssue(r) \/ CreateAnswerLost(r) \/ Report(r)
                \/ FinalSave(r) \/ SaveDryRun(r) \/ Closes(r)
  <2>1. CASE Copy(r)
    BY <2>1, CopyCall DEF Copy, At, Continues, Reads, SameRecords
  <2>2. CASE CheckEmitted(r) \/ CreateFails(r) \/ Announce(r) \/ PostContract(r)
    BY <1>2, <2>2, StepMoves, StepTurn
  <2>3. CASE Refresh(r)
    BY <1>2, <2>3, StepRefreshes, StepTurn
  <2>4. CASE Unreviewed(r)
    <3>1. Turn(r)
      BY <1>2, StepTurn
    <3> QED BY <2>4, <3>1, UnreviewedCall DEF Unreviewed, At, Continues, Skips, SameRecords
  <2> QED BY <1>2, <2>1, <2>2, <2>3, <2>4, StepTurn DEF EmitStep, Closes
<1>3. ASSUME NEW r \in Replicas, Kill(r) PROVE Turn(r) /\ Closes(r)
  BY <1>3, StepTurn DEF Closes
<1>4. CASE LeaseLapses \/ UNCHANGED emitVars
  BY <1>4 DEF LeaseLapses, emitVars, Still, Same, Busy
<1> QED
  BY <1>1, <1>2, <1>3, <1>4, StillWhenOutlived, StillWhenTouched DEF EmitNext

------------------------------------------------------------------------------
(***************************************************************************)
(* Numbers are those of issues that exist.                                 *)
(***************************************************************************)

\* Every number of doc is that of an issue in log, created for that child.
Known(doc, log) ==
  \A k \in Issues : doc.numbers[k] # 0 =>
    doc.numbers[k] \in DOMAIN log /\ log[doc.numbers[k]] = k

Created(k, log) == \E n \in DOMAIN log : log[n] = k

KnownInv ==
  /\ CallInv
  /\ Known(row, issues)
  /\ \A r \in Replicas : Busy(r) => Known(call[r].doc, issues)
  /\ announced => \A k \in Issues : Created(k, issues)

LEMMA KnownLater ==
  ASSUME NEW log \in Seq(Issues), NEW k \in Issues
  PROVE  /\ \A doc : Known(doc, log) => Known(doc, Append(log, k))
         /\ \A j : Created(j, log) => Created(j, Append(log, k))
         /\ Len(log) + 1 \in DOMAIN Append(log, k) /\ Append(log, k)[Len(log) + 1] = k
         /\ Len(log) + 1 \notin DOMAIN log
<1>1. /\ Append(log, k) \in Seq(Issues) /\ Len(log) \in Nat
      /\ Len(Append(log, k)) = Len(log) + 1
      /\ \A i \in 1..Len(log) : Append(log, k)[i] = log[i]
      /\ Append(log, k)[Len(log) + 1] = k
  BY AppendProperties, LenProperties
<1>2. DOMAIN log = 1..Len(log) /\ DOMAIN Append(log, k) = 1..(Len(log) + 1)
  BY <1>1, LenProperties
<1>3. \A i \in DOMAIN log : i \in DOMAIN Append(log, k) /\ Append(log, k)[i] = log[i]
  BY <1>1, <1>2
<1>4. Len(log) + 1 \in DOMAIN Append(log, k) /\ Len(log) + 1 \notin DOMAIN log
  BY <1>1, <1>2
<1>5. \A doc : Known(doc, log) => Known(doc, Append(log, k))
  BY <1>3 DEF Known
<1>6. \A j : Created(j, log) => Created(j, Append(log, k))
  BY <1>3 DEF Created
<1> QED BY <1>1, <1>4, <1>5, <1>6

\* The copy of a call that created an issue.
LEMMA NumberedNumbers ==
  ASSUME CallInv, NEW r \in Replicas, At(r, "create")
  PROVE  /\ call[r].at \in Issues /\ Num(r, call[r].at) = 0
         /\ Numbered(r).numbers[call[r].at] = Len(issues) + 1
         /\ \A k \in Issues \ {call[r].at} : Numbered(r).numbers[k] = Num(r, k)
<1>1. call[r].at \in Issues /\ call[r].doc \in Row /\ Num(r, call[r].at) = 0
  BY ThisCall DEF At, CallOK, Num
<1> DEFINE n == Len(issues) + 1
<1>2. Numbered(r).numbers = [call[r].doc.numbers EXCEPT ![call[r].at] = n]
  BY <1>1 DEF Numbered, Row
<1> HIDE DEF n
<1>3. /\ Numbered(r).numbers[call[r].at] = n
      /\ \A k \in Issues \ {call[r].at} : Numbered(r).numbers[k] = call[r].doc.numbers[k]
  BY <1>1, <1>2 DEF Row
<1> QED BY <1>1, <1>3 DEF n, Num

\* What the issues become.
LEMMA StepIssues ==
  ASSUME CallInv, [EmitNext]_emitVars
  PROVE  /\ \A doc : Known(doc, issues) => Known(doc, issues')
         /\ \A j : Created(j, issues) => Created(j, issues')
<1>1. CASE issues' = issues
  BY <1>1
<1>2. ASSUME NEW r \in Replicas, CreateIssue(r) \/ CreateAnswerLost(r)
      PROVE  /\ \A doc : Known(doc, issues) => Known(doc, issues')
             /\ \A j : Created(j, issues) => Created(j, issues')
  <2>1. At(r, "create") /\ issues' = Append(issues, call[r].at)
    BY <1>2 DEF CreateIssue, CreateAnswerLost
  <2>2. call[r].at \in Issues /\ issues \in Seq(Issues)
    BY <2>1, NumberedNumbers DEF CallInv, EmitTypeOK
  <2> QED BY <2>1, <2>2, KnownLater
<1>3. issues' = issues \/ \E r \in Replicas : CreateIssue(r) \/ CreateAnswerLost(r)
  BY StepKinds DEF Still, Opens, Reads, Refreshes, Skips, SameRecords, Report, FinalSave,
     SaveDryRun, Closes, Release, Kill
<1> QED BY <1>1, <1>2, <1>3

LEMMA KnownTurn ==
  ASSUME KnownInv, NEW r \in Replicas, Turn(r),
         \A doc : Known(doc, issues) => Known(doc, issues'),
         Known(row, issues'), Known(row', issues'),
         Busy(r)' => Known(call'[r].doc, issues')
  PROVE  /\ Known(row', issues')
         /\ \A s \in Replicas : Busy(s)' => Known(call'[s].doc, issues')
<1>1. ASSUME NEW s \in Replicas, Busy(s)' PROVE Known(call'[s].doc, issues')
  <2>1. CASE s # r
    BY <1>1, <2>1, OthersSame DEF KnownInv, Turn, Same
  <2> QED BY <1>1, <2>1
<1> QED BY <1>1

LEMMA KnownNumbers ==
  ASSUME NEW doc, NEW new, NEW log, Known(doc, log),
         \A k \in Issues : new.numbers[k] = doc.numbers[k] \/ new.numbers[k] = 0
  PROVE  Known(new, log)
BY DEF Known

LEMMA KnownInvStep == KnownInv /\ [EmitNext]_emitVars => KnownInv'
<1> SUFFICES ASSUME KnownInv, [EmitNext]_emitVars PROVE KnownInv'
  OBVIOUS
<1>0. CallInv /\ CallInv'
  BY CallInvStep DEF KnownInv
<1>1. /\ \A doc : Known(doc, issues) => Known(doc, issues')
      /\ \A j : Created(j, issues) => Created(j, issues')
  BY <1>0, StepIssues
<1>2. Known(row, issues) /\ Known(row, issues')
  BY <1>1 DEF KnownInv
<1>3. ASSUME NEW r \in Replicas, Busy(r)
      PROVE  /\ Known(call[r].doc, issues) /\ Known(call[r].doc, issues')
             /\ Known(Cleared(call[r].doc), issues')
  <2>1. Known(call[r].doc, issues) /\ Known(call[r].doc, issues')
    BY <1>1, <1>3 DEF KnownInv
  <2>2. call[r].doc \in Row
    BY <1>0, <1>3, ThisCall
  <2> QED BY <2>1, <2>2, ClearedNumbers, KnownNumbers
<1>4. /\ Known(row', issues')
      /\ \A s \in Replicas : Busy(s)' => Known(call'[s].doc, issues')
  <2>1. CASE Still
    <3>1. Known(row', issues')
      BY <1>2, <2>1 DEF Still, Known
    <3> QED BY <1>3, <2>1, <3>1 DEF Still, Same
  <2>2. ASSUME NEW r \in Replicas, Turn(r), Opens(r) \/ Reads(r)
      PROVE  /\ Known(row', issues')
             /\ \A s \in Replicas : Busy(s)' => Known(call'[s].doc, issues')
    <3>1. Known(Unread, issues')
      BY DEF Known, Unread, NoNumbers
    <3> QED BY <1>1, <1>2, <2>2, <3>1, KnownTurn DEF Opens, Reads, SameRecords
  <2>3. ASSUME NEW r \in Replicas, Turn(r), Moves(r) /\ SameRecords
      PROVE  /\ Known(row', issues')
             /\ \A s \in Replicas : Busy(s)' => Known(call'[s].doc, issues')
    <3>1. Known(call'[r].doc, issues')
      BY <1>3, <2>3, KnownNumbers DEF Moves
    <3> QED BY <1>1, <1>2, <2>3, <3>1, KnownTurn DEF SameRecords
  <2>4. ASSUME NEW r \in Replicas, Turn(r), Refreshes(r)
      PROVE  /\ Known(row', issues')
             /\ \A s \in Replicas : Busy(s)' => Known(call'[s].doc, issues')
    <3>1. Known(call'[r].doc, issues')
      BY <1>3, <2>4, KnownNumbers DEF Refreshes, Num
    <3> QED BY <1>1, <1>2, <2>4, <3>1, KnownTurn DEF Refreshes, SameRecords
  <2>5. ASSUME NEW r \in Replicas, Turn(r), CreateIssue(r)
      PROVE  /\ Known(row', issues')
             /\ \A s \in Replicas : Busy(s)' => Known(call'[s].doc, issues')
    <3>1. At(r, "create") /\ issues' = Append(issues, call[r].at) /\ row' = row
      BY <2>5 DEF CreateIssue
    <3>2. issues \in Seq(Issues)
      BY <1>0 DEF CallInv, EmitTypeOK
    <3> DEFINE n == Len(issues) + 1
    <3>3. n \in DOMAIN issues' /\ issues'[n] = call[r].at
      BY <1>0, <3>1, <3>2, NumberedNumbers, KnownLater
    <3>4. /\ Numbered(r).numbers[call[r].at] = n
          /\ \A k \in Issues \ {call[r].at} : Numbered(r).numbers[k] = Num(r, k)
      BY <1>0, <3>1, NumberedNumbers
    <3>5. Known(call[r].doc, issues')
      BY <1>3, <3>1 DEF At
    <3> HIDE DEF n
    <3>6. Known(Numbered(r), issues')
      BY <3>3, <3>4, <3>5 DEF Known, Num
    <3>7. call'[r].doc = Numbered(r)
      BY <1>0, <2>5, CreateIssueCall DEF Continues
    <3> QED BY <1>1, <1>2, <2>5, <3>1, <3>6, <3>7, KnownTurn
  <2>6. ASSUME NEW r \in Replicas, Turn(r), CreateAnswerLost(r)
      PROVE  /\ Known(row', issues')
             /\ \A s \in Replicas : Busy(s)' => Known(call'[s].doc, issues')
    <3>1. Busy(r) /\ call'[r].doc = call[r].doc /\ row' = row
      BY <1>0, <2>6, FailureCall DEF CreateAnswerLost, At, Continues
    <3> QED BY <1>1, <1>2, <1>3, <2>6, <3>1, KnownTurn
  <2>7. ASSUME NEW r \in Replicas, Turn(r), Report(r) \/ FinalSave(r)
      PROVE  /\ Known(row', issues')
             /\ \A s \in Replicas : Busy(s)' => Known(call'[s].doc, issues')
    <3>1. Busy(r) /\ call[r].fresh \in BOOLEAN
      BY <1>0, <2>7, ThisCall DEF Report, FinalSave, At
    <3>2. call'[r].doc = call[r].doc /\ (row' = row \/ row' = call[r].doc)
      BY <1>0, <2>7, <3>1, ReportCall, FinalSaveCall DEF Continues
    <3> QED BY <1>1, <1>2, <1>3, <2>7, <3>1, <3>2, KnownTurn
  <2>8. ASSUME NEW r \in Replicas, Turn(r), SaveDryRun(r)
      PROVE  /\ Known(row', issues')
             /\ \A s \in Replicas : Busy(s)' => Known(call'[s].doc, issues')
    <3>1. Busy(r) /\ call[r].fresh \in BOOLEAN
      BY <1>0, <2>8, ThisCall DEF SaveDryRun, Doing, At
    <3>2. ~Busy(r)' /\ (row' = row \/ row' = Cleared(call[r].doc))
      BY <1>0, <2>8, <3>1, SaveDryRunCall
    <3> QED BY <1>1, <1>2, <1>3, <2>8, <3>1, <3>2, KnownTurn
  <2>9. ASSUME NEW r \in Replicas, Turn(r), Closes(r)
      PROVE  /\ Known(row', issues')
             /\ \A s \in Replicas : Busy(s)' => Known(call'[s].doc, issues')
    <3>1. ~Busy(r)' /\ row' = row
      BY <1>0, <2>9, EndCall DEF Closes, Release, Kill
    <3> QED BY <1>1, <1>2, <2>9, <3>1, KnownTurn
  <2>10. ASSUME NEW r \in Replicas, Turn(r), Skips(r)
        PROVE  /\ Known(row', issues')
               /\ \A s \in Replicas : Busy(s)' => Known(call'[s].doc, issues')
    BY <1>1, <1>2, <1>3, <2>10, KnownTurn DEF Skips, SameRecords
  <2> QED
    BY <1>0, <2>1, <2>2, <2>3, <2>4, <2>5, <2>6, <2>7, <2>8, <2>9, <2>10, StepKinds
<1>5. announced' => \A k \in Issues : Created(k, issues')
  <2>1. announced' = announced \/ \E r \in Replicas : Announce(r)
    BY DEF EmitNext, EmitStep, emitVars, BeginDry, BeginLive, CheckEmitted, Copy,
       SaveDryRun, Refresh, Unreviewed, CreateIssue, CreateFails, CreateAnswerLost,
       Report, PostContract, FinalSave, Release, Kill, LeaseOutlived, Touch, LeaseLapses
  <2>2. ASSUME NEW r \in Replicas, Announce(r), NEW k \in Issues PROVE Created(k, issues)
    <3>1. Busy(r) /\ call[r].doc.numbers[k] # 0
      BY <1>0, <2>2, ThisCall DEF Announce, At, CallOK
    <3> QED BY <1>3, <3>1 DEF Known, Created
  <2> QED BY <1>1, <2>1, <2>2 DEF KnownInv
<1> QED BY <1>0, <1>4, <1>5 DEF KnownInv

LEMMA KnownInvInit == EmitInit => KnownInv
<1> SUFFICES ASSUME EmitInit PROVE KnownInv
  OBVIOUS
<1>1. row.numbers = NoNumbers /\ ~announced /\ \A r \in Replicas : ~Busy(r)
  BY DEF EmitInit, Busy
<1>2. Known(row, issues)
  BY <1>1 DEF Known, NoNumbers
<1> QED BY <1>1, <1>2, CallInvInit DEF KnownInv

\* Copies are counted in a finite set.
LEMMA CopiesCount ==
  ASSUME CallInv, NEW k \in Issues
  PROVE  /\ IsFiniteSet({n \in DOMAIN issues : issues[n] = k}) /\ Copies(k) \in Nat
         /\ Created(k, issues) => Copies(k) > 0
<1>1. DOMAIN issues = 1..Len(issues) /\ Len(issues) \in Nat
  BY LenProperties DEF CallInv, EmitTypeOK
<1>2. IsFiniteSet(DOMAIN issues)
  BY <1>1, FS_Interval
<1> DEFINE S == {n \in DOMAIN issues : issues[n] = k}
<1>3. IsFiniteSet(S) /\ Cardinality(S) \in Nat
  BY <1>2, FS_Subset, FS_CardinalityType
<1>4. Created(k, issues) => S # {}
  BY DEF Created
<1>5. S # {} => Cardinality(S) # 0
  BY <1>3, FS_EmptySet
<1> QED BY <1>3, <1>4, <1>5 DEF Copies

\* When the completion event is sent the epic and every child have been created,
\* whatever failed, was killed or ran on meanwhile.
THEOREM AnnouncedTruly == EmitSpec => []AnnouncedComplete
<1>1. KnownInv => AnnouncedComplete
  BY CopiesCount DEF KnownInv, AnnouncedComplete
<1> QED BY <1>1, KnownInvInit, KnownInvStep, PTL DEF EmitSpec

------------------------------------------------------------------------------
(***************************************************************************)
(* Fresh copies.                                                           *)
(***************************************************************************)

\* A fresh copy has the numbers of the row, but for the one to report next and
\* those that the save is about to drop.
MatchesRow(r) ==
  /\ call[r].pc \notin {"check", "copy"}
  /\ \A k \in Issues :
       \/ Num(r, k) = row.numbers[k]
       \/ call[r].pc = "report" /\ k = call[r].at /\ row.numbers[k] = 0
       \/ call[r].pc = "save" /\ k # 0 /\ Num(r, k) = 0

FreshInv == \A r \in Replicas : Busy(r) /\ call[r].fresh => MatchesRow(r)

LEMMA FreshTurn ==
  ASSUME CallInv, FreshInv, NEW r \in Replicas, Turn(r), row' = row \/ OthersStale(r),
         Busy(r)' /\ call'[r].fresh => MatchesRow(r)'
  PROVE  FreshInv'
<1> SUFFICES ASSUME NEW s \in Replicas, Busy(s)', call'[s].fresh PROVE MatchesRow(s)'
  BY DEF FreshInv
<1>1. CASE s # r
  <2>1. Same(s) /\ Busy(s) /\ call[s].fresh
    BY <1>1, OthersSame DEF Turn, Same
  <2>2. row' = row
    BY <1>1, <2>1 DEF OthersStale
  <2>3. MatchesRow(s)
    BY <2>1 DEF FreshInv
  <2> QED BY <2>1, <2>2, <2>3 DEF MatchesRow, Num, Same
<1> QED BY <1>1

LEMMA MovesWhenLost ==
  ASSUME CallInv, NEW r \in Replicas, CreateAnswerLost(r)
  PROVE  Moves(r) /\ row' = row
<1>1. Busy(r) /\ call[r].pc = "create" /\ At(r, "create") /\ row' = row
  BY DEF CreateAnswerLost, At
<1>2. CASE UNCHANGED call
  BY <1>1, <1>2 DEF Moves, Busy
<1>3. CASE call' = [call EXCEPT ![r] = Failed(r)]
  BY <1>1, <1>3, FailureCall DEF Continues, Moves
<1> QED BY <1>1, <1>2, <1>3 DEF CreateAnswerLost

LEMMA FreshInvStep ==
  ASSUME CallInv, FreshInv, [EmitNext]_emitVars
  PROVE  FreshInv'
<1>1. CASE Still
  <2> SUFFICES ASSUME NEW s \in Replicas, Busy(s)', call'[s].fresh PROVE MatchesRow(s)'
    BY DEF FreshInv
  <2>1. Same(s) /\ Busy(s) /\ call[s].fresh /\ MatchesRow(s)
    BY <1>1 DEF Still, Same, FreshInv
  <2> QED BY <1>1, <2>1 DEF Still, Same, MatchesRow, Num
<1>2. ASSUME NEW r \in Replicas, Turn(r), Opens(r) PROVE FreshInv'
  BY <1>2, FreshTurn DEF Opens, SameRecords
<1>3. ASSUME NEW r \in Replicas, Turn(r), Reads(r) PROVE FreshInv'
  <2>1. MatchesRow(r)'
    BY <1>3 DEF Reads, SameRecords, MatchesRow, Num
  <2> QED BY <1>3, <2>1, FreshTurn DEF Reads, SameRecords
<1>4. ASSUME NEW r \in Replicas, Turn(r), Moves(r), row' = row PROVE FreshInv'
  <2>1. call'[r].fresh => MatchesRow(r)'
    BY <1>4 DEF Moves, FreshInv, MatchesRow, Num
  <2> QED BY <1>4, <2>1, FreshTurn
<1>5. ASSUME NEW r \in Replicas, Turn(r), Refreshes(r) PROVE FreshInv'
  <2>1. \A k \in Issues : Num(r, k) = row.numbers[k]
    BY <1>5 DEF Refreshes, FreshInv, MatchesRow
  <2>2. MatchesRow(r)'
    BY <1>5, <2>1 DEF Refreshes, SameRecords, MatchesRow, Num
  <2> QED BY <1>5, <2>2, FreshTurn DEF Refreshes
<1>6. ASSUME NEW r \in Replicas, Turn(r), CreateIssue(r) PROVE FreshInv'
  <2>1. At(r, "create") /\ Busy(r) /\ call[r].pc = "create" /\ row' = row
    BY <1>6 DEF CreateIssue, At
  <2>2. /\ call'[r].doc = Numbered(r) /\ call'[r].pc = "report" /\ call'[r].at = call[r].at
        /\ call'[r].fresh = call[r].fresh
    BY <1>6, CreateIssueCall DEF Continues
  <2>3. /\ call[r].at \in Issues /\ Num(r, call[r].at) = 0
        /\ \A k \in Issues \ {call[r].at} : Num(r, k)' = Num(r, k)
    BY <2>1, <2>2, NumberedNumbers DEF Num
  <2>4. ASSUME call[r].fresh PROVE \A k \in Issues : Num(r, k) = row.numbers[k]
    BY <2>1, <2>4 DEF FreshInv, MatchesRow
  <2>5. call'[r].fresh => MatchesRow(r)'
    BY <2>1, <2>2, <2>3, <2>4 DEF MatchesRow
  <2> QED BY <1>6, <2>1, <2>5, FreshTurn
<1>7. ASSUME NEW r \in Replicas, Turn(r), Report(r) \/ FinalSave(r) PROVE FreshInv'
  <2>1. Busy(r) /\ call[r].fresh \in BOOLEAN
    BY <1>7, ThisCall DEF Report, FinalSave, At
  <2>2. /\ call'[r].doc = call[r].doc /\ call'[r].fresh = call[r].fresh
        /\ call'[r].pc \in {"create", "save", "announce", "release"}
        /\ call[r].fresh => OthersStale(r) /\ row' = call[r].doc
        /\ ~call[r].fresh => row' = row
    BY <1>7, ReportCall, FinalSaveCall DEF Continues
  <2>3. call'[r].fresh => MatchesRow(r)'
    BY <2>2 DEF MatchesRow, Num
  <2> QED BY <1>7, <2>1, <2>2, <2>3, FreshTurn
<1>8. ASSUME NEW r \in Replicas, Turn(r), SaveDryRun(r) PROVE FreshInv'
  <2>1. Busy(r) /\ call[r].fresh \in BOOLEAN
    BY <1>8, ThisCall DEF SaveDryRun, Doing, At
  <2> QED BY <1>8, <2>1, SaveDryRunCall, FreshTurn
<1>9. ASSUME NEW r \in Replicas, Turn(r), Closes(r) PROVE FreshInv'
  <2>1. ~Busy(r)' /\ row' = row
    BY <1>9, EndCall DEF Closes, Release, Kill
  <2> QED BY <1>9, <2>1, FreshTurn
<1>10. ASSUME NEW r \in Replicas, Turn(r), Skips(r) PROVE FreshInv'
  <2>1. call'[r].fresh => \A k \in Issues : Num(r, k) = row.numbers[k]
    BY <1>10 DEF Skips, FreshInv, MatchesRow
  <2>2. call'[r].fresh => MatchesRow(r)'
    BY <1>10, <2>1 DEF Skips, SameRecords, MatchesRow, Num
  <2> QED BY <1>10, <2>2, FreshTurn DEF Skips, SameRecords
<1> QED
  BY <1>1, <1>2, <1>3, <1>4, <1>5, <1>6, <1>7, <1>8, <1>9, <1>10, StepKinds, MovesWhenLost
     DEF SameRecords

------------------------------------------------------------------------------
(***************************************************************************)
(* A number that was not reported is known to its call only.               *)
(***************************************************************************)

Own(r) ==
  \/ call[r].at = 0 /\ Num(r, 0) = row.numbers[0]
  \/ /\ Num(r, call[r].at) # row.numbers[call[r].at]
     /\ \A s \in Replicas \ {r} : Busy(s) => Num(s, call[r].at) # Num(r, call[r].at)

OwnInv == \A r \in Replicas : At(r, "report") => Own(r)

\* A copy that was just read has no number of the epic, or the one in the row.
ReadInv ==
  \A r \in Replicas : At(r, "refresh") => Num(r, 0) = 0 \/ Num(r, 0) = row.numbers[0]

SlipInv == KnownInv /\ FreshInv /\ ReadInv /\ OwnInv

\* The epic's number is never dropped nor replaced.  Elsewhere the row gets what
\* the call knows; the call knows what the row had, or the number of a new issue.
EpicStays == row.numbers[0] # 0 => row'.numbers[0] = row.numbers[0]

RowFrom(r) ==
  \A k \in Issues : \/ row'.numbers[k] = row.numbers[k] \/ row'.numbers[k] = 0
                    \/ Busy(r) /\ row'.numbers[k] = Num(r, k)

CallFrom(r) ==
  Busy(r)' => \A k \in Issues :
    \/ Num(r, k)' = 0 \/ Num(r, k)' = row.numbers[k]
    \/ Busy(r) /\ Num(r, k)' = Num(r, k)
    \/ Num(r, k)' \notin DOMAIN issues

LEMMA EpicStep ==
  ASSUME CallInv, FreshInv, [EmitNext]_emitVars
  PROVE  EpicStays
<1>1. CASE Still
  BY <1>1 DEF Still, EpicStays
<1>2. CASE row' = row
  BY <1>2 DEF EpicStays
<1>3. ASSUME NEW r \in Replicas, Report(r) \/ FinalSave(r) PROVE EpicStays
  <2>1. Busy(r) /\ call[r].fresh \in BOOLEAN
    BY <1>3, ThisCall DEF Report, FinalSave, At
  <2>2. /\ call[r].fresh => row' = call[r].doc
        /\ ~call[r].fresh => row' = row
    BY <1>3, ReportCall, FinalSaveCall
  <2>3. call[r].fresh => Num(r, 0) = row.numbers[0] \/ row.numbers[0] = 0
    BY <2>1, Constants DEF FreshInv, MatchesRow
  <2> QED BY <2>1, <2>2, <2>3 DEF EpicStays, Num
<1>4. ASSUME NEW r \in Replicas, SaveDryRun(r) PROVE EpicStays
  <2>1. /\ Busy(r) /\ call[r].fresh \in BOOLEAN /\ call[r].pc = "save"
        /\ call[r].doc \in Row
    BY <1>4, ThisCall DEF SaveDryRun, Doing, At
  <2>2. /\ call[r].fresh => row' = Cleared(call[r].doc)
        /\ ~call[r].fresh => row' = row
    BY <1>4, SaveDryRunCall
  <2>3. call[r].fresh => Num(r, 0) = row.numbers[0]
    BY <2>1, Constants DEF FreshInv, MatchesRow
  <2> QED BY <2>1, <2>2, <2>3, ClearedRow DEF EpicStays, Num
<1>5. \/ Still \/ row' = row
      \/ \E r \in Replicas : Report(r) \/ FinalSave(r) \/ SaveDryRun(r)
  BY StepKinds DEF Opens, Reads, Refreshes, Skips, SameRecords, CreateIssue,
     CreateAnswerLost, Closes, Release, Kill
<1> QED BY <1>1, <1>2, <1>3, <1>4, <1>5

LEMMA ReadInvStep ==
  ASSUME CallInv, FreshInv, ReadInv, [EmitNext]_emitVars
  PROVE  ReadInv'
<1>0. EpicStays
  BY EpicStep
<1>1. ASSUME NEW s \in Replicas, Same(s), At(s, "refresh")'
      PROVE  Num(s, 0)' = 0 \/ Num(s, 0)' = row'.numbers[0]
  <2>1. At(s, "refresh") /\ Num(s, 0)' = Num(s, 0)
    BY <1>1 DEF Same, At, Num
  <2> QED BY <1>0, <2>1 DEF ReadInv, EpicStays
<1>2. CASE Still
  BY <1>1, <1>2 DEF Still, ReadInv
<1>3. ASSUME NEW r \in Replicas, Turn(r), At(r, "refresh")' => Num(r, 0)' = row'.numbers[0]
      PROVE  ReadInv'
  <2>1. \A s \in Replicas \ {r} : Same(s)
    BY <1>3, OthersSame DEF Turn
  <2> QED BY <1>1, <1>3, <2>1 DEF ReadInv
<1>4. ASSUME NEW r \in Replicas, Turn(r),
             Opens(r) \/ Reads(r) \/ Moves(r) \/ Refreshes(r) \/ Skips(r)
      PROVE  ReadInv'
  BY <1>3, <1>4 DEF Opens, Reads, Moves, Refreshes, Skips, SameRecords, At, Num
<1>5. ASSUME NEW r \in Replicas, Turn(r), CreateIssue(r) \/ Report(r) \/ FinalSave(r)
      PROVE  ReadInv'
  <2>1. call'[r].pc \in {"report", "create", "save", "announce", "release"}
    BY <1>5, CreateIssueCall, ReportCall, FinalSaveCall DEF Continues
  <2> QED BY <1>3, <1>5, <2>1 DEF At
<1>6. ASSUME NEW r \in Replicas, Turn(r), SaveDryRun(r) \/ Closes(r) PROVE ReadInv'
  <2>1. ~Busy(r)'
    BY <1>6, SaveDryRunCall, EndCall DEF Closes, Release, Kill
  <2> QED BY <1>3, <1>6, <2>1 DEF At
<1> QED BY <1>2, <1>4, <1>5, <1>6, StepKinds, MovesWhenLost

LEMMA OwnTurn ==
  ASSUME SlipInv, NEW r \in Replicas, Turn(r), EpicStays, RowFrom(r), CallFrom(r),
         At(r, "report")' => Own(r)'
  PROVE  OwnInv'
<1> SUFFICES ASSUME NEW s \in Replicas, s # r, At(s, "report")' PROVE Own(s)'
  BY DEF OwnInv
<1>0. CallInv
  BY DEF SlipInv, KnownInv
<1>1. Same(s) /\ At(s, "report") /\ Own(s) /\ Busy(s)
  BY <1>0, OthersSame DEF Turn, Same, At, SlipInv, OwnInv
<1>2. PICK k \in Issues, n \in DOMAIN issues : k = call[s].at /\ n = Num(s, k) /\ n # 0
  <2>1. call[s].at \in Issues /\ Num(s, call[s].at) # 0
    BY <1>0, <1>1, ThisCall DEF At, CallOK, Num
  <2>2. Known(call[s].doc, issues)
    BY <1>1 DEF SlipInv, KnownInv
  <2> QED BY <2>1, <2>2 DEF Known, Num
<1>3. call'[s].at = k /\ Num(s, k)' = n
  BY <1>1, <1>2 DEF Same, Num
<1>4. CASE k = 0 /\ n = row.numbers[0]
  BY <1>2, <1>3, <1>4 DEF EpicStays, Own
<1>5. CASE n # row.numbers[k] /\ \A t \in Replicas \ {s} : Busy(t) => Num(t, k) # n
  <2>1. row'.numbers[k] # n
    BY <1>2, <1>5 DEF RowFrom
  <2>2. Busy(r)' => Num(r, k)' # n
    BY <1>2, <1>5 DEF CallFrom
  <2>3. ASSUME NEW t \in Replicas \ {s}, t # r, Busy(t)' PROVE Num(t, k)' # n
    <3>1. Same(t)
      BY <1>0, <2>3, OthersSame DEF Turn
    <3> QED BY <1>5, <2>3, <3>1 DEF Same, Num
  <2> QED BY <1>3, <2>1, <2>2, <2>3 DEF Own
<1> QED BY <1>1, <1>2, <1>4, <1>5 DEF Own

LEMMA OwnInvStep ==
  ASSUME SlipInv, [EmitNext]_emitVars
  PROVE  OwnInv'
<1>0. CallInv /\ KnownInv /\ FreshInv
  BY DEF SlipInv, KnownInv
<1>1. CASE Still
  <2> SUFFICES ASSUME NEW s \in Replicas, At(s, "report")' PROVE Own(s)'
    BY DEF OwnInv
  <2>1. Same(s) /\ At(s, "report") /\ Own(s) /\ Busy(s)
    BY <1>1 DEF Still, Same, At, SlipInv, OwnInv
  <2>2. \A t \in Replicas, k \in Issues : Busy(t)' => Busy(t) /\ Num(t, k)' = Num(t, k)
    BY <1>1 DEF Still, Same, Num
  <2>3. call[s].at \in Issues /\ 0 \in Issues /\ call'[s].at = call[s].at
    BY <1>0, <2>1, ThisCall, Constants DEF At, CallOK, Same
  <2>4. row'.numbers = row.numbers /\ Busy(s)'
    BY <1>1, <2>1 DEF Still, Same
  <2>5. CASE call[s].at = 0 /\ Num(s, 0) = row.numbers[0]
    BY <2>2, <2>3, <2>4, <2>5 DEF Own
  <2>6. CASE /\ Num(s, call[s].at) # row.numbers[call[s].at]
             /\ \A t \in Replicas \ {s} : Busy(t) => Num(t, call[s].at) # Num(s, call[s].at)
    BY <2>2, <2>3, <2>4, <2>6 DEF Own
  <2> QED BY <2>1, <2>5, <2>6 DEF Own
<1>2. ASSUME row' = row
      PROVE  EpicStays /\ \A r \in Replicas : RowFrom(r)
  BY <1>2 DEF EpicStays, RowFrom
<1>3. ASSUME NEW r \in Replicas, Turn(r), Opens(r) PROVE OwnInv'
  <2>1. CallFrom(r)
    BY <1>3 DEF Opens, CallFrom, Unread, NoNumbers, Num
  <2> QED BY <1>2, <1>3, <2>1, OwnTurn DEF Opens, SameRecords, At
<1>4. ASSUME NEW r \in Replicas, Turn(r), Reads(r) PROVE OwnInv'
  <2>1. CallFrom(r)
    BY <1>4 DEF Reads, CallFrom, Num
  <2> QED BY <1>2, <1>4, <2>1, OwnTurn DEF Reads, SameRecords, At
<1>5. ASSUME NEW r \in Replicas, Turn(r), Moves(r), row' = row PROVE OwnInv'
  <2>1. CallFrom(r)
    BY <1>5 DEF Moves, CallFrom, Num
  <2> QED BY <1>2, <1>5, <2>1, OwnTurn DEF Moves, At
<1>6. ASSUME NEW r \in Replicas, Turn(r), Refreshes(r) PROVE OwnInv'
  <2>1. CallFrom(r)
    BY <1>6 DEF Refreshes, CallFrom
  <2>2. Num(r, 0)' = row.numbers[0] /\ row' = row
    <3>1. 0 \in Issues
      BY Constants
    <3>2. Num(r, 0) = row.numbers[0]
      BY <1>0, <1>6, <3>1 DEF Refreshes, FreshInv, MatchesRow
    <3> QED BY <1>6, <3>1, <3>2 DEF Refreshes, SameRecords
  <2>3. Own(r)'
    BY <1>6, <2>2 DEF Refreshes, Own
  <2> QED BY <1>2, <1>6, <2>1, <2>2, <2>3, OwnTurn
<1>7. ASSUME NEW r \in Replicas, Turn(r), CreateIssue(r) PROVE OwnInv'
  <2>1. At(r, "create") /\ Busy(r) /\ row' = row /\ issues \in Seq(Issues)
    BY <1>0, <1>7 DEF CreateIssue, At, CallInv, EmitTypeOK
  <2> DEFINE n == Len(issues) + 1
  <2>2. /\ call[r].at \in Issues /\ call'[r].at = call[r].at
        /\ Num(r, call[r].at)' = n
        /\ \A k \in Issues \ {call[r].at} : Num(r, k)' = Num(r, k)
    BY <1>0, <1>7, <2>1, CreateIssueCall, NumberedNumbers DEF Continues, Num
  <2>3. n \notin DOMAIN issues /\ n # 0
    <3>1. Len(issues) \in Nat /\ DOMAIN issues = 1..Len(issues)
      BY <2>1, LenProperties
    <3> QED BY <3>1
  <2> HIDE DEF n
  <2>4. CallFrom(r)
    BY <2>1, <2>2, <2>3 DEF CallFrom
  <2>5. row.numbers[call[r].at] # n
    BY <1>0, <2>2, <2>3 DEF KnownInv, Known
  <2>6. ASSUME NEW s \in Replicas \ {r}, Busy(s)' PROVE Num(s, call[r].at)' # n
    <3>1. Same(s) /\ Busy(s)
      BY <1>0, <1>7, <2>6, OthersSame DEF Turn, Same
    <3>2. Known(call[s].doc, issues)
      BY <1>0, <3>1 DEF KnownInv
    <3> QED BY <2>2, <2>3, <3>1, <3>2 DEF Same, Known, Num
  <2>7. Own(r)'
    BY <2>1, <2>2, <2>5, <2>6 DEF Own
  <2> QED BY <1>2, <1>7, <2>1, <2>4, <2>7, OwnTurn
<1>8. ASSUME NEW r \in Replicas, Turn(r), Report(r) \/ FinalSave(r) PROVE OwnInv'
  <2>1. Busy(r) /\ call[r].fresh \in BOOLEAN
    BY <1>0, <1>8, ThisCall DEF Report, FinalSave, At
  <2>2. /\ call'[r].doc = call[r].doc
        /\ call'[r].pc \in {"create", "save", "announce", "release"}
        /\ call[r].fresh => row' = call[r].doc
        /\ ~call[r].fresh => row' = row
    BY <1>0, <1>8, ReportCall, FinalSaveCall DEF Continues
  <2>3. RowFrom(r) /\ CallFrom(r)
    BY <2>1, <2>2 DEF RowFrom, CallFrom, Num
  <2>4. EpicStays
    BY <1>0, EpicStep
  <2> QED BY <1>8, <2>2, <2>3, <2>4, OwnTurn DEF At
<1>9. ASSUME NEW r \in Replicas, Turn(r), SaveDryRun(r) PROVE OwnInv'
  <2>1. /\ Busy(r) /\ call[r].fresh \in BOOLEAN /\ call[r].pc = "save"
        /\ call[r].doc \in Row
    BY <1>0, <1>9, ThisCall DEF SaveDryRun, Doing, At
  <2>2. /\ ~Busy(r)'
        /\ call[r].fresh => row' = Cleared(call[r].doc)
        /\ ~call[r].fresh => row' = row
    BY <1>0, <1>9, SaveDryRunCall
  <2>3. RowFrom(r) /\ CallFrom(r)
    BY <2>1, <2>2, ClearedNumbers DEF RowFrom, CallFrom, Num
  <2>4. EpicStays
    BY <1>0, EpicStep
  <2> QED BY <1>9, <2>2, <2>3, <2>4, OwnTurn DEF At
<1>10. ASSUME NEW r \in Replicas, Turn(r), Closes(r) PROVE OwnInv'
  <2>1. ~Busy(r)' /\ row' = row
    BY <1>0, <1>10, EndCall DEF Closes, Release, Kill
  <2>2. CallFrom(r) /\ ~At(r, "report")'
    BY <2>1 DEF CallFrom, At
  <2> QED BY <1>2, <1>10, <2>1, <2>2, OwnTurn
<1>11. ASSUME NEW r \in Replicas, Turn(r), Skips(r) PROVE OwnInv'
  <2>1. row' = row /\ CallFrom(r) /\ call'[r] \in Call /\ CallOK(call'[r])
    BY <1>11, Constants DEF Skips, SameRecords, CallFrom, Num, Turn, Busy
  <2>2. ASSUME At(r, "report")' PROVE Own(r)'
    <3>1. Num(r, 0)' # 0 /\ call'[r].at = 0
      BY <1>11, <2>1, <2>2 DEF At, CallOK, Num, Skips
    <3>2. Num(r, 0) = row.numbers[0] /\ Num(r, 0)' = Num(r, 0)
      BY <1>11, <3>1 DEF Skips, SlipInv, ReadInv, At, Num
    <3> QED BY <2>1, <3>1, <3>2 DEF Own
  <2> QED BY <1>2, <1>11, <2>1, <2>2, OwnTurn
<1> QED
  BY <1>0, <1>1, <1>3, <1>4, <1>5, <1>6, <1>7, <1>8, <1>9, <1>10, <1>11, StepKinds,
     MovesWhenLost DEF SameRecords

LEMMA SlipInvInit == EmitInit => SlipInv
BY KnownInvInit DEF EmitInit, SlipInv, FreshInv, ReadInv, OwnInv, At, Busy

LEMMA SlipInvStep == SlipInv /\ [EmitNext]_emitVars => SlipInv'
BY KnownInvStep, FreshInvStep, ReadInvStep, OwnInvStep DEF SlipInv, KnownInv

\* The epic's number is never dropped nor replaced, however the emits interleave.
THEOREM EpicNumberStays == EmitSpec => EpicNumberKept
<1>1. SlipInv /\ [EmitNext]_emitVars =>
        [row.numbers[0] # 0 => row'.numbers[0] = row.numbers[0]]_emitVars
  BY EpicStep DEF SlipInv, KnownInv, EpicStays
<1> QED BY <1>1, SlipInvInit, SlipInvStep, PTL DEF EmitSpec, EpicNumberKept

------------------------------------------------------------------------------
(***************************************************************************)
(* Every further copy of an issue is accounted for.                        *)
(***************************************************************************)

Accounts(k) == Copies(k) <= Recorded(k) + slips[k] + Cardinality(Pending(k))

AccountsInv == SlipInv /\ \A k \in Issues : Accounts(k)

LEMMA CardOrders ==
  ASSUME NEW P \in SUBSET Replicas, NEW Q \in SUBSET Replicas, NEW r \in Replicas
  PROVE  /\ Cardinality(P) \in Nat /\ Cardinality(Q) \in Nat
         /\ P \subseteq Q => Cardinality(P) <= Cardinality(Q)
         /\ P \subseteq Q \cup {r} => Cardinality(P) <= Cardinality(Q) + 1
         /\ r \notin P /\ P \cup {r} \subseteq Q => Cardinality(P) + 1 <= Cardinality(Q)
<1>1. IsFiniteSet(P) /\ IsFiniteSet(Q)
  BY Constants, FS_Subset
<1>2. Cardinality(P) \in Nat /\ Cardinality(Q) \in Nat
  BY <1>1, FS_CardinalityType
<1>3. P \subseteq Q => Cardinality(P) <= Cardinality(Q)
  BY <1>1, FS_Subset
<1>4. ASSUME NEW S \in SUBSET Replicas
      PROVE  /\ Cardinality(S \cup {r}) \in Nat
             /\ Cardinality(S \cup {r}) <= Cardinality(S) + 1
             /\ r \notin S => Cardinality(S \cup {r}) = Cardinality(S) + 1
  <2>1. IsFiniteSet(S)
    BY Constants, FS_Subset
  <2>2. Cardinality(S) \in Nat
    BY <2>1, FS_CardinalityType
  <2>3. CASE r \in S
    <3>1. S \cup {r} = S
      BY <2>3
    <3>2. Cardinality(S \cup {r}) = Cardinality(S)
      BY <3>1
    <3> QED BY <2>2, <2>3, <3>2
  <2>4. CASE r \notin S
    <3>1. Cardinality(S \cup {r}) = Cardinality(S) + 1
      BY <2>1, <2>4, FS_AddElement
    <3> QED BY <2>2, <3>1
  <2> QED BY <2>3, <2>4
<1>5. P \subseteq Q \cup {r} => Cardinality(P) <= Cardinality(Q) + 1
  <2>1. IsFiniteSet(Q \cup {r})
    BY <1>1, FS_AddElement
  <2>2. P \subseteq Q \cup {r} => Cardinality(P) <= Cardinality(Q \cup {r})
    BY <2>1, FS_Subset
  <2> QED BY <1>2, <1>4, <2>2
<1>6. r \notin P /\ P \cup {r} \subseteq Q => Cardinality(P) + 1 <= Cardinality(Q)
  <2>1. P \cup {r} \subseteq Q => Cardinality(P \cup {r}) <= Cardinality(Q)
    BY <1>1, FS_Subset
  <2> QED BY <1>2, <1>4, <2>1
<1> QED BY <1>2, <1>3, <1>5, <1>6

LEMMA CopiesAfterAppend ==
  ASSUME CallInv, NEW at \in Issues, issues' = Append(issues, at), NEW k \in Issues
  PROVE  Copies(k)' = Copies(k) + (IF k = at THEN 1 ELSE 0)
<1>1. /\ issues \in Seq(Issues) /\ Len(issues) \in Nat
      /\ DOMAIN issues = 1..Len(issues) /\ DOMAIN issues' = 1..(Len(issues) + 1)
      /\ \A i \in 1..Len(issues) : issues'[i] = issues[i]
      /\ issues'[Len(issues) + 1] = at
  BY AppendProperties, LenProperties DEF CallInv, EmitTypeOK
<1> DEFINE n == Len(issues) + 1
           S == {i \in DOMAIN issues : issues[i] = k}
           T == {i \in DOMAIN issues' : issues'[i] = k}
<1>2. n \notin DOMAIN issues /\ DOMAIN issues' = DOMAIN issues \cup {n}
  BY <1>1
<1>3. (\A i \in DOMAIN issues : issues'[i] = issues[i]) /\ issues'[n] = at
  BY <1>1
<1> HIDE DEF n
<1>4. T = IF k = at THEN S \cup {n} ELSE S
  BY <1>2, <1>3
<1>5. IsFiniteSet(S) /\ Cardinality(S) \in Nat /\ n \notin S
  BY <1>2, CopiesCount DEF Copies
<1>6. Cardinality(S \cup {n}) = Cardinality(S) + 1
  BY <1>5, FS_AddElement
<1>7. Copies(k) = Cardinality(S) /\ Copies(k)' = Cardinality(T)
  BY DEF Copies
<1> HIDE DEF S, T
<1> QED BY <1>4, <1>5, <1>6, <1>7

\* The other calls that were about to report still are, unless their number is
\* now in the row.
LEMMA PendingOthers ==
  ASSUME CallInv, NEW r \in Replicas, Turn(r), NEW k \in Issues,
         \A s \in Pending(k) \ {r} : row'.numbers[k] # Num(s, k)
  PROVE  Pending(k) \subseteq Pending(k)' \cup {r}
<1> SUFFICES ASSUME NEW s \in Pending(k), s # r PROVE s \in Pending(k)'
  OBVIOUS
<1>1. At(s, "report") /\ call[s].at = k /\ s \in Replicas
  BY DEF Pending
<1>2. Same(s)
  BY <1>1, OthersSame DEF Turn
<1> QED BY <1>1, <1>2 DEF Same, At, Pending, Unrecorded, Num

\* A pending call's number is neither 0 nor in the row.
LEMMA PendingNumber ==
  ASSUME CallInv, NEW k \in Issues, NEW s \in Pending(k)
  PROVE  /\ s \in Replicas /\ At(s, "report") /\ Busy(s) /\ call[s].at = k
         /\ Num(s, k) # 0 /\ Num(s, k) # row.numbers[k]
BY ThisCall DEF Pending, At, CallOK, Unrecorded, Num

LEMMA AccountsStep ==
  ASSUME AccountsInv, [EmitNext]_emitVars, NEW k \in Issues
  PROVE  Accounts(k)'
<1>0. /\ SlipInv /\ SlipInv' /\ CallInv /\ CallInv' /\ FreshInv /\ OwnInv
      /\ Accounts(k)
  BY SlipInvStep DEF AccountsInv, SlipInv, KnownInv
<1>1. /\ Copies(k) \in Nat /\ slips[k] \in Nat /\ slips'[k] \in Nat
      /\ Recorded(k) \in {0, 1} /\ Recorded(k)' \in {0, 1}
  BY <1>0, CopiesCount DEF CallInv, EmitTypeOK, Recorded
<1>2. Pending(k) \in SUBSET Replicas /\ Pending(k)' \in SUBSET Replicas
  BY DEF Pending
<1>3. \A s \in Pending(k) : Num(s, k) # 0 /\ Num(s, k) # row.numbers[k]
  BY <1>0, PendingNumber
<1> DEFINE P == Cardinality(Pending(k))
           Q == Cardinality(Pending(k)')
<1>4. P \in Nat /\ Q \in Nat /\ Copies(k) <= Recorded(k) + slips[k] + P
  <2>1. \A r \in Replicas : P \in Nat /\ Q \in Nat
    BY <1>2, CardOrders
  <2>2. Replicas = {} => Pending(k) = {} /\ Pending(k)' = {}
    BY <1>2
  <2>3. Cardinality({}) \in Nat
    BY FS_EmptySet
  <2> QED BY <1>0, <2>1, <2>2, <2>3 DEF Accounts
<1>5. ASSUME issues' = issues PROVE Copies(k)' = Copies(k)
  BY <1>5 DEF Copies
<1>6. ASSUME row'.numbers[k] = row.numbers[k]
      PROVE  Recorded(k)' = Recorded(k)
  BY <1>6 DEF Recorded
<1>7. ASSUME NEW a \in {0, 1}, Copies(k)' = Copies(k) + a,
             Recorded(k) + slips[k] + P + a <= Recorded(k)' + slips'[k] + Q
      PROVE  Accounts(k)'
  <2>1. Copies(k)' <= Recorded(k)' + slips'[k] + Q
    <3> HIDE DEF P, Q
    <3> QED BY <1>1, <1>4, <1>7
  <2> QED BY <2>1 DEF Accounts
<1>8. ASSUME issues' = issues, row'.numbers[k] = row.numbers[k], slips'[k] = slips[k],
             P <= Q
      PROVE  Accounts(k)'
  <2> HIDE DEF P, Q
  <2> QED BY <1>1, <1>4, <1>5, <1>6, <1>7, <1>8
<1>9. CASE Still
  <2>1. Pending(k) \subseteq Pending(k)'
    <3> SUFFICES ASSUME NEW s \in Pending(k) PROVE s \in Pending(k)'
      OBVIOUS
    <3>1. Same(s) /\ At(s, "report") /\ call[s].at = k /\ s \in Replicas
      BY <1>9 DEF Still, Pending
    <3> QED BY <1>9, <3>1 DEF Still, Same, At, Pending, Unrecorded
  <2>2. CASE Replicas = {}
    <3>1. Pending(k) = Pending(k)'
      BY <1>2, <2>2
    <3> QED BY <1>4, <1>8, <1>9, <3>1 DEF Still
  <2>3. ASSUME NEW r \in Replicas PROVE P <= Q
    BY <1>2, <2>1, CardOrders
  <2> QED BY <1>8, <1>9, <2>2, <2>3 DEF Still
\* A turn of a call that is not about to report k.
<1>10. ASSUME NEW r \in Replicas, Turn(r), r \notin Pending(k),
              \A s \in Pending(k) \ {r} : row'.numbers[k] # Num(s, k)
       PROVE  P <= Q
  <2>1. Pending(k) \subseteq Pending(k)'
    BY <1>0, <1>10, PendingOthers
  <2> QED BY <1>2, <1>10, <2>1, CardOrders
\* A turn of any call.
<1>11. ASSUME NEW r \in Replicas, Turn(r),
              \A s \in Pending(k) \ {r} : row'.numbers[k] # Num(s, k)
       PROVE  P <= Q + 1
  <2>1. Pending(k) \subseteq Pending(k)' \cup {r}
    BY <1>0, <1>11, PendingOthers
  <2> QED BY <1>2, <1>11, <2>1, CardOrders
<1>12. ASSUME NEW r \in Replicas, call[r].pc # "report" \/ ~Busy(r)
       PROVE  r \notin Pending(k)
  BY <1>12 DEF Pending, At
<1> HIDE DEF P, Q
<1>13. ASSUME NEW r \in Replicas, Turn(r),
              \/ Opens(r) \/ Reads(r) \/ (Moves(r) /\ SameRecords) \/ Refreshes(r)
              \/ Skips(r)
       PROVE  Accounts(k)'
  <2>1. SameRecords /\ r \notin Pending(k)
    BY <1>12, <1>13 DEF Opens, Reads, Moves, Refreshes, Skips
  <2> QED BY <1>3, <1>8, <1>10, <1>13, <2>1 DEF SameRecords
<1>14. ASSUME NEW r \in Replicas, Turn(r), CreateIssue(r) PROVE Accounts(k)'
  <2>1. /\ At(r, "create") /\ row' = row /\ slips' = slips
        /\ issues' = Append(issues, call[r].at)
    BY <1>14 DEF CreateIssue
  <2>2. r \notin Pending(k) /\ call[r].at \in Issues
    BY <1>0, <1>12, <2>1, NumberedNumbers DEF At
  <2>3. Copies(k)' = Copies(k) + (IF k = call[r].at THEN 1 ELSE 0)
    BY <1>0, <2>1, <2>2, CopiesAfterAppend
  <2>4. CASE k # call[r].at
    <3>1. P <= Q
      BY <1>3, <1>10, <1>14, <2>1, <2>2
    <3>2. Copies(k)' = Copies(k) + 0
      BY <1>1, <2>3, <2>4
    <3> QED BY <1>1, <1>4, <1>6, <1>7, <2>1, <3>1, <3>2
  <2>5. CASE k = call[r].at
    <3>1. r \in Pending(k)'
      <4>1. /\ Busy(r)' /\ call'[r].pc = "report" /\ call'[r].at = k
            /\ call'[r].doc = Numbered(r)
        BY <1>0, <1>14, <2>5, CreateIssueCall DEF Continues
      <4>2. Numbered(r).numbers[k] = Len(issues) + 1
        BY <1>0, <2>1, <2>5, NumberedNumbers
      <4>3. row.numbers[k] # Len(issues) + 1
        <5>1. issues \in Seq(Issues) /\ Known(row, issues)
          BY <1>0 DEF CallInv, EmitTypeOK, SlipInv, KnownInv
        <5>2. Len(issues) + 1 \notin DOMAIN issues /\ Len(issues) + 1 # 0
          BY <5>1, LenProperties
        <5> QED BY <5>1, <5>2 DEF Known
      <4> QED BY <2>1, <4>1, <4>2, <4>3 DEF Pending, At, Unrecorded
    <3>2. Pending(k) \subseteq Pending(k)' \cup {r}
      BY <1>0, <1>3, <1>14, <2>1, PendingOthers
    <3>3. P + 1 <= Q
      BY <1>2, <2>2, <3>1, <3>2, CardOrders DEF P, Q
    <3>4. Copies(k)' = Copies(k) + 1
      BY <2>3, <2>5
    <3> QED BY <1>1, <1>4, <1>6, <1>7, <2>1, <3>3, <3>4
  <2> QED BY <2>4, <2>5
<1>15. ASSUME NEW r \in Replicas, Turn(r), CreateAnswerLost(r) PROVE Accounts(k)'
  <2>1. /\ At(r, "create") /\ row' = row
        /\ issues' = Append(issues, call[r].at)
        /\ slips' = [slips EXCEPT ![call[r].at] = @ + 1]
    BY <1>15 DEF CreateAnswerLost
  <2>2. r \notin Pending(k) /\ call[r].at \in Issues
    BY <1>0, <1>12, <2>1, NumberedNumbers DEF At
  <2>3. Copies(k)' = Copies(k) + (IF k = call[r].at THEN 1 ELSE 0)
    BY <1>0, <2>1, <2>2, CopiesAfterAppend
  <2>4. slips'[k] = slips[k] + (IF k = call[r].at THEN 1 ELSE 0)
    BY <1>0, <1>1, <2>1, <2>2, Slip DEF CallInv, EmitTypeOK
  <2>5. P <= Q
    BY <1>3, <1>10, <1>15, <2>1, <2>2
  <2> DEFINE a == IF k = call[r].at THEN 1 ELSE 0
  <2>6. a \in {0, 1} /\ Copies(k)' = Copies(k) + a /\ slips'[k] = slips[k] + a
    BY <2>3, <2>4
  <2> HIDE DEF a
  <2>7. Recorded(k)' = Recorded(k)
    BY <1>6, <2>1
  <2>8. Recorded(k) + slips[k] + P + a <= Recorded(k)' + slips'[k] + Q
    <3> HIDE DEF P, Q
    <3> QED BY <1>1, <1>4, <2>5, <2>6, <2>7
  <2> QED BY <1>7, <2>6, <2>8
\* The number about to be reported is left out of the row.
<1>16. ASSUME NEW r \in Replicas, Turn(r), At(r, "report"), issues' = issues, row' = row,
              slips' = IF Unrecorded(r) THEN [slips EXCEPT ![call[r].at] = @ + 1]
                       ELSE slips
       PROVE  Accounts(k)'
  <2>1. call[r].at \in Issues /\ slips \in [Issues -> Nat]
    BY <1>0, <1>16, ThisCall DEF At, CallOK, CallInv, EmitTypeOK
  <2>2. CASE r \in Pending(k)
    <3>1. slips'[k] = slips[k] + 1
      BY <1>16, <2>1, <2>2, Slip DEF Pending
    <3>2. P <= Q + 1
      BY <1>3, <1>11, <1>16
    <3>3. Copies(k)' = Copies(k) + 0
      BY <1>1, <1>5, <1>16
    <3> QED BY <1>1, <1>4, <1>6, <1>7, <1>16, <3>1, <3>2, <3>3
  <2>3. CASE r \notin Pending(k)
    <3>1. slips'[k] = slips[k]
      BY <1>16, <2>1, <2>3, Slip DEF Pending
    <3>2. P <= Q
      BY <1>3, <1>10, <1>16, <2>3
    <3> QED BY <1>8, <1>16, <3>1, <3>2
  <2> QED BY <2>2, <2>3
<1>17. ASSUME NEW r \in Replicas, Turn(r), Report(r) PROVE Accounts(k)'
  <2>1. /\ Busy(r) /\ At(r, "report") /\ call[r].pc = "report" /\ issues' = issues
        /\ call[r].fresh \in BOOLEAN /\ call[r].at \in Issues
        /\ Num(r, call[r].at) # 0
    BY <1>0, <1>17, ThisCall DEF Report, At, CallOK, Num
  <2>2. CASE call[r].fresh
    <3>1. row' = call[r].doc /\ slips' = slips
      BY <1>0, <1>17, <2>2, ReportCall
    <3>2. Num(r, k) = row.numbers[k] \/ (k = call[r].at /\ row.numbers[k] = 0)
      BY <1>0, <2>1, <2>2 DEF FreshInv, MatchesRow
    <3>3. CASE Num(r, k) = row.numbers[k]
      <4>1. r \notin Pending(k)
        BY <1>3, <3>3
      <4>2. P <= Q
        BY <1>3, <1>10, <1>17, <3>1, <3>3, <4>1 DEF Num
      <4> QED BY <1>8, <2>1, <3>1, <3>3, <4>2 DEF Num
    <3>4. CASE k = call[r].at /\ row.numbers[k] = 0
      <4>1. Num(r, k) # 0
        BY <2>1, <3>4
      <4>2. \A s \in Replicas \ {r} : Busy(s) => Num(s, k) # Num(r, k)
        BY <1>0, <2>1, <3>4, <4>1 DEF OwnInv, Own
      <4>3. \A s \in Pending(k) \ {r} : row'.numbers[k] # Num(s, k)
        BY <1>0, <3>1, <4>2, PendingNumber DEF Num
      <4>4. P <= Q + 1
        BY <1>11, <1>17, <4>3
      <4>5. Recorded(k) = 0 /\ Recorded(k)' = 1
        BY <3>1, <3>4, <4>1 DEF Recorded, Num
      <4>6. Copies(k)' = Copies(k) + 0
        BY <1>1, <1>5, <2>1
      <4> QED BY <1>1, <1>4, <1>7, <3>1, <4>4, <4>5, <4>6
    <3> QED BY <3>2, <3>3, <3>4
  <2>3. CASE ~call[r].fresh
    <3>1. /\ row' = row
          /\ slips' = IF Unrecorded(r) THEN [slips EXCEPT ![call[r].at] = @ + 1]
                      ELSE slips
      BY <1>0, <1>17, <2>3, ReportCall
    <3> QED BY <1>0, <1>17, <1>16, <2>1, <3>1
  <2> QED BY <2>1, <2>2, <2>3
<1>18. ASSUME NEW r \in Replicas, Turn(r), FinalSave(r) \/ SaveDryRun(r)
       PROVE  Accounts(k)'
  <2>1. /\ Busy(r) /\ call[r].pc = "save" /\ issues' = issues
        /\ call[r].fresh \in BOOLEAN /\ call[r].doc \in Row
    BY <1>0, <1>18, ThisCall DEF FinalSave, SaveDryRun, Doing, At
  <2>2. r \notin Pending(k)
    BY <1>12, <2>1
  <2>3. PICK doc \in {call[r].doc, Cleared(call[r].doc)} :
          /\ call[r].fresh => row' = doc
          /\ ~call[r].fresh => row' = row
          /\ slips' = SlipsWhenSaved(r, doc)
    BY <1>18 DEF FinalSave, SaveDryRun
  <2>4. slips'[k] = IF call[r].fresh /\ row.numbers[k] # 0 /\ doc.numbers[k] = 0
                    THEN slips[k] + 1 ELSE slips[k]
    BY <2>3 DEF SlipsWhenSaved
  <2>5. CASE ~call[r].fresh
    BY <1>3, <1>8, <1>10, <1>18, <2>1, <2>2, <2>3, <2>4, <2>5
  <2>6. CASE call[r].fresh
    <3>1. doc.numbers[k] = row.numbers[k] \/ doc.numbers[k] = 0
      <4>1. Num(r, k) = row.numbers[k] \/ Num(r, k) = 0
        BY <1>0, <2>1, <2>6 DEF FreshInv, MatchesRow
      <4>2. doc.numbers[k] = Num(r, k) \/ doc.numbers[k] = 0
        BY <2>1, <2>3, ClearedNumbers DEF Num
      <4> QED BY <4>1, <4>2
    <3>2. row' = doc
      BY <2>3, <2>6
    <3>3. P <= Q
      BY <1>3, <1>10, <1>18, <2>2, <3>1, <3>2
    <3>4. CASE row.numbers[k] # 0 /\ doc.numbers[k] = 0
      <4>1. Recorded(k) = 1 /\ Recorded(k)' = 0 /\ slips'[k] = slips[k] + 1
        BY <2>4, <2>6, <3>2, <3>4 DEF Recorded
      <4>2. Copies(k)' = Copies(k) + 0
        BY <1>1, <1>5, <2>1
      <4> QED BY <1>1, <1>4, <1>7, <3>3, <4>1, <4>2
    <3>5. CASE ~(row.numbers[k] # 0 /\ doc.numbers[k] = 0)
      BY <1>8, <2>1, <2>4, <3>1, <3>2, <3>3, <3>5
    <3> QED BY <3>4, <3>5
  <2> QED BY <2>1, <2>5, <2>6
<1>19. ASSUME NEW r \in Replicas, Turn(r), Closes(r) PROVE Accounts(k)'
  <2>1. row' = row /\ issues' = issues
    BY <1>19 DEF Closes, Release, Kill
  <2>2. CASE Release(r)
    <3>1. r \notin Pending(k) /\ slips' = slips
      BY <1>12, <2>2 DEF Release, At
    <3> QED BY <1>3, <1>8, <1>10, <1>19, <2>1, <3>1
  <2>3. CASE Kill(r) /\ call[r].pc # "report"
    <3>1. r \notin Pending(k) /\ slips' = slips
      BY <1>12, <2>3 DEF Kill
    <3> QED BY <1>3, <1>8, <1>10, <1>19, <2>1, <3>1
  <2>4. CASE Kill(r) /\ call[r].pc = "report"
    <3>1. At(r, "report")
          /\ slips' = IF Unrecorded(r) THEN [slips EXCEPT ![call[r].at] = @ + 1] ELSE slips
      BY <2>4 DEF Kill, At
    <3> QED BY <1>16, <1>19, <2>1, <3>1
  <2> QED BY <1>19, <2>2, <2>3, <2>4 DEF Closes
<1> QED
  BY <1>0, <1>9, <1>13, <1>14, <1>15, <1>17, <1>18, <1>19, StepKinds

LEMMA AccountsInvStep == AccountsInv /\ [EmitNext]_emitVars => AccountsInv'
BY AccountsStep, SlipInvStep DEF AccountsInv

LEMMA AccountsInvInit == EmitInit => AccountsInv
<1> SUFFICES ASSUME EmitInit, NEW k \in Issues PROVE Accounts(k)
  BY SlipInvInit DEF AccountsInv
<1>1. {n \in DOMAIN issues : issues[n] = k} = {}
  BY DEF EmitInit
<1>2. Pending(k) = {}
  BY DEF EmitInit, Pending, At, Busy
<1>3. row.numbers[k] = 0 /\ slips[k] = 0
  BY DEF EmitInit, NoNumbers
<1>4. Cardinality({}) = 0
  BY FS_EmptySet
<1>5. Copies(k) = 0 /\ Cardinality(Pending(k)) = 0 /\ Recorded(k) = 0
  BY <1>1, <1>2, <1>3, <1>4 DEF Copies, Recorded
<1> QED BY <1>3, <1>5 DEF Accounts

\* For any number of replicas, children, kills, failures, conflicting saves and
\* outlived leases: every copy of an issue is in the row, is about to be reported, or
\* is owed to a number that did not reach the row or was cleared from it.
THEOREM DuplicatesAccounted == EmitSpec => []DuplicatesAreSlips
<1>1. AccountsInv => DuplicatesAreSlips
  BY DEF AccountsInv, Accounts, DuplicatesAreSlips
<1> QED BY <1>1, AccountsInvInit, AccountsInvStep, PTL DEF EmitSpec

==============================================================================
