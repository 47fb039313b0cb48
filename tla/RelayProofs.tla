------------------------------ MODULE RelayProofs ------------------------------
(***************************************************************************)
(* What holds of the relay for any number of pods, any queue bound, number *)
(* of attempts and bound on events and faults: its types and queue bounds, *)
(* that a transient failure eats no event, and that it implements a lossy  *)
(* broadcast.  The last rests on the order of a sender's events along the  *)
(* way: delivered, in the inbound queue, in the drain, in the outbox.      *)
(***************************************************************************)
EXTENDS Relay, SequenceTheorems, TLAPS

(***************************************************************************)
(* The queues.                                                             *)
(***************************************************************************)

\* How many items a put drops.
Evicted(queue) == IF Len(queue) < QueueMax THEN 0 ELSE 1

(* What a put leaves in a queue: an end of it, and the new item behind.    *)
LEMMA PutResult ==
  ASSUME NEW S, NEW queue \in Seq(S), NEW item \in S, Len(queue) <= QueueMax
  PROVE  LET new == PutDroppingOldest(queue, item) IN
         /\ new \in Seq(S) /\ Len(new) <= QueueMax
         /\ Len(new) = Len(queue) + 1 - Evicted(queue)
         /\ new[Len(new)] = item
         /\ \A i \in 1..(Len(new) - 1) :
              /\ i + Evicted(queue) \in 1..Len(queue)
              /\ new[i] = queue[i + Evicted(queue)]
<1> DEFINE new == PutDroppingOldest(queue, item)
<1>1. CASE Len(queue) < QueueMax
  <2>1. new = Append(queue, item)
    BY <1>1 DEF PutDroppingOldest
  <2>2. /\ new \in Seq(S) /\ Len(new) = Len(queue) + 1 /\ new[Len(new)] = item
        /\ \A i \in 1..Len(queue) : new[i] = queue[i]
    BY <2>1, AppendProperties
  <2> HIDE DEF new
  <2>3. Len(new) = Len(queue) + 1 - 0 /\ \A i \in 1..(Len(new) - 1) : i + 0 \in 1..Len(queue) /\ new[i] = queue[i + 0]
    BY <2>2
  <2>4. Len(new) <= QueueMax
    BY <1>1, <2>2, RelayAssumption DEF RelayAssumption
  <2>5. Evicted(queue) = 0
    BY <1>1 DEF Evicted
  <2> QED BY <2>2, <2>3, <2>4, <2>5 DEF new
<1>2. CASE Len(queue) = QueueMax
  <2>0. queue # <<>> /\ Len(queue) > 0
    BY <1>2, RelayAssumption DEF RelayAssumption
  <2>1. new = Append(Tail(queue), item)
    BY <1>2 DEF PutDroppingOldest
  <2>2. /\ Tail(queue) \in Seq(S) /\ Len(Tail(queue)) = Len(queue) - 1
        /\ \A i \in 1..Len(Tail(queue)) : Tail(queue)[i] = queue[i + 1]
    BY <2>0, HeadTailProperties
  <2>3. /\ new \in Seq(S) /\ Len(new) = Len(queue) /\ new[Len(new)] = item
        /\ \A i \in 1..(Len(queue) - 1) : new[i] = queue[i + 1]
    BY <2>0, <2>1, <2>2, AppendProperties
  <2> HIDE DEF new
  <2>4. Len(new) = Len(queue) + 1 - 1 /\ \A i \in 1..(Len(new) - 1) : i + 1 \in 1..Len(queue) /\ new[i] = queue[i + 1]
    BY <2>0, <2>3
  <2>5. Evicted(queue) = 1
    BY <1>2 DEF Evicted
  <2> QED BY <1>2, <2>3, <2>4, <2>5 DEF new
<1>3. Len(queue) < QueueMax \/ Len(queue) = QueueMax
  BY RelayAssumption DEF RelayAssumption
<1> QED BY <1>1, <1>2, <1>3

(* The same for an inbound queue and for an outbox. *)
LEMMA PutEvent ==
  ASSUME NEW queue \in Seq(Event), NEW item \in Event, Len(queue) <= QueueMax
  PROVE  LET new == PutDroppingOldest(queue, item) IN
         /\ new \in Seq(Event) /\ Len(new) <= QueueMax
         /\ Len(new) = Len(queue) + 1 - Evicted(queue)
         /\ new[Len(new)] = item
         /\ \A i \in 1..(Len(new) - 1) :
              /\ i + Evicted(queue) \in 1..Len(queue)
              /\ new[i] = queue[i + Evicted(queue)]
BY PutResult, ZenonT(30)

LEMMA PutNumber ==
  ASSUME NEW queue \in Seq(Numbers), NEW item \in Numbers, Len(queue) <= QueueMax
  PROVE  LET new == PutDroppingOldest(queue, item) IN
         /\ new \in Seq(Numbers) /\ Len(new) <= QueueMax
         /\ Len(new) = Len(queue) + 1 - Evicted(queue)
         /\ new[Len(new)] = item
         /\ \A i \in 1..(Len(new) - 1) :
              /\ i + Evicted(queue) \in 1..Len(queue)
              /\ new[i] = queue[i + Evicted(queue)]
BY PutResult, ZenonT(30)

(* What taking the head leaves. *)
LEMMA TailResult ==
  ASSUME NEW S, NEW queue \in Seq(S), queue # <<>>
  PROVE  /\ Head(queue) \in S /\ Head(queue) = queue[1] /\ 1 \in DOMAIN queue
         /\ Tail(queue) \in Seq(S) /\ Len(Tail(queue)) = Len(queue) - 1
         /\ DOMAIN Tail(queue) = 1..(Len(queue) - 1)
         /\ \A i \in DOMAIN Tail(queue) :
              i + 1 \in DOMAIN queue /\ Tail(queue)[i] = queue[i + 1]
BY HeadTailProperties

------------------------------------------------------------------------------
(***************************************************************************)
(* Types.                                                                  *)
(***************************************************************************)

LEMMA TypeInit == RelayInit => RelayTypeOK
BY RelayAssumption DEF RelayAssumption, RelayInit, RelayTypeOK, NoItem, Event

(* An event that is on its way, as an item of an inbound queue. *)
LEMMA HeardType ==
  ASSUME RelayTypeOK, NEW p \in Pods
  PROVE  /\ Heard(p) \in [Pods -> Seq(Event)]
         /\ \A q \in Pods : Len(Heard(p)[q]) <= QueueMax
<1>1. [from |-> p, n |-> drain[p].n] \in Event
  BY DEF RelayTypeOK, Event
<1>2. ASSUME NEW q \in Pods
      PROVE  Heard(p)[q] \in Seq(Event) /\ Len(Heard(p)[q]) <= QueueMax
  <2>1. inbound[q] \in Seq(Event) /\ Len(inbound[q]) <= QueueMax
    BY DEF RelayTypeOK
  <2>2. LET new == PutDroppingOldest(inbound[q], [from |-> p, n |-> drain[p].n])
        IN  new \in Seq(Event) /\ Len(new) <= QueueMax
    BY <1>1, <2>1, PutEvent
  <2> QED BY <2>1, <2>2 DEF Heard
<1> QED BY <1>2 DEF Heard

LEMMA FailedItemType ==
  ASSUME RelayTypeOK, NEW p \in Pods, FailedItem(p), drain[p].n # 0
  PROVE  /\ drain' \in [Pods -> [n : 0..MaxSent, failed : 0..(Attempts - 1)]]
         /\ givenUp' \in [Pods -> SUBSET Numbers]
         /\ outbox' = outbox
<1>1. drain[p].n \in Numbers /\ drain[p].failed \in 0..(Attempts - 1)
  BY RelayAssumption DEF RelayAssumption, RelayTypeOK, Numbers
<1>2. CASE drain[p].failed + 1 < Attempts
  <2> DEFINE item == [drain[p] EXCEPT !.failed = @ + 1]
  <2>1. item \in [n : 0..MaxSent, failed : 0..(Attempts - 1)]
    <3>1. drain[p] \in [n : 0..MaxSent, failed : 0..(Attempts - 1)]
      BY DEF RelayTypeOK
    <3>2. drain[p].failed + 1 \in 0..(Attempts - 1)
      BY <1>1, <1>2, RelayAssumption DEF RelayAssumption
    <3> QED BY <3>1, <3>2
  <2>2. drain' = [drain EXCEPT ![p] = item] /\ UNCHANGED <<givenUp, outbox>>
    BY <1>2 DEF FailedItem
  <2> HIDE DEF item
  <2> QED BY <2>1, <2>2 DEF RelayTypeOK
<1>3. CASE ~(drain[p].failed + 1 < Attempts)
  <2>1. NoItem \in [n : 0..MaxSent, failed : 0..(Attempts - 1)]
    BY RelayAssumption DEF RelayAssumption, NoItem
  <2>2. /\ drain' = [drain EXCEPT ![p] = NoItem] /\ outbox' = outbox
        /\ givenUp' = [givenUp EXCEPT ![p] = @ \cup {drain[p].n}]
    BY <1>3 DEF FailedItem
  <2> QED BY <1>1, <2>1, <2>2 DEF RelayTypeOK
<1> QED BY <1>2, <1>3

LEMMA TypeStep == RelayTypeOK /\ [RelayNext]_relayVars => RelayTypeOK'
<1> SUFFICES ASSUME RelayTypeOK, [RelayNext]_relayVars PROVE RelayTypeOK'
  OBVIOUS
<1> USE RelayAssumption DEF RelayAssumption
<1>0. NoItem \in [n : 0..MaxSent, failed : 0..(Attempts - 1)] /\ <<>> \in Seq(Event)
      /\ <<>> \in Seq(Numbers) /\ Len(<<>>) <= QueueMax
  BY DEF NoItem
<1>1. ASSUME NEW p \in Pods, Start(p) \/ PoolMade(p) PROVE RelayTypeOK'
  BY <1>1 DEF Start, PoolMade, RelayTypeOK
<1>2. ASSUME NEW p \in Pods, PoolFails(p) PROVE RelayTypeOK'
  BY <1>0, <1>2 DEF PoolFails, Fault, RelayTypeOK
<1>3. ASSUME NEW p \in Pods, StopDrain(p) PROVE RelayTypeOK'
  BY <1>0, <1>3 DEF StopDrain, RelayTypeOK
<1>4. ASSUME NEW p \in Pods, StopListening(p) PROVE RelayTypeOK'
  BY <1>0, <1>4 DEF StopListening, RelayTypeOK
<1>5. ASSUME NEW p \in Pods, Crash(p) PROVE RelayTypeOK'
  BY <1>0, <1>5 DEF Crash, Fault, RelayTypeOK
<1>6. ASSUME NEW p \in Pods, Publish(p) PROVE RelayTypeOK'
  <2>1. sent[p] + 1 \in Numbers
    BY <1>6 DEF Publish, RelayTypeOK, Numbers
  <2>2. LET new == PutDroppingOldest(outbox[p], sent[p] + 1)
        IN  new \in Seq(Numbers) /\ Len(new) <= QueueMax
    BY <2>1, PutNumber DEF RelayTypeOK
  <2>3. outbox' \in [Pods -> Seq(Numbers)] /\ \A q \in Pods : Len(outbox'[q]) <= QueueMax
    BY <1>6, <2>2 DEF Publish, RelayTypeOK
  <2>4. sent' \in [Pods -> 0..MaxSent] /\ poison' \in [Pods -> SUBSET Numbers]
    BY <1>6, <2>1 DEF Publish, RelayTypeOK, Numbers
  <2> QED BY <1>6, <2>3, <2>4 DEF Publish, RelayTypeOK
<1>7. ASSUME NEW p \in Pods, TakeItem(p) PROVE RelayTypeOK'
  <2>1. /\ Head(outbox[p]) \in Numbers /\ Tail(outbox[p]) \in Seq(Numbers)
        /\ Len(Tail(outbox[p])) <= QueueMax
    BY <1>7, TailResult DEF TakeItem, RelayTypeOK
  <2>2. [n |-> Head(outbox[p]), failed |-> 0] \in [n : 0..MaxSent, failed : 0..(Attempts - 1)]
    BY <2>1 DEF Numbers
  <2> QED BY <1>7, <2>1, <2>2 DEF TakeItem, RelayTypeOK
<1>8. ASSUME NEW p \in Pods, Notify(p) PROVE RelayTypeOK'
  BY <1>0, <1>8, HeardType DEF Notify, RelayTypeOK
<1>9. ASSUME NEW p \in Pods, NotifyRefused(p) PROVE RelayTypeOK'
  <2>1. drain[p].n # 0
    BY <1>9 DEF NotifyRefused, RelayTypeOK, Numbers
  <2> QED BY <1>9, <2>1, FailedItemType DEF NotifyRefused, RelayTypeOK
<1>10. ASSUME NEW p \in Pods, NotifyFails(p) PROVE RelayTypeOK'
  <2>1. drain[p].n # 0 /\ FailedItem(p)
    BY <1>10 DEF NotifyFails
  <2>2. inbound' \in [Pods -> Seq(Event)] /\ \A q \in Pods : Len(inbound'[q]) <= QueueMax
    <3>1. inbound' = inbound \/ inbound' = Heard(p)
      BY <1>10 DEF NotifyFails
    <3> QED BY <3>1, HeardType DEF RelayTypeOK
  <2>3. faults' \in 0..MaxFaults
    BY <1>10 DEF NotifyFails, Fault, RelayTypeOK
  <2> QED BY <1>10, <2>1, <2>2, <2>3, FailedItemType DEF NotifyFails, RelayTypeOK
<1>11. ASSUME NEW p \in Pods, Connect(p) PROVE RelayTypeOK'
  BY <1>0, <1>11 DEF Connect, RelayTypeOK
<1>12. ASSUME NEW p \in Pods, ConnectionDies(p) PROVE RelayTypeOK'
  <2>1. [from |-> p, n |-> 0] \in Event
    BY DEF Event
  <2>2. LET new == PutDroppingOldest(inbound[p], [from |-> p, n |-> 0])
        IN  new \in Seq(Event) /\ Len(new) <= QueueMax
    BY <2>1, PutEvent DEF RelayTypeOK
  <2>3. inbound' \in [Pods -> Seq(Event)] /\ \A q \in Pods : Len(inbound'[q]) <= QueueMax
    <3> DEFINE new == PutDroppingOldest(inbound[p], [from |-> p, n |-> 0])
    <3>1. inbound' = inbound \/ inbound' = [inbound EXCEPT ![p] = new]
      BY <1>12 DEF ConnectionDies
    <3>2. new \in Seq(Event) /\ Len(new) <= QueueMax
      BY <2>2
    <3> HIDE DEF new
    <3>3. inbound \in [Pods -> Seq(Event)] /\ \A q \in Pods : Len(inbound[q]) <= QueueMax
      BY DEF RelayTypeOK
    <3>4. CASE inbound' = [inbound EXCEPT ![p] = new]
      BY <3>2, <3>3, <3>4
    <3> QED BY <3>1, <3>3, <3>4
  <2>4. conn' \in [Pods -> {"none", "listening", "dead"}] /\ faults' \in 0..MaxFaults
    BY <1>12 DEF ConnectionDies, Fault, RelayTypeOK
  <2>5. UNCHANGED <<phase, outbox, drain, sent, poison, last, givenUp>>
    BY <1>12 DEF ConnectionDies
  <2> QED BY <2>3, <2>4, <2>5 DEF RelayTypeOK
<1>13. ASSUME NEW p \in Pods, Deliver(p) PROVE RelayTypeOK'
  <2>1. /\ Head(inbound[p]) \in Event /\ Tail(inbound[p]) \in Seq(Event)
        /\ Len(Tail(inbound[p])) <= QueueMax
    BY <1>13, TailResult DEF Deliver, RelayTypeOK
  <2>2. last' \in [Pods -> [Pods -> 0..MaxSent]]
    BY <1>13, <2>1 DEF Deliver, RelayTypeOK, Event
  <2> QED BY <1>13, <2>1, <2>2 DEF Deliver, RelayTypeOK
<1>14. ASSUME NEW p \in Pods, NoticeDeath(p) PROVE RelayTypeOK'
  BY <1>0, <1>14 DEF NoticeDeath, Noticed, RelayTypeOK
<1>15. CASE UNCHANGED relayVars
  BY <1>15 DEF relayVars, RelayTypeOK
<1> QED
  BY <1>1, <1>2, <1>3, <1>4, <1>5, <1>6, <1>7, <1>8, <1>9, <1>10, <1>11, <1>12,
     <1>13, <1>14, <1>15 DEF RelayNext, DrainStep, ListenStep

(* Types and queue bounds, for every instance. *)
THEOREM RelayWellTyped == RelaySpec => []RelayTypeOK
BY TypeInit, TypeStep, PTL DEF RelaySpec

------------------------------------------------------------------------------
(***************************************************************************)
(* What the drain gives up.                                                *)
(***************************************************************************)

(* An attempt at an item that Postgres accepts fails by a fault only.      *)
FailuresAreFaults ==
  \A p \in Pods : drain[p].n \notin poison[p] => drain[p].failed <= faults

DrainInv == RelayTypeOK /\ FailuresAreFaults /\ OnlyPoisonGivenUp

LEMMA DrainInit == RelayInit => DrainInv
BY TypeInit DEF RelayInit, DrainInv, FailuresAreFaults, OnlyPoisonGivenUp, NoItem

(* A failed attempt, of a poisoned item or by a fault. *)
LEMMA FailedAttempt ==
  ASSUME DrainInv, NEW p \in Pods, FailedItem(p), UNCHANGED poison, drain[p].n # 0,
         faults' \in Nat, faults <= faults',
         drain[p].n \in poison[p] \/ faults' = faults + 1
  PROVE  (FailuresAreFaults /\ OnlyPoisonGivenUp)'
<1>1. /\ drain[p].failed \in Nat /\ faults \in Nat /\ Attempts \in Nat
      /\ \A q \in Pods : drain[q].failed \in Nat
  BY RelayAssumption DEF DrainInv, RelayTypeOK, RelayAssumption
<1>2. CASE drain[p].failed + 1 < Attempts
  <2>1. /\ drain'[p].n = drain[p].n /\ drain'[p].failed = drain[p].failed + 1
        /\ \A q \in Pods \ {p} : drain'[q] = drain[q]
        /\ givenUp' = givenUp
    BY <1>2 DEF FailedItem, DrainInv, RelayTypeOK
  <2>2. FailuresAreFaults'
    BY <1>1, <2>1 DEF DrainInv, FailuresAreFaults
  <2>3. OnlyPoisonGivenUp'
    BY <1>1, <2>1 DEF DrainInv, OnlyPoisonGivenUp
  <2> QED BY <2>2, <2>3
<1>3. CASE ~(drain[p].failed + 1 < Attempts)
  <2>1. /\ drain'[p] = NoItem
        /\ \A q \in Pods \ {p} : drain'[q] = drain[q] /\ givenUp'[q] = givenUp[q]
        /\ givenUp'[p] = givenUp[p] \cup {drain[p].n}
    BY <1>3 DEF FailedItem, DrainInv, RelayTypeOK
  <2>2. FailuresAreFaults'
    BY <1>1, <2>1 DEF DrainInv, FailuresAreFaults, NoItem
  <2>3. faults' < Attempts => drain[p].n \in poison[p]
    BY <1>1, <1>3 DEF DrainInv, FailuresAreFaults
  <2>4. OnlyPoisonGivenUp'
    BY <1>1, <2>1, <2>3 DEF DrainInv, OnlyPoisonGivenUp
  <2> QED BY <2>2, <2>4
<1> QED BY <1>2, <1>3

LEMMA DrainInvStep == DrainInv /\ [RelayNext]_relayVars => DrainInv'
<1> SUFFICES ASSUME DrainInv, [RelayNext]_relayVars
             PROVE  (FailuresAreFaults /\ OnlyPoisonGivenUp)'
  BY TypeStep DEF DrainInv
<1>0. /\ faults \in Nat /\ Attempts \in Nat
      /\ \A p \in Pods : drain[p].failed \in Nat
  BY RelayAssumption DEF DrainInv, RelayTypeOK, RelayAssumption
<1>1. ASSUME NEW p \in Pods, NotifyRefused(p)
      PROVE  (FailuresAreFaults /\ OnlyPoisonGivenUp)'
  <2>1. drain[p].n # 0
    BY <1>1 DEF NotifyRefused, DrainInv, RelayTypeOK, Numbers
  <2> QED BY <1>0, <1>1, <2>1, FailedAttempt DEF NotifyRefused
<1>2. ASSUME NEW p \in Pods, NotifyFails(p)
      PROVE  (FailuresAreFaults /\ OnlyPoisonGivenUp)'
  BY <1>0, <1>2, FailedAttempt DEF NotifyFails, Fault
<1>3. ASSUME NEW p \in Pods, TakeItem(p)
      PROVE  (FailuresAreFaults /\ OnlyPoisonGivenUp)'
  <2>1. /\ drain'[p].failed = 0 /\ \A q \in Pods \ {p} : drain'[q] = drain[q]
        /\ UNCHANGED <<poison, givenUp, faults>>
    BY <1>3 DEF TakeItem, DrainInv, RelayTypeOK
  <2> QED BY <1>0, <2>1 DEF DrainInv, FailuresAreFaults, OnlyPoisonGivenUp
<1>4. ASSUME NEW p \in Pods, StopDrain(p) \/ Crash(p) \/ Notify(p)
      PROVE  (FailuresAreFaults /\ OnlyPoisonGivenUp)'
  <2>1. /\ drain'[p] = NoItem /\ \A q \in Pods \ {p} : drain'[q] = drain[q]
        /\ UNCHANGED <<poison, givenUp>> /\ (faults' = faults \/ faults' = faults + 1)
    BY <1>4 DEF StopDrain, Crash, Notify, Fault, DrainInv, RelayTypeOK
  <2> QED BY <1>0, <2>1 DEF DrainInv, FailuresAreFaults, OnlyPoisonGivenUp, NoItem
<1>5. ASSUME NEW p \in Pods, Publish(p)
      PROVE  (FailuresAreFaults /\ OnlyPoisonGivenUp)'
  <2>1. /\ \A q \in Pods : poison[q] \subseteq poison'[q]
        /\ UNCHANGED <<drain, givenUp, faults>>
    BY <1>5 DEF Publish, DrainInv, RelayTypeOK
  <2> QED BY <1>0, <2>1 DEF DrainInv, FailuresAreFaults, OnlyPoisonGivenUp
<1>6. ASSUME UNCHANGED <<drain, poison, givenUp>>, faults' = faults \/ faults' = faults + 1
      PROVE  (FailuresAreFaults /\ OnlyPoisonGivenUp)'
  BY <1>0, <1>6 DEF DrainInv, FailuresAreFaults, OnlyPoisonGivenUp
<1>7. ASSUME NEW p \in Pods,
             \/ Start(p) \/ PoolMade(p) \/ PoolFails(p) \/ StopListening(p)
             \/ Connect(p) \/ ConnectionDies(p) \/ Deliver(p) \/ NoticeDeath(p)
      PROVE  UNCHANGED <<drain, poison, givenUp>> /\ (faults' = faults \/ faults' = faults + 1)
  BY <1>7 DEF Start, PoolMade, PoolFails, StopListening, Connect, ConnectionDies,
              Deliver, NoticeDeath, Fault
<1>8. CASE UNCHANGED relayVars
  BY <1>6, <1>8 DEF relayVars
<1> QED
  BY <1>1, <1>2, <1>3, <1>4, <1>5, <1>6, <1>7, <1>8 DEF RelayNext, DrainStep, ListenStep

(* With fewer faults than attempts, only poisoned events are given up. *)
THEOREM TransientFailuresEatNothing == RelaySpec => []OnlyPoisonGivenUp
<1>1. DrainInv => OnlyPoisonGivenUp
  BY DEF DrainInv
<1> QED BY <1>1, DrainInit, DrainInvStep, PTL DEF RelaySpec

------------------------------------------------------------------------------
(***************************************************************************)
(* The order of a sender's events.  Behind(p, m): no event older than m is *)
(* still to be notified by p.  Every event that p's listeners hold or have *)
(* delivered is behind in this sense, and their queues hold them in order. *)
(***************************************************************************)

Behind(p, m) ==
  /\ m <= sent[p]
  /\ drain[p].n # 0 => m <= drain[p].n
  /\ \A i \in DOMAIN outbox[p] : m <= outbox[p][i]

\* The drain works on the oldest event that p still has.
SendsInOrder(p) ==
  /\ drain[p].n # 0 => Behind(p, drain[p].n)
  /\ \A i \in DOMAIN outbox[p] : outbox[p][i] <= sent[p]
  /\ \A i, j \in DOMAIN outbox[p] : i < j => outbox[p][i] <= outbox[p][j]

\* An inbound queue whose events of p come in order, after low, none of them
\* the sentinel.
Rising(queue, p, low) ==
  \A i \in DOMAIN queue : queue[i].from = p =>
    /\ queue[i].n > 0 /\ low <= queue[i].n
    /\ \A j \in DOMAIN queue : i < j /\ queue[j].from = p => queue[i].n <= queue[j].n

HearsInOrder(q, p) ==
  /\ Behind(p, last[q][p])
  /\ Rising(inbound[q], p, last[q][p])
  /\ \A i \in DOMAIN inbound[q] : inbound[q][i].from = p => Behind(p, inbound[q][i].n)

OrderInv ==
  /\ RelayTypeOK
  /\ \A p \in Pods : SendsInOrder(p)
  /\ \A q, p \in Pods : q # p => HearsInOrder(q, p)

LEMMA OrderInit == RelayInit => OrderInv
<1> SUFFICES ASSUME RelayInit PROVE OrderInv
  OBVIOUS
<1>1. \A p \in Pods : /\ sent[p] = 0 /\ drain[p].n = 0 /\ outbox[p] = <<>> /\ inbound[p] = <<>>
                      /\ \A q \in Pods : last[p][q] = 0
  BY DEF RelayInit, NoItem
<1>2. DOMAIN <<>> = {}
  OBVIOUS
<1>3. \A p \in Pods : SendsInOrder(p)
  BY <1>1, <1>2 DEF SendsInOrder
<1>4. \A q, p \in Pods : HearsInOrder(q, p)
  <2> SUFFICES ASSUME NEW q \in Pods, NEW p \in Pods PROVE HearsInOrder(q, p)
    OBVIOUS
  <2>1. sent[p] = 0 /\ drain[p].n = 0 /\ DOMAIN outbox[p] = {} /\ DOMAIN inbound[q] = {}
        /\ last[q][p] = 0
    BY <1>1, <1>2
  <2> QED BY <2>1 DEF HearsInOrder, Behind, Rising
<1> QED BY <1>3, <1>4, TypeInit DEF OrderInv

(* What the types say of the events under way. *)
LEMMA EventsAreNumbers ==
  ASSUME RelayTypeOK, NEW p \in Pods
  PROVE  /\ sent[p] \in Nat /\ drain[p].n \in Nat
         /\ outbox[p] \in Seq(Numbers) /\ Len(outbox[p]) <= QueueMax
         /\ DOMAIN outbox[p] = 1..Len(outbox[p])
         /\ \A i \in DOMAIN outbox[p] : outbox[p][i] \in Nat /\ outbox[p][i] > 0
         /\ inbound[p] \in Seq(Event) /\ Len(inbound[p]) <= QueueMax
         /\ DOMAIN inbound[p] = 1..Len(inbound[p])
         /\ \A i \in DOMAIN inbound[p] : inbound[p][i] \in Event /\ inbound[p][i].n \in Nat
         /\ \A q \in Pods : last[p][q] \in Nat
<1>1. /\ outbox[p] \in Seq(Numbers) /\ inbound[p] \in Seq(Event)
      /\ Len(outbox[p]) <= QueueMax /\ Len(inbound[p]) <= QueueMax
      /\ sent[p] \in 0..MaxSent /\ drain[p].n \in 0..MaxSent
      /\ \A q \in Pods : last[p][q] \in 0..MaxSent
  BY DEF RelayTypeOK
<1>2. \A i \in DOMAIN outbox[p] : outbox[p][i] \in Numbers
  BY <1>1
<1>3. \A i \in DOMAIN inbound[p] : inbound[p][i] \in Event
  BY <1>1
<1> QED BY <1>1, <1>2, <1>3, RelayAssumption DEF Numbers, Event, RelayAssumption

(***************************************************************************)
(* The sender's side.  In each case what was behind stays behind.          *)
(***************************************************************************)

\* A step of p's queue keeps the order and what is behind.
KeepsOrder(p) ==
  SendsInOrder(p)' /\ \A m \in Nat : Behind(p, m) => Behind(p, m)'

LEMMA PublishKeepsOrder ==
  ASSUME OrderInv, NEW p \in Pods, Publish(p)
  PROVE  KeepsOrder(p)
<1> DEFINE new == outbox'[p]
           old == outbox[p]
           d   == Evicted(old)
<1>1. /\ drain' = drain /\ sent'[p] = sent[p] + 1
      /\ new = PutDroppingOldest(old, sent[p] + 1)
  BY DEF Publish, OrderInv, RelayTypeOK
<1>2. /\ sent[p] \in Nat /\ drain[p].n \in Nat /\ old \in Seq(Numbers) /\ Len(old) <= QueueMax
      /\ DOMAIN old = 1..Len(old) /\ \A i \in DOMAIN old : old[i] \in Nat
  BY EventsAreNumbers DEF OrderInv
<1>3. sent[p] + 1 \in Numbers
  BY <1>2, RelayAssumption DEF Publish, Numbers, RelayAssumption
<1>4. /\ new \in Seq(Numbers)
      /\ Len(new) = Len(old) + 1 - d /\ d \in {0, 1}
      /\ new[Len(new)] = sent[p] + 1
      /\ \A i \in 1..(Len(new) - 1) : i + d \in 1..Len(old) /\ new[i] = old[i + d]
  <2>1. d \in {0, 1}
    BY DEF Evicted
  <2> HIDE DEF new, old
  <2>2. LET put == PutDroppingOldest(old, sent[p] + 1) IN
        /\ put \in Seq(Numbers) /\ Len(put) <= QueueMax
        /\ Len(put) = Len(old) + 1 - Evicted(old)
        /\ put[Len(put)] = sent[p] + 1
        /\ \A i \in 1..(Len(put) - 1) :
             /\ i + Evicted(old) \in 1..Len(old)
             /\ put[i] = old[i + Evicted(old)]
    <3>1. old \in Seq(Numbers) /\ Len(old) <= QueueMax
      BY <1>2
    <3> DEFINE item == sent[p] + 1
    <3>2. item \in Numbers
      BY <1>3
    <3> HIDE DEF item
    <3>3. LET put == PutDroppingOldest(old, item) IN
        /\ put \in Seq(Numbers) /\ Len(put) <= QueueMax
        /\ Len(put) = Len(old) + 1 - Evicted(old)
        /\ put[Len(put)] = item
        /\ \A i \in 1..(Len(put) - 1) :
             /\ i + Evicted(old) \in 1..Len(old)
             /\ put[i] = old[i + Evicted(old)]
      BY <3>1, <3>2, PutNumber
    <3> QED BY <3>3 DEF item
  <2> QED BY <1>1, <2>1, <2>2
<1>5. new[Len(new)] = sent[p] + 1
  BY <1>4
<1>6. DOMAIN new = 1..Len(new) /\ Len(new) \in Nat /\ Len(old) \in Nat
  BY <1>2, <1>4
<1>7. SendsInOrder(p)
  BY DEF OrderInv
<1> HIDE DEF new, old, d
<1>8. \A i \in DOMAIN new :
        \/ i = Len(new) /\ new[i] = sent[p] + 1
        \/ i < Len(new) /\ i + d \in DOMAIN old /\ new[i] = old[i + d]
  <2> SUFFICES ASSUME NEW i \in DOMAIN new
               PROVE  \/ i = Len(new) /\ new[i] = sent[p] + 1
                      \/ i < Len(new) /\ i + d \in DOMAIN old /\ new[i] = old[i + d]
    OBVIOUS
  <2>1. CASE i = Len(new)
    BY <1>5, <2>1
  <2>2. CASE i # Len(new)
    <3>1. i \in 1..(Len(new) - 1)
      BY <1>6, <2>2
    <3> QED BY <1>2, <1>4, <3>1
  <2> QED BY <2>1, <2>2
<1>9. \A m \in Nat : Behind(p, m) => Behind(p, m)'
  <2> SUFFICES ASSUME NEW m \in Nat, Behind(p, m) PROVE Behind(p, m)'
    OBVIOUS
  <2>1. m <= sent[p] /\ \A i \in DOMAIN old : m <= old[i]
    BY DEF Behind, old
  <2>2. \A i \in DOMAIN new : m <= new[i]
    BY <1>2, <1>8, <2>1
  <2>3. m <= sent'[p]
    BY <1>1, <1>2, <2>1
  <2> QED BY <1>1, <2>2, <2>3 DEF Behind, new
<1>10. \A i \in DOMAIN new : new[i] <= sent[p] + 1
  BY <1>2, <1>7, <1>8 DEF SendsInOrder, old
<1>11. \A i, j \in DOMAIN new : i < j => new[i] <= new[j]
  <2> SUFFICES ASSUME NEW i \in DOMAIN new, NEW j \in DOMAIN new, i < j
               PROVE  new[i] <= new[j]
    OBVIOUS
  <2>1. CASE j = Len(new)
    BY <1>5, <1>10, <2>1
  <2>2. CASE j # Len(new)
    <3>1. /\ i + d \in DOMAIN old /\ new[i] = old[i + d]
          /\ j + d \in DOMAIN old /\ new[j] = old[j + d] /\ i + d < j + d
      BY <1>4, <1>6, <1>8, <2>2
    <3> QED BY <1>7, <3>1 DEF SendsInOrder, old
  <2> QED BY <2>1, <2>2
<1> QED BY <1>1, <1>2, <1>7, <1>9, <1>10, <1>11 DEF KeepsOrder, SendsInOrder, new

LEMMA TakeItemKeepsOrder ==
  ASSUME OrderInv, NEW p \in Pods, TakeItem(p)
  PROVE  KeepsOrder(p)
<1> DEFINE new == outbox'[p]
           old == outbox[p]
<1>1. /\ sent' = sent /\ drain'[p].n = Head(old) /\ new = Tail(old) /\ old # <<>>
  BY DEF TakeItem, OrderInv, RelayTypeOK
<1>2. /\ sent[p] \in Nat /\ old \in Seq(Numbers)
      /\ \A i \in DOMAIN old : old[i] \in Nat /\ old[i] > 0
  BY EventsAreNumbers DEF OrderInv
<1>3. /\ drain'[p].n = old[1] /\ 1 \in DOMAIN old
      /\ DOMAIN new = 1..(Len(old) - 1)
      /\ \A i \in DOMAIN new : i + 1 \in DOMAIN old /\ new[i] = old[i + 1]
  BY <1>1, <1>2, TailResult
<1>4. SendsInOrder(p)
  BY DEF OrderInv
<1> HIDE DEF new, old
<1>5. \A i \in DOMAIN new : old[1] <= new[i] /\ new[i] <= sent[p]
  BY <1>3, <1>4 DEF SendsInOrder, old
<1>6. \A i, j \in DOMAIN new : i < j => new[i] <= new[j]
  BY <1>3, <1>4 DEF SendsInOrder, old
<1>7. \A m \in Nat : Behind(p, m) => Behind(p, m)'
  BY <1>1, <1>3 DEF Behind, new, old
<1>8. Behind(p, drain[p].n)'
  BY <1>1, <1>2, <1>3, <1>4, <1>5 DEF Behind, SendsInOrder, new, old
<1> QED BY <1>1, <1>5, <1>6, <1>7, <1>8 DEF KeepsOrder, SendsInOrder, new

\* The drain drops or has notified its item, or keeps it.
LEMMA DroppedKeepsOrder ==
  ASSUME OrderInv, NEW p \in Pods, sent'[p] = sent[p],
         drain'[p].n \in {0, drain[p].n}, outbox'[p] \in {outbox[p], <<>>}
  PROVE  KeepsOrder(p)
<1>1. SendsInOrder(p)
  BY DEF OrderInv
<1>2. DOMAIN <<>> = {}
  OBVIOUS
<1>3. CASE outbox'[p] = outbox[p]
  <2>1. \A m \in Nat : Behind(p, m) => Behind(p, m)'
    BY <1>3 DEF Behind
  <2>2. drain'[p].n # 0 => Behind(p, drain[p].n)'
    BY <1>1, <1>3 DEF SendsInOrder, Behind
  <2> QED BY <1>1, <1>3, <2>1, <2>2 DEF KeepsOrder, SendsInOrder
<1>4. CASE outbox'[p] = <<>>
  <2>1. \A m \in Nat : Behind(p, m) => Behind(p, m)'
    BY <1>2, <1>4 DEF Behind
  <2>2. drain'[p].n # 0 => Behind(p, drain[p].n)'
    BY <1>1, <1>2, <1>4 DEF SendsInOrder, Behind
  <2> QED BY <1>1, <1>2, <1>4, <2>1, <2>2 DEF KeepsOrder, SendsInOrder
<1> QED BY <1>3, <1>4

LEMMA FailedItemDrops ==
  ASSUME RelayTypeOK, NEW p \in Pods, FailedItem(p)
  PROVE  /\ \A r \in Pods : drain'[r].n \in {0, drain[r].n}
         /\ outbox' = outbox
<1>1. CASE drain[p].failed + 1 < Attempts
  <2>1. drain' = [drain EXCEPT ![p] = [drain[p] EXCEPT !.failed = @ + 1]] /\ outbox' = outbox
    BY <1>1 DEF FailedItem
  <2>2. \A r \in Pods : drain[r] \in [n : 0..MaxSent, failed : 0..(Attempts - 1)]
    BY DEF RelayTypeOK
  <2>3. drain'[p].n = drain[p].n /\ \A r \in Pods \ {p} : drain'[r] = drain[r]
    BY <2>1, <2>2 DEF RelayTypeOK
  <2> QED BY <2>1, <2>3
<1>2. CASE ~(drain[p].failed + 1 < Attempts)
  <2>1. drain' = [drain EXCEPT ![p] = NoItem] /\ outbox' = outbox
    BY <1>2 DEF FailedItem
  <2>2. drain'[p] = NoItem /\ \A r \in Pods \ {p} : drain'[r] = drain[r]
    BY <2>1 DEF RelayTypeOK
  <2> QED BY <2>1, <2>2 DEF NoItem
<1> QED BY <1>1, <1>2

(* Whatever happens, every sender keeps its order. *)
LEMMA EverySenderKeepsOrder ==
  ASSUME OrderInv, [RelayNext]_relayVars, NEW r \in Pods
  PROVE  KeepsOrder(r)
<1>0. RelayTypeOK
  BY DEF OrderInv
<1>1. ASSUME UNCHANGED <<sent, drain, outbox>> PROVE KeepsOrder(r)
  BY <1>1, DroppedKeepsOrder
<1>2. ASSUME NEW p \in Pods, Publish(p) PROVE KeepsOrder(r)
  <2>1. CASE r = p
    BY <1>2, <2>1, PublishKeepsOrder
  <2>2. CASE r # p
    <3>1. sent'[r] = sent[r] /\ drain'[r] = drain[r] /\ outbox'[r] = outbox[r]
      BY <1>0, <1>2, <2>2 DEF Publish, RelayTypeOK
    <3> QED BY <3>1, DroppedKeepsOrder
  <2> QED BY <2>1, <2>2
<1>3. ASSUME NEW p \in Pods, TakeItem(p) PROVE KeepsOrder(r)
  <2>1. CASE r = p
    BY <1>3, <2>1, TakeItemKeepsOrder
  <2>2. CASE r # p
    <3>1. sent'[r] = sent[r] /\ drain'[r] = drain[r] /\ outbox'[r] = outbox[r]
      BY <1>0, <1>3, <2>2 DEF TakeItem, RelayTypeOK
    <3> QED BY <3>1, DroppedKeepsOrder
  <2> QED BY <2>1, <2>2
<1>4. ASSUME NEW p \in Pods, StopDrain(p) \/ Crash(p) PROVE KeepsOrder(r)
  <2>1. /\ sent'[r] = sent[r] /\ drain'[r].n \in {0, drain[r].n}
        /\ outbox'[r] \in {outbox[r], <<>>}
    BY <1>0, <1>4 DEF StopDrain, Crash, RelayTypeOK, NoItem
  <2> QED BY <2>1, DroppedKeepsOrder
<1>5. ASSUME NEW p \in Pods, Notify(p) PROVE KeepsOrder(r)
  <2>1. sent'[r] = sent[r] /\ drain'[r].n \in {0, drain[r].n} /\ outbox'[r] = outbox[r]
    BY <1>0, <1>5 DEF Notify, RelayTypeOK, NoItem
  <2> QED BY <2>1, DroppedKeepsOrder
<1>6. ASSUME NEW p \in Pods, NotifyRefused(p) \/ NotifyFails(p) PROVE KeepsOrder(r)
  <2>1. FailedItem(p) /\ sent' = sent
    BY <1>6 DEF NotifyRefused, NotifyFails
  <2> QED BY <1>0, <2>1, FailedItemDrops, DroppedKeepsOrder
<1>7. ASSUME NEW p \in Pods,
             \/ Start(p) \/ PoolMade(p) \/ PoolFails(p) \/ StopListening(p)
             \/ Connect(p) \/ ConnectionDies(p) \/ Deliver(p) \/ NoticeDeath(p)
      PROVE  UNCHANGED <<sent, drain, outbox>>
  BY <1>7 DEF Start, PoolMade, PoolFails, StopListening, Connect, ConnectionDies,
              Deliver, NoticeDeath
<1>8. CASE UNCHANGED relayVars
  BY <1>1, <1>8 DEF relayVars
<1> QED
  BY <1>1, <1>2, <1>3, <1>4, <1>5, <1>6, <1>7, <1>8 DEF RelayNext, DrainStep, ListenStep

(***************************************************************************)
(* The listener's side.                                                    *)
(***************************************************************************)

(* A new item behind those that do not come after it. *)
LEMMA PutRises ==
  ASSUME NEW queue \in Seq(Event), Len(queue) <= QueueMax, NEW item \in Event,
         NEW p \in Pods, NEW low \in Nat, Rising(queue, p, low),
         item.from = p =>
           /\ item.n > 0 /\ low <= item.n
           /\ \A i \in DOMAIN queue : queue[i].from = p => queue[i].n <= item.n
  PROVE  LET new == PutDroppingOldest(queue, item) IN
         /\ Rising(new, p, low)
         /\ \A i \in DOMAIN new : new[i] = item \/ \E k \in DOMAIN queue : new[i] = queue[k]
<1> DEFINE new == PutDroppingOldest(queue, item)
           d   == Evicted(queue)
<1>0. LET put == PutDroppingOldest(queue, item) IN
        /\ put \in Seq(Event) /\ Len(put) <= QueueMax
        /\ Len(put) = Len(queue) + 1 - Evicted(queue)
        /\ put[Len(put)] = item
        /\ \A i \in 1..(Len(put) - 1) :
             /\ i + Evicted(queue) \in 1..Len(queue)
             /\ put[i] = queue[i + Evicted(queue)]
  BY PutEvent
<1>1. /\ new \in Seq(Event)
      /\ new[Len(new)] = item
      /\ \A i \in 1..(Len(new) - 1) : i + d \in 1..Len(queue) /\ new[i] = queue[i + d]
  BY <1>0
<1>2. d \in {0, 1}
  BY DEF Evicted
<1> HIDE DEF new, d
<1>3. /\ DOMAIN new = 1..Len(new) /\ Len(new) \in Nat /\ DOMAIN queue = 1..Len(queue)
  BY <1>1
<1>4. \A i \in DOMAIN new :
        \/ i = Len(new) /\ new[i] = item
        \/ i < Len(new) /\ i + d \in DOMAIN queue /\ new[i] = queue[i + d]
  <2> SUFFICES ASSUME NEW i \in DOMAIN new
               PROVE  \/ i = Len(new) /\ new[i] = item
                      \/ i < Len(new) /\ i + d \in DOMAIN queue /\ new[i] = queue[i + d]
    OBVIOUS
  <2>1. CASE i = Len(new)
    BY <1>1, <2>1
  <2>2. CASE i # Len(new)
    <3>1. i \in 1..(Len(new) - 1)
      BY <1>3, <2>2
    <3> QED BY <1>1, <1>3, <3>1
  <2> QED BY <2>1, <2>2
<1>5. ASSUME NEW i \in DOMAIN new, new[i].from = p
      PROVE  new[i].n > 0 /\ low <= new[i].n
  BY <1>4, <1>5 DEF Rising
<1>6. ASSUME NEW i \in DOMAIN new, NEW j \in DOMAIN new, i < j, new[i].from = p, new[j].from = p
      PROVE  new[i].n <= new[j].n
  <2>1. i < Len(new) /\ i + d \in DOMAIN queue /\ new[i] = queue[i + d]
    BY <1>3, <1>4, <1>6
  <2>2. CASE j = Len(new)
    BY <1>1, <1>6, <2>1, <2>2
  <2>3. CASE j # Len(new)
    <3>1. j + d \in DOMAIN queue /\ new[j] = queue[j + d]
      BY <1>4, <2>3
    <3>2. i + d < j + d
      BY <1>2, <1>3, <1>6
    <3> QED BY <1>6, <2>1, <3>1, <3>2 DEF Rising
  <2> QED BY <2>2, <2>3
<1>7. Rising(new, p, low)
  BY <1>5, <1>6 DEF Rising
<1>8. \A i \in DOMAIN new : new[i] = item \/ \E k \in DOMAIN queue : new[i] = queue[k]
  BY <1>4
<1> QED BY <1>7, <1>8 DEF new

(* What is left once the head is taken, above the head if it was p's. *)
LEMMA TailRises ==
  ASSUME NEW queue \in Seq(Event), queue # <<>>, NEW p \in Pods, NEW low \in Nat,
         Rising(queue, p, low)
  PROVE  /\ Rising(Tail(queue), p, low)
         /\ Head(queue).from = p => /\ Head(queue).n > 0 /\ low <= Head(queue).n
                                    /\ Rising(Tail(queue), p, Head(queue).n)
         /\ \E k \in DOMAIN queue : Head(queue) = queue[k]
         /\ \A i \in DOMAIN Tail(queue) : \E k \in DOMAIN queue : Tail(queue)[i] = queue[k]
<1> DEFINE tail == Tail(queue)
<1>1. /\ Head(queue) = queue[1] /\ 1 \in DOMAIN queue
      /\ DOMAIN tail = 1..(Len(queue) - 1)
      /\ \A i \in DOMAIN tail : i + 1 \in DOMAIN queue /\ tail[i] = queue[i + 1]
  BY TailResult
<1>2. Len(queue) \in Nat
  OBVIOUS
<1> HIDE DEF tail
<1>3. \A i, j \in DOMAIN tail : i < j => i + 1 < j + 1
  BY <1>1, <1>2
<1>4. \A i \in DOMAIN tail : 1 < i + 1
  BY <1>1, <1>2
<1>5. Rising(tail, p, low)
  BY <1>1, <1>3 DEF Rising
<1>6. Head(queue).from = p => Head(queue).n > 0 /\ low <= Head(queue).n
  BY <1>1 DEF Rising
<1>7. ASSUME Head(queue).from = p PROVE Rising(tail, p, Head(queue).n)
  <2>1. \A i \in DOMAIN tail : tail[i].from = p => queue[1].n <= tail[i].n
    BY <1>1, <1>4, <1>7 DEF Rising
  <2> QED BY <1>1, <1>5, <2>1 DEF Rising
<1> QED BY <1>1, <1>5, <1>6, <1>7 DEF tail

(* The order at one listener, once its queue and what it delivered are    *)
(* known to be in order and behind.                                        *)
LEMMA StillHears ==
  ASSUME NEW q \in Pods, NEW p \in Pods, KeepsOrder(p),
         last'[q][p] \in Nat, Behind(p, last'[q][p]),
         Rising(inbound'[q], p, last'[q][p]),
         \A i \in DOMAIN inbound'[q] : inbound'[q][i].from = p =>
           inbound'[q][i].n \in Nat /\ Behind(p, inbound'[q][i].n)
  PROVE  HearsInOrder(q, p)'
<1>1. Behind(p, last[q][p])'
  BY DEF KeepsOrder, Behind
<1>2. \A i \in DOMAIN inbound'[q] : inbound'[q][i].from = p => Behind(p, inbound[q][i].n)'
  BY DEF KeepsOrder, Behind
<1> QED BY <1>1, <1>2 DEF HearsInOrder, Rising

(* A queue that stays, or is emptied. *)
LEMMA QueueKept ==
  ASSUME OrderInv, NEW q \in Pods, NEW p \in Pods, q # p, KeepsOrder(p),
         last' = last, inbound'[q] = inbound[q] \/ inbound'[q] = <<>>
  PROVE  HearsInOrder(q, p)'
<1>1. HearsInOrder(q, p) /\ last[q][p] \in Nat
      /\ \A i \in DOMAIN inbound[q] : inbound[q][i].n \in Nat
  BY EventsAreNumbers DEF OrderInv
<1>2. DOMAIN <<>> = {}
  OBVIOUS
<1>3. /\ Rising(inbound'[q], p, last[q][p])
      /\ \A i \in DOMAIN inbound'[q] : inbound'[q][i].from = p =>
           inbound'[q][i].n \in Nat /\ Behind(p, inbound'[q][i].n)
  <2>1. CASE inbound'[q] = inbound[q]
    BY <1>1, <2>1 DEF HearsInOrder
  <2>2. CASE inbound'[q] = <<>>
    BY <1>2, <2>2 DEF Rising
  <2> QED BY <2>1, <2>2
<1> QED BY <1>1, <1>3, StillHears DEF HearsInOrder

(* A queue that takes what another pod, the drain of p or p's end puts in. *)
LEMMA QueueFed ==
  ASSUME OrderInv, NEW q \in Pods, NEW p \in Pods, q # p, KeepsOrder(p), last' = last,
         NEW item \in Event, inbound'[q] = PutDroppingOldest(inbound[q], item),
         item.from = p => item.n = drain[p].n /\ drain[p].n # 0
  PROVE  HearsInOrder(q, p)'
<1>1. /\ HearsInOrder(q, p) /\ SendsInOrder(p)
      /\ last[q][p] \in Nat /\ drain[p].n \in Nat /\ item.n \in Nat
      /\ inbound[q] \in Seq(Event) /\ Len(inbound[q]) <= QueueMax
      /\ \A i \in DOMAIN inbound[q] : inbound[q][i].n \in Nat
  <2>1. HearsInOrder(q, p) /\ SendsInOrder(p) /\ RelayTypeOK
    BY DEF OrderInv
  <2>2. item.n \in Nat
    BY RelayAssumption DEF Event, RelayAssumption
  <2> QED BY <2>1, <2>2, EventsAreNumbers
<1>2. item.from = p =>
        /\ item.n > 0 /\ last[q][p] <= item.n /\ Behind(p, item.n)
        /\ \A i \in DOMAIN inbound[q] : inbound[q][i].from = p => inbound[q][i].n <= item.n
  BY <1>1 DEF HearsInOrder, SendsInOrder, Behind
<1>3. /\ Rising(inbound'[q], p, last[q][p])
      /\ \A i \in DOMAIN inbound'[q] :
           \/ inbound'[q][i] = item
           \/ \E k \in DOMAIN inbound[q] : inbound'[q][i] = inbound[q][k]
  <2>1. Rising(inbound[q], p, last[q][p])
    BY <1>1 DEF HearsInOrder
  <2>2. LET new == PutDroppingOldest(inbound[q], item) IN
        /\ Rising(new, p, last[q][p])
        /\ \A i \in DOMAIN new :
             new[i] = item \/ \E k \in DOMAIN inbound[q] : new[i] = inbound[q][k]
    BY <1>1, <1>2, <2>1, PutRises
  <2> QED BY <2>2
<1>4. \A i \in DOMAIN inbound'[q] : inbound'[q][i].from = p =>
        inbound'[q][i].n \in Nat /\ Behind(p, inbound'[q][i].n)
  BY <1>1, <1>2, <1>3 DEF HearsInOrder
<1> QED BY <1>1, <1>3, <1>4, StillHears DEF HearsInOrder

(* A queue whose head is delivered or skipped. *)
LEMMA QueueServed ==
  ASSUME OrderInv, NEW q \in Pods, NEW p \in Pods, q # p, KeepsOrder(p), Deliver(q)
  PROVE  HearsInOrder(q, p)'
<1> DEFINE head == Head(inbound[q])
<1>1. /\ HearsInOrder(q, p) /\ last[q][p] \in Nat
      /\ inbound[q] \in Seq(Event) /\ inbound[q] # <<>>
      /\ \A i \in DOMAIN inbound[q] : inbound[q][i].n \in Nat
  BY EventsAreNumbers DEF OrderInv, Deliver
<1>2. inbound'[q] = Tail(inbound[q])
  BY DEF Deliver, OrderInv, RelayTypeOK
<1>3. last'[q][p] = IF head.from = p THEN head.n ELSE last[q][p]
  BY DEF Deliver, OrderInv, RelayTypeOK
<1>4. /\ Rising(inbound'[q], p, last[q][p])
      /\ head.from = p => Rising(inbound'[q], p, head.n)
      /\ \E k \in DOMAIN inbound[q] : head = inbound[q][k]
      /\ \A i \in DOMAIN inbound'[q] : \E k \in DOMAIN inbound[q] : inbound'[q][i] = inbound[q][k]
  BY <1>1, <1>2, TailRises DEF HearsInOrder
<1> HIDE DEF head
<1>5. \A i \in DOMAIN inbound'[q] : inbound'[q][i].from = p =>
        inbound'[q][i].n \in Nat /\ Behind(p, inbound'[q][i].n)
  BY <1>1, <1>4 DEF HearsInOrder
<1>6. head.from = p => head.n \in Nat /\ Behind(p, head.n)
  BY <1>1, <1>4 DEF HearsInOrder
<1>7. last'[q][p] \in Nat /\ Behind(p, last'[q][p]) /\ Rising(inbound'[q], p, last'[q][p])
  BY <1>1, <1>3, <1>4, <1>6 DEF HearsInOrder
<1> QED BY <1>5, <1>7, StillHears

(***************************************************************************)
(* The order along the way, in every step.                                 *)
(***************************************************************************)

LEMMA HeardInOrder ==
  ASSUME OrderInv, NEW r \in Pods, drain[r].n # 0, inbound' = Heard(r), last' = last,
         NEW q \in Pods, NEW p \in Pods, q # p, KeepsOrder(p)
  PROVE  HearsInOrder(q, p)'
<1> DEFINE item == [from |-> r, n |-> drain[r].n]
<1>1. item \in Event
  BY DEF OrderInv, RelayTypeOK, Event
<1>2. item.from = p => item.n = drain[p].n /\ drain[p].n # 0
  OBVIOUS
<1>3. inbound'[q] = PutDroppingOldest(inbound[q], item) \/ inbound'[q] = inbound[q]
  BY DEF Heard
<1> HIDE DEF item
<1> QED BY <1>1, <1>2, <1>3, QueueFed, QueueKept

LEMMA OrderStep == OrderInv /\ [RelayNext]_relayVars => OrderInv'
<1> SUFFICES ASSUME OrderInv, [RelayNext]_relayVars PROVE OrderInv'
  OBVIOUS
<1>0. RelayTypeOK /\ RelayTypeOK'
  BY TypeStep DEF OrderInv
<1>1. \A p \in Pods : KeepsOrder(p)
  BY EverySenderKeepsOrder
<1>2. ASSUME NEW q \in Pods, NEW p \in Pods, q # p
      PROVE  HearsInOrder(q, p)'
  <2>0. KeepsOrder(p)
    BY <1>1
  <2>1. ASSUME last' = last, inbound'[q] = inbound[q] \/ inbound'[q] = <<>>
        PROVE  HearsInOrder(q, p)'
    BY <1>2, <2>0, <2>1, QueueKept
  <2>2. ASSUME NEW r \in Pods,
               \/ Start(r) \/ PoolMade(r) \/ StopDrain(r) \/ Publish(r) \/ TakeItem(r)
               \/ NotifyRefused(r)
        PROVE  last' = last /\ inbound'[q] = inbound[q]
    BY <2>2 DEF Start, PoolMade, StopDrain, Publish, TakeItem, NotifyRefused
  <2>3. ASSUME NEW r \in Pods,
               PoolFails(r) \/ StopListening(r) \/ Crash(r) \/ Connect(r) \/ NoticeDeath(r)
        PROVE  last' = last /\ (inbound'[q] = inbound[q] \/ inbound'[q] = <<>>)
    BY <1>0, <2>3 DEF PoolFails, StopListening, Crash, Connect, NoticeDeath, Noticed, RelayTypeOK
  <2>4. ASSUME NEW r \in Pods, Notify(r) PROVE HearsInOrder(q, p)'
    <3>1. drain[r].n # 0 /\ inbound' = Heard(r) /\ last' = last
      BY <2>4 DEF Notify
    <3> QED BY <1>2, <2>0, <3>1, HeardInOrder
  <2>5. ASSUME NEW r \in Pods, NotifyFails(r) PROVE HearsInOrder(q, p)'
    <3>1. drain[r].n # 0 /\ (inbound' = Heard(r) \/ inbound' = inbound) /\ last' = last
      BY <2>5 DEF NotifyFails
    <3> QED BY <1>2, <2>0, <2>1, <3>1, HeardInOrder
  <2>6. ASSUME NEW r \in Pods, ConnectionDies(r) PROVE HearsInOrder(q, p)'
    <3> DEFINE item == [from |-> r, n |-> 0]
    <3>1. item \in Event /\ item.from = r
      BY RelayAssumption DEF Event, RelayAssumption
    <3>2. last' = last /\ \/ inbound' = inbound
                          \/ inbound' = [inbound EXCEPT ![r] = PutDroppingOldest(@, item)]
      BY <2>6 DEF ConnectionDies
    <3> HIDE DEF item
    <3>3. \/ inbound'[q] = inbound[q]
          \/ q = r /\ inbound'[q] = PutDroppingOldest(inbound[q], item)
      <4>1. inbound = [s \in Pods |-> inbound[s]]
        BY <1>0 DEF RelayTypeOK
      <4>2. CASE q = r
        BY <3>2, <4>1, <4>2
      <4>3. CASE q # r
        BY <3>2, <4>1, <4>3
      <4> QED BY <4>2, <4>3
    <3>4. CASE q = r /\ inbound'[q] = PutDroppingOldest(inbound[q], item)
      <4>1. item.from # p
        BY <1>2, <3>1, <3>4
      <4> QED BY <1>2, <2>0, <3>1, <3>2, <3>4, <4>1, QueueFed
    <3> QED BY <2>1, <3>2, <3>3, <3>4
  <2>7. ASSUME NEW r \in Pods, Deliver(r) PROVE HearsInOrder(q, p)'
    <3>1. CASE r = q
      BY <1>2, <2>0, <2>7, <3>1, QueueServed
    <3>2. CASE r # q
      <4>1. last'[q] = last[q] /\ inbound'[q] = inbound[q]
        BY <1>0, <2>7, <3>2 DEF Deliver, RelayTypeOK
      <4>2. HearsInOrder(q, p) /\ last[q][p] \in Nat
            /\ \A i \in DOMAIN inbound[q] : inbound[q][i].n \in Nat
        BY <1>0, <1>2, EventsAreNumbers DEF OrderInv
      <4> QED BY <2>0, <4>1, <4>2, StillHears DEF HearsInOrder
    <3> QED BY <3>1, <3>2
  <2>8. CASE UNCHANGED relayVars
    BY <2>1, <2>8 DEF relayVars
  <2> QED
    BY <2>1, <2>2, <2>3, <2>4, <2>5, <2>6, <2>7, <2>8 DEF RelayNext, DrainStep, ListenStep
<1> QED BY <1>0, <1>1, <1>2 DEF OrderInv, KeepsOrder

------------------------------------------------------------------------------
(***************************************************************************)
(* The relay is a lossy broadcast.                                         *)
(***************************************************************************)

LEMMA BroadcastStep ==
  OrderInv /\ [RelayNext]_relayVars => [Channel!BroadcastNext]_<<sent, last>>
<1> SUFFICES ASSUME OrderInv, [RelayNext]_relayVars
             PROVE  [Channel!BroadcastNext]_<<sent, last>>
  OBVIOUS
<1>1. ASSUME NEW p \in Pods, Publish(p) PROVE Channel!BroadcastNext
  <2>1. Channel!Send(p)
    BY <1>1 DEF Publish, Channel!Send
  <2> QED BY <2>1 DEF Channel!BroadcastNext
<1>2. ASSUME NEW q \in Pods, Deliver(q) PROVE Channel!BroadcastNext \/ UNCHANGED <<sent, last>>
  <2> DEFINE head == Head(inbound[q])
  <2>1. /\ inbound[q] \in Seq(Event) /\ inbound[q] # <<>> /\ UNCHANGED sent
        /\ last' = IF head.from = q THEN last ELSE [last EXCEPT ![q][head.from] = head.n]
    BY <1>2 DEF Deliver, OrderInv, RelayTypeOK
  <2>2. head \in Event /\ head = inbound[q][1] /\ 1 \in DOMAIN inbound[q]
    BY <2>1, TailResult
  <2> HIDE DEF head
  <2>3. CASE head.from = q
    BY <2>1, <2>3
  <2>4. CASE head.from # q
    <3> DEFINE p == head.from
    <3>1. p \in Pods /\ p # q /\ HearsInOrder(q, p)
      BY <2>2, <2>4 DEF OrderInv, Event
    <3>2. head.n > 0 /\ last[q][p] <= head.n /\ head.n <= sent[p]
      BY <2>2, <3>1 DEF HearsInOrder, Rising, Behind
    <3>3. head.n \in Nat /\ sent[p] \in Nat /\ last[q][p] \in Nat
      BY <2>2, <3>1, EventsAreNumbers DEF OrderInv
    <3>4. head.n \in 1..sent[p] /\ head.n >= last[q][p]
      BY <3>2, <3>3
    <3>5. last' = [last EXCEPT ![q][p] = head.n] /\ UNCHANGED sent
      BY <2>1, <2>4
    <3> HIDE DEF p
    <3>6. Channel!Hear(q, p)
      BY <3>1, <3>4, <3>5 DEF Channel!Hear
    <3> QED BY <3>1, <3>6 DEF Channel!BroadcastNext
  <2> QED BY <2>3, <2>4
<1>3. ASSUME NEW p \in Pods,
             \/ Start(p) \/ PoolMade(p) \/ PoolFails(p) \/ StopDrain(p) \/ StopListening(p)
             \/ Crash(p) \/ TakeItem(p) \/ Notify(p) \/ NotifyRefused(p) \/ NotifyFails(p)
             \/ Connect(p) \/ ConnectionDies(p) \/ NoticeDeath(p)
      PROVE  UNCHANGED <<sent, last>>
  BY <1>3 DEF Start, PoolMade, PoolFails, StopDrain, StopListening, Crash, TakeItem, Notify,
              NotifyRefused, NotifyFails, Connect, ConnectionDies, NoticeDeath
<1>4. CASE UNCHANGED relayVars
  BY <1>4 DEF relayVars
<1> QED BY <1>1, <1>2, <1>3, <1>4 DEF RelayNext, DrainStep, ListenStep

(* Every behaviour of the relay is one of a lossy broadcast: whatever is   *)
(* lost, no pod hears an older event of a sender after a newer one.        *)
THEOREM RelayImplementsBroadcast == RelaySpec => LossyChannel
<1>1. RelayInit => Channel!BroadcastInit
  BY DEF RelayInit, Channel!BroadcastInit
<1> QED
  BY <1>1, OrderInit, OrderStep, BroadcastStep, PTL
  DEF RelaySpec, LossyChannel, Channel!BroadcastSpec

==============================================================================
