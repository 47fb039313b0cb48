---------------------------- MODULE LossyBroadcast ----------------------------
(***************************************************************************)
(* What the relay promises about the events that one pod sends to the      *)
(* others: nobody hears its own, nobody hears an event that was not sent,  *)
(* and from each sender a pod never hears an older event after a newer     *)
(* one.  Events may be lost; one event may be heard again before the next. *)
(***************************************************************************)
EXTENDS Naturals

CONSTANTS Pods

VARIABLES
  sent, \* how many events each pod has sent
  last  \* last[q][p]: the last event that q heard from p, 0 for none

BroadcastInit ==
  /\ sent = [p \in Pods |-> 0]
  /\ last = [q \in Pods |-> [p \in Pods |-> 0]]

Send(p) == sent' = [sent EXCEPT ![p] = @ + 1] /\ UNCHANGED last

Hear(q, p) ==
  /\ p # q
  /\ \E n \in 1..sent[p] :
       /\ n >= last[q][p]
       /\ last' = [last EXCEPT ![q][p] = n]
  /\ UNCHANGED sent

BroadcastNext ==
  \/ \E p \in Pods : Send(p)
  \/ \E q, p \in Pods : Hear(q, p)

BroadcastSpec == BroadcastInit /\ [][BroadcastNext]_<<sent, last>>
==============================================================================
