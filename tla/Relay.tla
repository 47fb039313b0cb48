--------------------------------- MODULE Relay ---------------------------------
(***************************************************************************)
(* The relay that carries websocket events from the pod where they happen  *)
(* to the browsers attached to the other pods, over Postgres NOTIFY.       *)
(*                                                                         *)
(* Source: apps/web-server/server/websockets/relay.py, started and stopped *)
(* by the lifespan of apps/web-server/server/main.py, once each.           *)
(*                                                                         *)
(* Each pod has a drain task, which takes events from a bounded outbox and *)
(* notifies the channel, and a listener task with a connection of its own, *)
(* whose callbacks fill a bounded inbound queue.  A step is what runs      *)
(* between two awaits.  Postgres hands a committed notification to every   *)
(* connection that listens; what is still under way when a connection dies *)
(* is as good as not committed for it.  A statement that times out was     *)
(* committed or not by then.  A pod that restarts has a new _ORIGIN: it is *)
(* another member of Pods.  An event is its number among those its pod     *)
(* enqueued; those that cannot be encoded are dropped before and left out. *)
(***************************************************************************)
EXTENDS Naturals, Sequences

CONSTANTS
  Pods,      \* server processes
  Senders,   \* those where events happen
  QueueMax,  \* _QUEUE_MAXSIZE
  Attempts,  \* _DRAIN_MAX_ATTEMPTS
  MaxSent,   \* bound on the events of each pod
  MaxFaults  \* bound on injected faults

Numbers == 1..MaxSent

\* The sentinel of the inbound queue is event 0.
Event == [from : Pods, n : 0..MaxSent]

ASSUME RelayAssumption ==
  /\ Senders \subseteq Pods
  /\ QueueMax \in Nat \ {0} /\ Attempts \in Nat \ {0}
  /\ MaxSent \in Nat /\ MaxFaults \in Nat

NoItem == [n |-> 0, failed |-> 0]

VARIABLES
  phase,    \* the lifespan of each pod
  outbox,   \* _outbox
  drain,    \* the item that _drain_outbox works on
  conn,     \* the listener's connection
  inbound,  \* its queue
  sent,     \* how many events each pod enqueued
  poison,   \* the events that no pg_notify accepts
  last,     \* last[q][p]: the last event of p that q delivered, 0 for none
  givenUp,  \* the events that the drain dropped
  faults    \* faults injected so far
relayVars == <<phase, outbox, drain, conn, inbound, sent, poison, last, givenUp, faults>>

RelayInit ==
  /\ phase = [p \in Pods |-> "new"]
  /\ outbox = [p \in Pods |-> <<>>]
  /\ drain = [p \in Pods |-> NoItem]
  /\ conn = [p \in Pods |-> "none"]
  /\ inbound = [p \in Pods |-> <<>>]
  /\ sent = [p \in Pods |-> 0]
  /\ poison = [p \in Pods |-> {}]
  /\ last = [q \in Pods |-> [p \in Pods |-> 0]]
  /\ givenUp = [p \in Pods |-> {}]
  /\ faults = 0

Draining(p)  == phase[p] = "up"
Listening(p) == phase[p] \in {"starting", "up", "stopping"}

Fault == faults < MaxFaults /\ faults' = faults + 1

\* Mutant: a full queue takes one more.
PutAlways(queue, item) == Append(queue, item)

\* Both bounded queues evict their oldest entry for a new one.
PutDroppingOldest(queue, item) ==
  IF Len(queue) < QueueMax THEN Append(queue, item) ELSE Append(Tail(queue), item)

------------------------------------------------------------------------------
(* start_listener and stop_listener *)

\* The listener task is claimed before the pool is awaited.
Start(p) ==
  /\ phase[p] = "new"
  /\ phase' = [phase EXCEPT ![p] = "starting"]
  /\ UNCHANGED <<outbox, drain, conn, inbound, sent, poison, last, givenUp, faults>>

PoolMade(p) ==
  /\ phase[p] = "starting"
  /\ phase' = [phase EXCEPT ![p] = "up"]
  /\ UNCHANGED <<outbox, drain, conn, inbound, sent, poison, last, givenUp, faults>>

\* The listener is cancelled and the claim undone; the pod runs without relay.
PoolFails(p) ==
  /\ phase[p] = "starting" /\ Fault
  /\ phase' = [phase EXCEPT ![p] = "off"]
  /\ conn' = [conn EXCEPT ![p] = "none"]
  /\ inbound' = [inbound EXCEPT ![p] = <<>>]
  /\ UNCHANGED <<outbox, drain, sent, poison, last, givenUp>>

\* The drain first; what is left in the outbox is lost.
StopDrain(p) ==
  /\ phase[p] = "up"
  /\ phase' = [phase EXCEPT ![p] = "stopping"]
  /\ outbox' = [outbox EXCEPT ![p] = <<>>]
  /\ drain' = [drain EXCEPT ![p] = NoItem]
  /\ UNCHANGED <<conn, inbound, sent, poison, last, givenUp, faults>>

StopListening(p) ==
  /\ phase[p] = "stopping"
  /\ phase' = [phase EXCEPT ![p] = "off"]
  /\ conn' = [conn EXCEPT ![p] = "none"]
  /\ inbound' = [inbound EXCEPT ![p] = <<>>]
  /\ UNCHANGED <<outbox, drain, sent, poison, last, givenUp, faults>>

\* The process is killed.
Crash(p) ==
  /\ Listening(p) /\ Fault
  /\ phase' = [phase EXCEPT ![p] = "off"]
  /\ outbox' = [outbox EXCEPT ![p] = <<>>]
  /\ drain' = [drain EXCEPT ![p] = NoItem]
  /\ conn' = [conn EXCEPT ![p] = "none"]
  /\ inbound' = [inbound EXCEPT ![p] = <<>>]
  /\ UNCHANGED <<sent, poison, last, givenUp>>

------------------------------------------------------------------------------
(* publish and _drain_outbox *)

\* Without a drain task, publish does nothing and is not a step.
Publish(p) ==
  /\ p \in Senders /\ Draining(p) /\ sent[p] < MaxSent
  /\ sent' = [sent EXCEPT ![p] = @ + 1]
  /\ outbox' = [outbox EXCEPT ![p] = PutDroppingOldest(@, sent[p] + 1)]
  /\ \E bad \in {{}, {sent[p] + 1}} : poison' = [poison EXCEPT ![p] = @ \cup bad]
  /\ UNCHANGED <<phase, drain, conn, inbound, last, givenUp, faults>>

TakeItem(p) ==
  /\ Draining(p) /\ drain[p].n = 0 /\ outbox[p] # <<>>
  /\ drain' = [drain EXCEPT ![p] = [n |-> Head(outbox[p]), failed |-> 0]]
  /\ outbox' = [outbox EXCEPT ![p] = Tail(@)]
  /\ UNCHANGED <<phase, conn, inbound, sent, poison, last, givenUp, faults>>

\* on_notify on every connection that listens, the sender's own included.
Heard(p) ==
  [q \in Pods |->
     IF conn[q] = "listening"
     THEN PutDroppingOldest(inbound[q], [from |-> p, n |-> drain[p].n])
     ELSE inbound[q]]

Notify(p) ==
  /\ Draining(p) /\ drain[p].n \notin poison[p] \cup {0}
  /\ inbound' = Heard(p)
  /\ drain' = [drain EXCEPT ![p] = NoItem]
  /\ UNCHANGED <<phase, outbox, conn, sent, poison, last, givenUp, faults>>

\* Mutants: an item that failed goes behind the ones that wait; it is tried for
\* ever; it is dropped at its first failure.
RequeuedItem(p) ==
  /\ drain' = [drain EXCEPT ![p] = NoItem]
  /\ outbox' = [outbox EXCEPT ![p] = PutDroppingOldest(@, drain[p].n)]
  /\ UNCHANGED givenUp

StuckItem(p) ==
  /\ drain' = [drain EXCEPT ![p].failed = IF @ + 1 < Attempts THEN @ + 1 ELSE @]
  /\ UNCHANGED <<outbox, givenUp>>

ImpatientItem(p) ==
  /\ drain' = [drain EXCEPT ![p] = NoItem]
  /\ givenUp' = [givenUp EXCEPT ![p] = @ \cup {drain[p].n}]
  /\ UNCHANGED outbox

\* The head is tried again, up to Attempts times, then it is dropped.
FailedItem(p) ==
  /\ IF drain[p].failed + 1 < Attempts
     THEN /\ drain' = [drain EXCEPT ![p].failed = @ + 1]
          /\ UNCHANGED givenUp
     ELSE /\ drain' = [drain EXCEPT ![p] = NoItem]
          /\ givenUp' = [givenUp EXCEPT ![p] = @ \cup {drain[p].n}]
  /\ UNCHANGED outbox

\* acquire or execute raised: the item is poisoned, or Postgres did not answer.
NotifyRefused(p) ==
  /\ Draining(p) /\ drain[p].n \in poison[p]
  /\ FailedItem(p)
  /\ UNCHANGED <<phase, conn, inbound, sent, poison, last, faults>>

NotifyFails(p) ==
  /\ Draining(p) /\ drain[p].n \notin poison[p] \cup {0} /\ Fault
  /\ FailedItem(p)
  /\ inbound' \in {inbound, Heard(p)}
  /\ UNCHANGED <<phase, conn, sent, poison, last>>

------------------------------------------------------------------------------
(* _run_listener and _listen_on *)

Connect(p) ==
  /\ Listening(p) /\ conn[p] = "none"
  /\ conn' = [conn EXCEPT ![p] = "listening"]
  /\ inbound' = [inbound EXCEPT ![p] = <<>>]
  /\ UNCHANGED <<phase, outbox, drain, sent, poison, last, givenUp, faults>>

\* The connection dies.  asyncpg may say so at once: _on_terminate puts the
\* sentinel; or it may never call it.
ConnectionDies(p) ==
  /\ conn[p] = "listening" /\ Fault
  /\ conn' = [conn EXCEPT ![p] = "dead"]
  /\ inbound' \in {inbound, [inbound EXCEPT ![p] = PutDroppingOldest(@, [from |-> p, n |-> 0])]}
  /\ UNCHANGED <<phase, outbox, drain, sent, poison, last, givenUp>>

\* An item of another pod is delivered, one of its own is skipped.
Deliver(p) ==
  /\ conn[p] = "listening" /\ inbound[p] # <<>>
  /\ LET item == Head(inbound[p]) IN
       last' = IF item.from = p THEN last ELSE [last EXCEPT ![p][item.from] = item.n]
  /\ inbound' = [inbound EXCEPT ![p] = Tail(@)]
  /\ UNCHANGED <<phase, outbox, drain, conn, sent, poison, givenUp, faults>>

\* Mutant: the death is noticed only when something is in the queue.
NoticedByItem(p) ==
  /\ inbound[p] # <<>>
  /\ conn' = [conn EXCEPT ![p] = "none"]
  /\ inbound' = [inbound EXCEPT ![p] = <<>>]

\* The sentinel, an item found on a closed connection, or the poll of an empty
\* queue: the session ends and what is queued is lost with it.
Noticed(p) ==
  /\ conn' = [conn EXCEPT ![p] = "none"]
  /\ inbound' = [inbound EXCEPT ![p] = <<>>]

NoticeDeath(p) ==
  /\ Listening(p) /\ conn[p] = "dead"
  /\ Noticed(p)
  /\ UNCHANGED <<phase, outbox, drain, sent, poison, last, givenUp, faults>>

------------------------------------------------------------------------------
DrainStep(p)  == TakeItem(p) \/ Notify(p) \/ NotifyRefused(p)
ListenStep(p) == Connect(p) \/ Deliver(p) \/ NoticeDeath(p)

RelayNext ==
  \E p \in Pods :
    \/ Start(p) \/ PoolMade(p) \/ PoolFails(p)
    \/ StopDrain(p) \/ StopListening(p) \/ Crash(p)
    \/ Publish(p) \/ DrainStep(p) \/ NotifyFails(p)
    \/ ListenStep(p) \/ ConnectionDies(p)

\* The event loop runs both tasks, and Postgres answers an attempt sooner or
\* later: the attempts it does not answer are faults.
RelaySpec == RelayInit /\ [][RelayNext]_relayVars
FairRelaySpec ==
  RelaySpec /\ \A p \in Pods : WF_relayVars(DrainStep(p)) /\ WF_relayVars(ListenStep(p))

------------------------------------------------------------------------------
(* Properties *)

\* Every variable has its type; the queues keep their bound, which "exists to cap
\* MEMORY during an outage".
RelayTypeOK ==
  /\ phase \in [Pods -> {"new", "starting", "up", "stopping", "off"}]
  /\ outbox \in [Pods -> Seq(Numbers)]
  /\ \A p \in Pods : Len(outbox[p]) <= QueueMax /\ Len(inbound[p]) <= QueueMax
  /\ drain \in [Pods -> [n : 0..MaxSent, failed : 0..(Attempts - 1)]]
  /\ conn \in [Pods -> {"none", "listening", "dead"}]
  /\ inbound \in [Pods -> Seq(Event)]
  /\ sent \in [Pods -> 0..MaxSent]
  /\ poison \in [Pods -> SUBSET Numbers]
  /\ last \in [Pods -> [Pods -> 0..MaxSent]]
  /\ givenUp \in [Pods -> SUBSET Numbers]
  /\ faults \in 0..MaxFaults

\* A transient failure does not eat an event: with fewer failures than attempts,
\* the drain gives up nothing but what Postgres will never accept.
OnlyPoisonGivenUp ==
  faults < Attempts => \A p \in Pods : givenUp[p] \subseteq poison[p]

\* The spec of the fan-out promises order per emitter: however queues overflow,
\* attempts are repeated, connections die and pods stop, the relay is a lossy
\* broadcast that never hands over an older event after a newer one.
Channel == INSTANCE LossyBroadcast
LossyChannel == Channel!BroadcastSpec

Backlog(p) == {outbox[p][i] : i \in DOMAIN outbox[p]} \cup {drain[p].n}

\* One poisoned item does not starve those behind it: every event leaves the
\* outbox and the drain, in a notification, by eviction or given up.
BacklogMoves ==
  \A p \in Pods, n \in Numbers : n \in Backlog(p) ~> n \notin Backlog(p)

\* A pod that runs listens again after its connection died, also when nobody
\* told it so.
ListensAgain == \A p \in Pods : Listening(p) ~> conn[p] = "listening" \/ ~Listening(p)
==============================================================================
