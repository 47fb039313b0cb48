----------------------------- MODULE MCJobStates -----------------------------
(* TLC instances of JobStates. *)
EXTENDS JobStates, TLC

\* A status that queues, one that fails and one that is done.  PlanService saves
\* no running one while both stores answer: process() works on a private copy.
MCSaved == {"ingested", "rejected", "emitted"}

MCSymmetry == Permutations(Clients)
==============================================================================
