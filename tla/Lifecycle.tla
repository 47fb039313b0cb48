------------------------------ MODULE Lifecycle ------------------------------
(***************************************************************************)
(* The two vocabularies of a planning job, and the map between them:       *)
(* PFactory's own session status and the canonical lifecycle state that    *)
(* the other services of the factory read from the job_states table.       *)
(*                                                                         *)
(* Source: apps/web-server/server/jobstore/lifecycle.py.                   *)
(***************************************************************************)

\* The explicit map.  A Python dict is a function from its keys, so is this.
NativeToLifecycle ==
  [ ingested   |-> "queued",
    processing |-> "running",
    reviewing  |-> "running",
    processed  |-> "review",
    approved   |-> "review",
    rejected   |-> "failed",
    discarded  |-> "failed",
    emitted    |-> "done",
    failed     |-> "failed",
    stuck      |-> "stuck" ]

NativeStatuses  == DOMAIN NativeToLifecycle
LifecycleStates == {"queued", "running", "review", "done", "failed", "stuck"}

TerminalLifecycle == {"done", "failed"}

\* A status the map does not know reads as running, never as terminal.
LifecycleFor(status) ==
  IF status \in NativeStatuses THEN NativeToLifecycle[status] ELSE "running"

\* Mutant: the terminal statuses are hand-listed and one is forgotten.
HandListedTerminal == {"rejected", "emitted", "failed"}

\* Statuses that are provably terminal: derived from the map, so that a status
\* added to the map cannot be missing here.
TerminalNativeStatuses ==
  {s \in NativeStatuses : NativeToLifecycle[s] \in TerminalLifecycle}
==============================================================================
