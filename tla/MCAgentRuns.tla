----------------------------- MODULE MCAgentRuns -----------------------------
(* TLC instances of AgentRuns: replicas and their run records are small finite
   sets; time is cut by the lease TTL. *)
EXTENDS AgentRuns

\* The replica of the first start: the replicas are alike, and so are the
\* properties.
MCFirst == CHOOSE r \in Replicas : TRUE

\* Action constraint: the first start is on MCFirst, and a spec creation is
\* requested only first.
MCStarts ==
  Last' > Last =>
    /\ runs'[1].home = MCFirst
    /\ Last > 0 /\ runs'[Last'].pc = "claim" => runs'[Last'].kind = "exec"
==============================================================================
