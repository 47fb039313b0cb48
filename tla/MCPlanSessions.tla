---------------------------- MODULE MCPlanSessions ----------------------------
(* TLC instances of PlanSessions. *)
EXTENDS PlanSessions

\* A run of the gates may conclude anything, or only that the plan may go on.
MCVerdicts == BOOLEAN \X BOOLEAN
MCPass     == {<<TRUE, FALSE>>}
==============================================================================
