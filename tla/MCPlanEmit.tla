------------------------------ MODULE MCPlanEmit ------------------------------
(* TLC instances of PlanEmit: the configurations give each operation, sign-off
   and fault that an instance exercises. *)
EXTENDS PlanEmit
==============================================================================
