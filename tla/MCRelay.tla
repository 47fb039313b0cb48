------------------------------- MODULE MCRelay -------------------------------
(* Model values for the pods of Relay. *)
EXTENDS Relay

CONSTANTS p1, p2
MCPods == {p1, p2}
MCSenders == {p1}
==============================================================================
