----------------------------- MODULE MCAuditChain -----------------------------
(* TLC instances of AuditChain: processes and users are model values. *)
EXTENDS AuditChain
==============================================================================
