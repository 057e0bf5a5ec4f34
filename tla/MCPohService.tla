---------------------------- MODULE MCPohService ----------------------------
(* The PoH service with two senders. *)
EXTENDS PohService
=============================================================================
