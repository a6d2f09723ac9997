----------------------------- MODULE MCPunishment -----------------------------
(* A small instance of Punishment alone, in which nobody dies. *)
EXTENDS Punishment

CONSTANTS t1, t2
=============================================================================
