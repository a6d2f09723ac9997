----------------------------- MODULE MCStandalone -----------------------------
(* A small instance of Standalone: two SDK transports. *)
EXTENDS Standalone

CONSTANTS s1, s2
=============================================================================
