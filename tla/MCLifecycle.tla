------------------------------ MODULE MCLifecycle ------------------------------
(* A small instance of Lifecycle with its curfew scheduler. *)
EXTENDS Lifecycle

CONSTANTS g1, g2
=============================================================================
