--------------------------- MODULE MCShadowMigration ---------------------------
(* Small instances of ShadowMigration. *)
EXTENDS ShadowMigration

CONSTANTS p1, p2
=============================================================================
