------------------------------ MODULE MCMigrate ------------------------------
(***************************************************************************)
(* Migrate for TLC: one process of an old release and two of a new one.    *)
(***************************************************************************)
EXTENDS Migrate

CONSTANTS p1, p2, p3

Releases == [p \in Starters |-> IF p = p1 THEN {1, 2} ELSE {1, 2, 3}]

ASSUME ReleasesExtend

=============================================================================
