------------------------------ MODULE MCDiscuss ------------------------------
(***************************************************************************)
(* Discuss for TLC.                                                        *)
(***************************************************************************)
EXTENDS Discuss

CONSTANTS u1, u2, d1, d2

=============================================================================
