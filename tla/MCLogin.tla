------------------------------ MODULE MCLogin -------------------------------
(* Instances of Login for TLC. *)
EXTENDS Login, TLC

CONSTANTS r1, r2
=============================================================================
