----------------------------- MODULE MCSession ------------------------------
(* Users and calls of Session for TLC. *)
EXTENDS Session, TLC

CONSTANTS a, b, r1, r2

\* Sound for the invariants: users and slots are only compared.
Interchangeable == Permutations({a, b}) \cup Permutations({r1, r2})
=============================================================================
