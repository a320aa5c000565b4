----------------------------- MODULE MCTenancy ------------------------------
(* Instances of Tenancy for TLC. *)
EXTENDS Tenancy, TLC

CONSTANTS r1, r2, p1, p2, a, b, owner

Symmetry == Permutations({r1, r2}) \cup Permutations({p1, p2}) \cup Permutations({a, b})
=============================================================================
