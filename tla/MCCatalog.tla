----------------------------- MODULE MCCatalog ------------------------------
(* Instances of Catalog for TLC. *)
EXTENDS Catalog, TLC

CONSTANTS r1, r2, a, b, c, low, high

Symmetry == Permutations({r1, r2}) \cup Permutations({a, b, c}) \cup Permutations({low, high})
=============================================================================
