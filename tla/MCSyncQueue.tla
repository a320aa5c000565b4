---------------------------- MODULE MCSyncQueue -----------------------------
(* Instances of SyncQueue for TLC. *)
EXTENDS SyncQueue, TLC

CONSTANTS f1, f2, p1, p2

\* Two changes of one product.
TwoChanges == <<"product", "product">>

Symmetry == Permutations({f1, f2}) \cup Permutations({p1, p2})
=============================================================================
