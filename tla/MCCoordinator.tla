--------------------------- MODULE MCCoordinator ---------------------------
(* Small instances of Coordinator for TLC.                                 *)
EXTENDS Coordinator, TLC

CONSTANTS s1, s2

OneShelf   == {s1}
TwoShelves == {s1, s2}

(* Shelves are interchangeable: nothing in the code depends on the value   *)
(* of an address.  Used by runs without liveness properties only.          *)
Symmetry == Permutations(Shelf)
=============================================================================
