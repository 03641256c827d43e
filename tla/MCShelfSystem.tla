--------------------------- MODULE MCShelfSystem ---------------------------
(* Small instances of ShelfSystem for TLC.                                 *)
EXTENDS ShelfSystem

LoopAndPage == {"loop", "page"}

(* The address of the bench checklist.                                     *)
OneShelf == {9784}
=============================================================================
