---------------------------- MODULE MCQuietScan ----------------------------
(* Small instances of QuietScan, and with it of ShelfSystem, for TLC.      *)
EXTENDS QuietScan

LoopAndPage == {"loop", "page"}

(* The address of the bench checklist.                                     *)
OneShelf == {9784}
=============================================================================
