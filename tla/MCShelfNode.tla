---------------------------- MODULE MCShelfNode ----------------------------
(* Instances of ShelfNode for TLC; its constants have simple values.       *)
EXTENDS ShelfNode, TLC
=============================================================================
