---------------------------- MODULE ScanService ----------------------------
(***************************************************************************)
(* What a NODE_SCAN of the coordinator promises, seen from outside.        *)
(*                                                                         *)
(* A scan asks a fixed set of shelves whether they are alive.  While it is *)
(* running, answers are noted; when it concludes, every asked shelf has a  *)
(* verdict: heard or not.  A scan never starts while another one runs, and *)
(* it starts with nothing heard, so an answer that was noted in one scan   *)
(* says nothing in the next.  The coordinator may restart in the middle,   *)
(* which forgets the scan.                                                 *)
(*                                                                         *)
(* Coordinator.tla implements this module (its instance Svc).              *)
(***************************************************************************)

CONSTANT Shelf              \* short addresses a shelf can have

VARIABLES
  scanning,                 \* is a scan running?
  asked,                    \* the shelves the last scan asked
  heard                     \* those of them that answered it

vars == <<scanning, asked, heard>>

Init ==
  /\ scanning = FALSE
  /\ asked = {}
  /\ heard = {}

Begin ==
  /\ ~scanning
  /\ scanning' = TRUE
  /\ asked' \in (SUBSET Shelf) \ {{}}
  /\ heard' = {}

Hear ==
  /\ scanning
  /\ \E a \in asked : heard' = heard \cup {a}
  /\ UNCHANGED <<scanning, asked>>

Conclude ==
  /\ scanning
  /\ scanning' = FALSE
  /\ UNCHANGED <<asked, heard>>

Restart ==
  /\ scanning' = FALSE
  /\ asked' = {}
  /\ heard' = {}

Next == Begin \/ Hear \/ Conclude \/ Restart

(* The safety part, and the promise that a scan does not run forever.      *)
SafeSpec == Init /\ [][Next]_vars

Spec == SafeSpec /\ WF_vars(Conclude)
=============================================================================
