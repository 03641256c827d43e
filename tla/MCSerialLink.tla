---------------------------- MODULE MCSerialLink ----------------------------
(* Small instances of SerialLink for TLC.                                  *)
EXTENDS SerialLink

LoopAndPage == {"loop", "page"}
Loop        == {"loop"}

(* A shelf switched on, an address of more than 16 bits, and a scan.       *)
TwoCommands == <<Uart!NodeSend(74744, 1), Uart!NodeScan>>
=============================================================================
