---------------------------- MODULE UartGateway ----------------------------
(***************************************************************************)
(* The UART task of the coordinator (uart_gateway_task and                 *)
(* coordinator_handle_gateway_command in                                   *)
(* src/firmware/coordinator/main/coordinator.c): it collects bytes in a    *)
(* buffer of fixed length, parses the buffer at the end of a line and      *)
(* carries out the command.  The buffer belongs to this task alone, so the *)
(* bytes between two ends of line are read in one action.                  *)
(***************************************************************************)
EXTENDS GatewayProtocol

CONSTANT LineMax      \* SHELF_UART_LINE_MAX, 128 in the code

VARIABLES
  line,               \* the tokens in the buffer; pos is their Size
  ready,              \* ezb_bdb_dev_joined()
  executed            \* the command the last step carried out

vars == <<line, ready, executed>>

Init ==
  /\ line = <<>>
  /\ ready = FALSE
  /\ executed = NoCommand

Size(tokens) ==
  LET size[n \in 0 .. Len(tokens)] ==
        IF n = 0 THEN 0 ELSE size[n - 1] + Bytes(tokens[n])
  IN  size[Len(tokens)]

(* What the buffer holds of tokens: bytes that do not fit are dropped, so  *)
(* that n tokens stay and of the next one as many bytes as there is room.  *)
Stumped(room) == IF room = 0 THEN <<>> ELSE <<Stump(room)>>

Room(tokens, n) == LineMax - 1 - Size(SubSeq(tokens, 1, n))

Cut(tokens) ==
  IF Size(tokens) < LineMax
    THEN {tokens}
    ELSE {SubSeq(tokens, 1, n) \o Stumped(Room(tokens, n)) :
            n \in {m \in 0 .. Len(tokens) - 1 :
                     /\ Room(tokens, m) \in 0 .. LineMax - 1
                     /\ Bytes(tokens[m + 1]) > Room(tokens, m)}}

(* Bytes without an end of line.                                           *)
ReadBytes(tokens) ==
  /\ line' \in Cut(line \o tokens)
  /\ executed' = NoCommand
  /\ UNCHANGED ready

(* Bytes and the end of their line.  Before the network is up a command is *)
(* ignored; an empty line is skipped, as ParseLine does.                   *)
ReadLine(tokens) ==
  /\ \E complete \in Cut(line \o tokens) :
       executed' = IF ready THEN ParseLine(complete) ELSE NoCommand
  /\ line' = <<>>
  /\ UNCHANGED ready

NetworkUp ==
  /\ ~ready
  /\ ready' = TRUE
  /\ executed' = NoCommand
  /\ UNCHANGED line

Reset ==
  /\ line' = <<>>
  /\ ready' = FALSE
  /\ executed' = NoCommand

TypeOK ==
  /\ line \in Seq(Token)
  /\ ready \in BOOLEAN
  /\ executed \in [type : {"NODE_SEND", "GROUP_SEND", "NODE_SCAN", "NONE"},
                   addr : 0 .. AddressBound - 1, state : {0, 1}]
=============================================================================
