-------------------------- MODULE GatewayProtocol --------------------------
(***************************************************************************)
(* The line protocol between host and coordinator, as both ends read and   *)
(* write it: src/components/shelf_zigbee/shelf_zigbee.c in the firmware,   *)
(* src/gateway/protocol.py on the host.                                    *)
(*                                                                         *)
(* A line is a sequence of tokens: the words of the protocol, numerals in  *)
(* hexadecimal (with 0x) and in decimal, and stumps, the first bytes of a  *)
(* token whose rest was lost.  Words begin with a letter that is not a     *)
(* hexadecimal digit, so a numeral ends where the next word begins, and a  *)
(* stump together with what follows it is never a word or a numeral that   *)
(* the firmware accepts in its place.  An address that the host's API is   *)
(* given is modelled when it is a numeral; other text is not.              *)
(***************************************************************************)
EXTENDS Naturals, Sequences

AddressBound == 65536               \* addresses are uint16_t

Word(w)  == [kind |-> w, value |-> 0]
Hex(n)   == [kind |-> "hex", value |-> n]
Dec(n)   == [kind |-> "dec", value |-> n]
Stump(n) == [kind |-> "stump", value |-> n]     \* n bytes are there

WordKind == {"NODE_SEND:", "GROUP_SEND:", "NODE_SCAN", ":STATE:",
             "NODE_RECV:", "NODE_JOIN:", "NODE_LEAVE:"}
Token    == [kind : WordKind \cup {"hex", "dec", "stump"}, value : Nat]

(* Bytes of the tokens of a command; %04x of an address is four digits.    *)
Bytes(t) ==
  CASE t.kind = "NODE_SEND:"  -> 10
    [] t.kind = "GROUP_SEND:" -> 11
    [] t.kind = "NODE_SCAN"   -> 9
    [] t.kind = ":STATE:"     -> 7
    [] t.kind = "hex"         -> 6
    [] t.kind = "stump"       -> t.value
    [] OTHER                  -> 1

Flag(n) == IF n = 0 THEN 0 ELSE 1

-----------------------------------------------------------------------------
(* Host to coordinator.  A command is a shelf_gateway_cmd_t; an address    *)
(* that the host writes is not limited to 16 bits.                         *)

NodeSend(a, s)  == [type |-> "NODE_SEND", addr |-> a, state |-> s]
GroupSend(g, s) == [type |-> "GROUP_SEND", addr |-> g, state |-> s]
NodeScan        == [type |-> "NODE_SCAN", addr |-> 0, state |-> 0]
NoCommand       == [type |-> "NONE", addr |-> 0, state |-> 0]

HostCommand ==
  [type : {"NODE_SEND", "GROUP_SEND"}, addr : Nat, state : {0, 1}]
    \cup {NodeScan}

SendLine(word, c) ==
  <<Word(word), Hex(c.addr), Word(":STATE:"), Dec(Flag(c.state))>>

(* format_node_send, format_group_send and the text of request_node_scan,  *)
(* without the newline.                                                    *)
FormatCommand(c) ==
  CASE c.type = "NODE_SEND"  -> SendLine("NODE_SEND:", c)
    [] c.type = "GROUP_SEND" -> SendLine("GROUP_SEND:", c)
    [] c.type = "NODE_SCAN"  -> <<Word("NODE_SCAN")>>

(* sscanf returns 2: whatever follows the state is not looked at.          *)
Scans(line, word) ==
  /\ Len(line) >= 4
  /\ line[1] = Word(word)
  /\ line[2].kind = "hex"
  /\ line[3] = Word(":STATE:")
  /\ line[4].kind = "dec"

(* What %x of sscanf and the cast to uint16_t make of a numeral.  The      *)
(* conversion is to a 32-bit unsigned; a numeral that does not fit is      *)
(* undefined in C and becomes the largest value in the firmware's library. *)
Address(n) ==
  IF n \div AddressBound < AddressBound THEN n % AddressBound
                                        ELSE AddressBound - 1

Filled(type, line) ==
  [type  |-> type,
   addr  |-> Address(line[2].value),
   state |-> Flag(line[4].value)]

(* The number of conversions is not tested, for a mutation test.           *)
ParseUnchecked(line) ==
  CASE Len(line) >= 2 /\ line[1] = Word("NODE_SEND:") /\ line[2].kind = "hex" ->
         [type  |-> "NODE_SEND",
          addr  |-> Address(line[2].value),
          state |-> IF Len(line) < 4 THEN 0 ELSE Flag(line[4].value)]
    [] line = <<Word("NODE_SCAN")>> -> NodeScan
    [] OTHER -> NoCommand

(* shelf_gateway_parse_line; NoCommand stands for the result false.        *)
ParseLine(line) ==
  CASE Scans(line, "NODE_SEND:")      -> Filled("NODE_SEND", line)
    [] Scans(line, "GROUP_SEND:")     -> Filled("GROUP_SEND", line)
    [] line = <<Word("NODE_SCAN")>>   -> NodeScan
    [] OTHER                          -> NoCommand

(* What the firmware makes of a command: the same, its address cut.        *)
Received(c) == [c EXCEPT !.addr = Address(@)]

-----------------------------------------------------------------------------
(* Coordinator to host.                                                    *)

Join(a)        == [kind |-> "join", addr |-> a, state |-> 0]
Leave(a)       == [kind |-> "leave", addr |-> a, state |-> 0]
StateOf(a, s)  == [kind |-> "state", addr |-> a, state |-> s]
NoEvent        == [kind |-> "none", addr |-> 0, state |-> 0]

(* shelf_gateway_format_node_recv, _join and _leave.                       *)
FormatEvent(e) ==
  CASE e.kind = "state" -> <<Word("NODE_RECV:"), Hex(e.addr), Word(":STATE:"),
                             Dec(Flag(e.state))>>
    [] e.kind = "join"  -> <<Word("NODE_JOIN:"), Hex(e.addr)>>
    [] e.kind = "leave" -> <<Word("NODE_LEAVE:"), Hex(e.addr)>>

(* The places in a line where an expression of protocol.py matches.        *)
Addressed(line, word) ==
  {i \in 1 .. Len(line) - 1 : line[i] = Word(word) /\ line[i + 1].kind = "hex"}

Reported(line) ==
  {i \in Addressed(line, "NODE_RECV:") :
     /\ i + 3 <= Len(line)
     /\ line[i + 2] = Word(":STATE:")
     /\ line[i + 3] \in {Dec(0), Dec(1)}}

(* A search returns the first match.                                       *)
First(places) == CHOOSE i \in places : \A j \in places : i <= j

(* parse_gateway_line.                                                     *)
ParseEvent(line) ==
  LET Found(places) == line[First(places) + 1].value IN
  CASE Reported(line) # {} ->
         StateOf(Found(Reported(line)), line[First(Reported(line)) + 3].value)
    [] Reported(line) = {} /\ Addressed(line, "NODE_JOIN:") # {} ->
         Join(Found(Addressed(line, "NODE_JOIN:")))
    [] Reported(line) = {} /\ Addressed(line, "NODE_JOIN:") = {}
         /\ Addressed(line, "NODE_LEAVE:") # {} ->
         Leave(Found(Addressed(line, "NODE_LEAVE:")))
    [] OTHER -> NoEvent
=============================================================================
