----------------------- MODULE GatewayProtocolProofs -----------------------
(* What is written by one end of the cable is what the other end reads.    *)
EXTENDS GatewayProtocol, TLAPS

(* An address of at most sixteen bits is not changed.                      *)
LEMMA ShortAddress ==
  ASSUME NEW n \in Nat, n < AddressBound
  PROVE  Address(n) = n
<1>1. n \div 65536 = 0
  BY DEF AddressBound
<1>2. n % 65536 = n
  BY DEF AddressBound
<1> QED BY <1>1, <1>2 DEF Address, AddressBound

(* Nor is a command with such an address.                                  *)
LEMMA ShortCommand ==
  ASSUME NEW c \in HostCommand, c.addr < AddressBound
  PROVE  Received(c) = c
<1>1. CASE c = NodeScan
  <2>1. Address(0) = 0
    BY DEF Address, AddressBound
  <2> QED BY <1>1, <2>1 DEF Received, NodeScan
<1>2. ASSUME NEW type \in {"NODE_SEND", "GROUP_SEND"},
             c \in [type : {type}, addr : Nat, state : {0, 1}]
      PROVE  Received(c) = c
  <2>1. Address(c.addr) = c.addr
    BY <1>2, ShortAddress
  <2> QED BY <1>2, <2>1 DEF Received
<1>3. c = NodeScan \/ \E type \in {"NODE_SEND", "GROUP_SEND"} :
                       c \in [type : {type}, addr : Nat, state : {0, 1}]
  BY DEF HostCommand
<1> QED BY <1>1, <1>2, <1>3

(* A command of the host is read by the coordinator as what it is, if its  *)
(* address has at most sixteen bits; otherwise only the address changes, to*)
(* its last sixteen bits or, beyond 32 bits, to the largest one.           *)
THEOREM CommandsArrive ==
  \A c \in HostCommand :
    /\ ParseLine(FormatCommand(c)) = Received(c)
    /\ c.addr < AddressBound => ParseLine(FormatCommand(c)) = c
<1> SUFFICES ASSUME NEW c \in HostCommand PROVE ParseLine(FormatCommand(c)) = Received(c)
  BY ShortCommand
<1>1. CASE c = NodeScan
  <2>1. FormatCommand(c) = <<Word("NODE_SCAN")>>
    BY <1>1 DEF FormatCommand, NodeScan
  <2>2. ParseLine(<<Word("NODE_SCAN")>>) = NodeScan
    BY DEF ParseLine, Scans, NodeScan, Word
  <2>3. Received(NodeScan) = NodeScan
    BY ShortAddress DEF Received, NodeScan, AddressBound
  <2> QED BY <1>1, <2>1, <2>2, <2>3
<1>2. CASE c \in [type : {"NODE_SEND"}, addr : Nat, state : {0, 1}]
  <2>1. FormatCommand(c) = SendLine("NODE_SEND:", c)
    BY <1>2 DEF FormatCommand
  <2>2. Scans(SendLine("NODE_SEND:", c), "NODE_SEND:")
    BY <1>2 DEF Scans, SendLine, Word, Hex, Dec
  <2>3. Filled("NODE_SEND", SendLine("NODE_SEND:", c)) = Received(c)
    BY <1>2 DEF Filled, SendLine, Hex, Dec, Flag, Received
  <2>4. ~Scans(SendLine("NODE_SEND:", c), "GROUP_SEND:")
    BY DEF Scans, SendLine, Word
  <2>5. SendLine("NODE_SEND:", c) # <<Word("NODE_SCAN")>>
    BY DEF SendLine, Word
  <2> QED BY <2>1, <2>2, <2>3, <2>4, <2>5 DEF ParseLine
<1>3. CASE c \in [type : {"GROUP_SEND"}, addr : Nat, state : {0, 1}]
  <2>1. FormatCommand(c) = SendLine("GROUP_SEND:", c)
    BY <1>3 DEF FormatCommand
  <2>2. Scans(SendLine("GROUP_SEND:", c), "GROUP_SEND:")
    BY <1>3 DEF Scans, SendLine, Word, Hex, Dec
  <2>3. Filled("GROUP_SEND", SendLine("GROUP_SEND:", c)) = Received(c)
    BY <1>3 DEF Filled, SendLine, Hex, Dec, Flag, Received
  <2>4. ~Scans(SendLine("GROUP_SEND:", c), "NODE_SEND:")
    BY DEF Scans, SendLine, Word
  <2>5. SendLine("GROUP_SEND:", c) # <<Word("NODE_SCAN")>>
    BY DEF SendLine, Word
  <2> QED BY <2>1, <2>2, <2>3, <2>4, <2>5 DEF ParseLine
<1> QED BY <1>1, <1>2, <1>3 DEF HostCommand

-----------------------------------------------------------------------------
(* In a line that the coordinator writes, an event is found in one place.  *)
LEMMA StatePlace ==
  ASSUME NEW a \in Nat, NEW s \in {0, 1},
         NEW line, line = <<Word("NODE_RECV:"), Hex(a), Word(":STATE:"), Dec(s)>>
  PROVE  Reported(line) = {1}
<1>1. Addressed(line, "NODE_RECV:") = {1}
  BY DEF Addressed, Word, Hex, Dec
<1> QED BY <1>1 DEF Reported, Word, Hex, Dec

LEMMA AddressPlace ==
  ASSUME NEW a \in Nat, NEW word \in {"NODE_JOIN:", "NODE_LEAVE:"},
         NEW line, line = <<Word(word), Hex(a)>>
  PROVE  /\ Reported(line) = {}
         /\ \A w \in {"NODE_JOIN:", "NODE_LEAVE:"} :
              Addressed(line, w) = IF w = word THEN {1} ELSE {}
<1>1. Reported(line) = {}
  BY DEF Reported, Addressed, Word, Hex
<1>2. ASSUME NEW w \in {"NODE_JOIN:", "NODE_LEAVE:"}
      PROVE  Addressed(line, w) = IF w = word THEN {1} ELSE {}
  BY DEF Addressed, Word, Hex
<1> QED BY <1>1, <1>2

LEMMA FirstOfOne == First({1}) = 1
  BY DEF First

(* An event of the coordinator is read by the host as what it is.          *)
THEOREM EventsArrive ==
  ASSUME NEW a \in Nat, NEW s \in {0, 1}
  PROVE  /\ ParseEvent(FormatEvent(Join(a))) = Join(a)
         /\ ParseEvent(FormatEvent(Leave(a))) = Leave(a)
         /\ ParseEvent(FormatEvent(StateOf(a, s))) = StateOf(a, s)
<1>1. ParseEvent(FormatEvent(Join(a))) = Join(a)
  <2> DEFINE line == <<Word("NODE_JOIN:"), Hex(a)>>
  <2>1. FormatEvent(Join(a)) = line
    BY DEF FormatEvent, Join
  <2>2. Reported(line) = {} /\ Addressed(line, "NODE_JOIN:") = {1}
    BY AddressPlace
  <2>3. line[2].value = a
    BY DEF Hex
  <2> HIDE DEF line
  <2> QED BY <2>1, <2>2, <2>3, FirstOfOne DEF ParseEvent
<1>2. ParseEvent(FormatEvent(Leave(a))) = Leave(a)
  <2> DEFINE line == <<Word("NODE_LEAVE:"), Hex(a)>>
  <2>1. FormatEvent(Leave(a)) = line
    BY DEF FormatEvent, Leave
  <2>2. /\ Reported(line) = {}
        /\ Addressed(line, "NODE_JOIN:") = {}
        /\ Addressed(line, "NODE_LEAVE:") = {1}
    BY AddressPlace
  <2>3. line[2].value = a
    BY DEF Hex
  <2> HIDE DEF line
  <2>4. First(Addressed(line, "NODE_LEAVE:")) = 1 /\ Addressed(line, "NODE_LEAVE:") # {}
    BY <2>2, FirstOfOne
  <2>5. ParseEvent(line) = Leave(line[2].value)
    BY <2>2, <2>4, SMT DEF ParseEvent
  <2> QED BY <2>1, <2>3, <2>5
<1>3. ParseEvent(FormatEvent(StateOf(a, s))) = StateOf(a, s)
  <2> DEFINE line == <<Word("NODE_RECV:"), Hex(a), Word(":STATE:"), Dec(s)>>
  <2>1. FormatEvent(StateOf(a, s)) = line
    BY DEF FormatEvent, StateOf, Flag
  <2>2. Reported(line) = {1}
    BY StatePlace
  <2>3. line[2].value = a /\ line[4].value = s
    BY DEF Hex, Dec
  <2> HIDE DEF line
  <2>4. Reported(line) # {} /\ First(Reported(line)) = 1
    BY <2>2, FirstOfOne
  <2>5. ParseEvent(line) = StateOf(line[2].value, line[4].value)
    BY <2>4 DEF ParseEvent
  <2> QED BY <2>1, <2>3, <2>5
<1> QED BY <1>1, <1>2, <1>3
=============================================================================
