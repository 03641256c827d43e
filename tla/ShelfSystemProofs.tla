------------------------- MODULE ShelfSystemProofs -------------------------
(* The whole system: its types, and that the bridge's table goes only      *)
(* through steps of NodeTable, so that what is proved there holds here.    *)
EXTENDS ShelfSystem, FiniteSetTheorems, TLAPS

TP == INSTANCE NodeTableProofs WITH Addr <- Shelf

LEMMA ShelfAddress ==
  /\ \A a \in Shelf : a \in Nat /\ a < 65536
  /\ IsFiniteSet(Shelf)
<1>1. Shelf \subseteq 0 .. P!AddressBound - 1 /\ IsFiniteSet(Shelf)
  BY ShelfSystemAssumption DEF ShelfSystemAssumption
<1>2. P!AddressBound = 65536
  BY DEF P!AddressBound
<1>3. ASSUME NEW a \in Shelf PROVE a \in Nat /\ a < 65536
  <2>1. a \in 0 .. P!AddressBound - 1
    BY <1>1
  <2>2. a \in 0 .. 65536 - 1
    BY <1>2, <2>1
  <2> QED BY <2>2
<1> QED BY <1>1, <1>3

(* What the cable carries is what its ends send.                           *)
LEMMA PageCommandsArrive ==
  ASSUME NEW c \in PageCommand
  PROVE  P!Received(c) = c /\ c # P!NoCommand
<1>1. CASE \E a \in Shelf, s \in {0, 1} : c = P!NodeSend(a, s)
  <2> PICK a \in Shelf, s \in {0, 1} : c = P!NodeSend(a, s)
    BY <1>1
  <2>1. a \in Nat /\ a < 65536
    BY ShelfAddress
  <2>2. P!Address(a) = a
    BY <2>1 DEF P!Address, P!AddressBound
  <2>3. [c EXCEPT !.addr = a] = c
    BY DEF P!NodeSend
  <2>4. P!Received(c) = [c EXCEPT !.addr = P!Address(c.addr)]
    BY DEF P!Received
  <2> QED BY <2>2, <2>3, <2>4 DEF P!NodeSend, P!NoCommand
<1>2. CASE \E s \in {0, 1} : c = P!GroupSend(1, s)
  BY <1>2 DEF P!Received, P!GroupSend, P!NoCommand, P!Address, P!AddressBound
<1> QED BY <1>1, <1>2 DEF PageCommand

LEMMA EventTypes ==
  ASSUME NEW a \in Shelf, NEW s \in {0, 1}
  PROVE  /\ P!Join(a) \in Table!Event
         /\ P!Leave(a) \in Table!Event
         /\ P!StateOf(a, s) \in Table!Event
BY DEF P!Join, P!Leave, P!StateOf, Table!Event

LEMMA ListingTypes ==
  ASSUME NEW S, S \subseteq Shelf, NEW addrs \in SetToSeqs(S), IsFiniteSet(Shelf)
  PROVE  addrs \in Seq(Shelf)
<1>1. Cardinality(S) \in Nat
  BY FS_Subset, FS_CardinalityType
<1>2. addrs \in [1 .. Cardinality(S) -> S]
  BY DEF SetToSeqs
<1> QED BY <1>1, <1>2

LEMMA JoinsTyped ==
  ASSUME NEW addrs \in Seq(Shelf)
  PROVE  Joins(addrs) \in Seq(Table!Event)
<1>1. ASSUME NEW i \in 1 .. Len(addrs) PROVE P!Join(addrs[i]) \in Table!Event
  <2>1. addrs[i] \in Shelf
    OBVIOUS
  <2> QED BY <2>1, EventTypes
<1>2. Len(addrs) \in Nat
  OBVIOUS
<1> QED BY <1>1, <1>2 DEF Joins

LEMMA LeavesTyped ==
  ASSUME NEW addrs \in Seq(Shelf)
  PROVE  Leaves(addrs) \in Seq(Table!Event)
<1>1. ASSUME NEW i \in 1 .. Len(addrs) PROVE P!Leave(addrs[i]) \in Table!Event
  <2>1. addrs[i] \in Shelf
    OBVIOUS
  <2> QED BY <2>1, EventTypes
<1>2. Len(addrs) \in Nat
  OBVIOUS
<1> QED BY <1>1, <1>2 DEF Leaves

LEMMA EmitTyped ==
  ASSUME NEW events \in Seq(Table!Event), NEW scan \in BOOLEAN,
         toHost \in Seq(EventLine), Emit(events, scan)
  PROVE  toHost' \in Seq(EventLine)
<1>1. Lines(events, scan) \in Seq(EventLine)
  <2>1. ASSUME NEW i \in 1 .. Len(events)
        PROVE  [event |-> events[i], ends |-> scan /\ i = Len(events)] \in EventLine
    <3>1. (scan /\ i = Len(events)) \in BOOLEAN
      OBVIOUS
    <3>2. events[i] \in Table!Event
      OBVIOUS
    <3> QED BY <3>1, <3>2 DEF EventLine
  <2> QED BY <2>1 DEF Lines
<1>2. CASE Heeded
  <2>1. toHost' = toHost \o Lines(events, scan)
    BY <1>2, Zenon DEF Emit
  <2> QED BY <1>1, <2>1
<1>3. CASE ~Heeded
  BY <1>3, Zenon DEF Emit
<1> QED BY <1>2, <1>3

LEMMA MessageTypes ==
  /\ \A kind \in {"on_off", "report", "answer"}, a \in Shelf, s \in {0, 1} :
       Msg(kind, a, s) \in Message
  /\ \A kind \in {"read", "annce", "match", "matched"}, a \in Shelf : Msg(kind, a, 0) \in Message
  /\ \A m \in Message : m.addr \in Shelf /\ m.state \in {0, 1}
BY DEF Msg, Message

(* No more shelves are registered than there is room for.                  *)
LEMMA RegisterTyped ==
  ASSUME NEW addrs \in Seq(Shelf), registry \subseteq Shelf,
         Cardinality(registry) <= MaxKnown, air \subseteq Message, Register(addrs)
  PROVE  /\ registry' \subseteq Shelf /\ Cardinality(registry') <= MaxKnown
         /\ air' \subseteq Message
<1>1. Len(addrs) \in Nat /\ \A i \in 1 .. Len(addrs) : addrs[i] \in Shelf
  OBVIOUS
<1>2. IsFiniteSet(Shelf) /\ MaxKnown \in Nat
  BY ShelfAddress, ShelfSystemAssumption DEF ShelfSystemAssumption
<1>3. IsFiniteSet(registry) /\ Cardinality(registry) \in Nat
  BY <1>2, FS_Subset, FS_CardinalityType
<1>4. \A m \in 0 .. Len(addrs) : NewAmong(addrs, m) \subseteq Shelf
  BY <1>1 DEF NewAmong
<1>5. PICK m \in 0 .. Len(addrs) :
        Cardinality(NewAmong(addrs, m)) <= Room /\ registry' = registry \cup NewAmong(addrs, m)
  BY DEF Register
<1> DEFINE added == NewAmong(addrs, m)
<1>6. added \subseteq Shelf /\ registry' = registry \cup added /\ Cardinality(added) <= Room
  BY <1>4, <1>5
<1> HIDE DEF added
<1>7. IsFiniteSet(added) /\ Cardinality(added) \in Nat
  BY <1>2, <1>6, FS_Subset, FS_CardinalityType
<1>8. Cardinality(registry') <= MaxKnown
  <2>1. Cardinality(registry \cup added) =
          Cardinality(registry) + Cardinality(added) - Cardinality(registry \cap added)
    BY <1>3, <1>7, FS_Union
  <2>2. Cardinality(registry \cap added) \in Nat
    BY <1>3, FS_Intersection, FS_CardinalityType
  <2> QED BY <1>2, <1>3, <1>6, <1>7, <2>1, <2>2 DEF Room
<1>9. air' \subseteq Message
  <2>1. \A a \in NewAmong(addrs, Len(addrs)) : Msg("match", a, 0) \in Message
    BY <1>1, <1>4, MessageTypes
  <2> QED BY <2>1 DEF Register
<1> QED BY <1>6, <1>8, <1>9

LEMMA FreshTypes == \A fresh \in Fresh : fresh \subseteq Shelf
<1>1. Near \subseteq Shelf
  BY ShelfSystemAssumption DEF ShelfSystemAssumption
<1> QED BY <1>1 DEF Fresh

LEMMA RescanTyped ==
  ASSUME registry \subseteq Shelf, Cardinality(registry) <= MaxKnown, air \subseteq Message,
         toHost \in Seq(EventLine), NEW scan \in BOOLEAN, Rescan(scan)
  PROVE  /\ registry' \subseteq Shelf /\ Cardinality(registry') <= MaxKnown
         /\ air' \subseteq Message /\ toHost' \in Seq(EventLine)
<1> PICK fresh \in Fresh : \E present \in SetToSeqs(fresh) :
      /\ Register(present)
      /\ \E gone \in SetToSeqs({a \in registry' : \A i \in 1 .. Len(present) :
                                                   i <= MaxKnown => a # present[i]}) :
           Emit(Joins(present) \o Leaves(gone), scan)
  BY Zenon DEF Rescan
<1> PICK present \in SetToSeqs(fresh) :
      /\ Register(present)
      /\ \E gone \in SetToSeqs({a \in registry' : \A i \in 1 .. Len(present) :
                                                   i <= MaxKnown => a # present[i]}) :
           Emit(Joins(present) \o Leaves(gone), scan)
  OBVIOUS
<1>1. present \in Seq(Shelf)
  BY FreshTypes, ListingTypes, ShelfAddress
<1>2. /\ registry' \subseteq Shelf /\ Cardinality(registry') <= MaxKnown
      /\ air' \subseteq Message
  BY <1>1, RegisterTyped
<1>3. toHost' \in Seq(EventLine)
  <2> DEFINE G == {a \in registry' : \A i \in 1 .. Len(present) :
                                       i <= MaxKnown => a # present[i]}
  <2> PICK gone \in SetToSeqs(G) : Emit(Joins(present) \o Leaves(gone), scan)
    OBVIOUS
  <2>1. G \subseteq Shelf
    BY <1>2
  <2> HIDE DEF G
  <2>2. gone \in Seq(Shelf)
    BY <2>1, ListingTypes, ShelfAddress
  <2>3. Joins(present) \in Seq(Table!Event)
    BY <1>1, JoinsTyped
  <2>4. Leaves(gone) \in Seq(Table!Event)
    BY <2>2, LeavesTyped
  <2>5. Joins(present) \o Leaves(gone) \in Seq(Table!Event)
    BY <2>3, <2>4
  <2> QED BY <2>5, EmitTyped
<1> QED BY <1>2, <1>3

-----------------------------------------------------------------------------
(* Every step of the system is a step of the table or leaves it alone.     *)
LEMMA ScanStepOfTable ==
  ASSUME NEW t \in Scanner,
         \/ Table!Begin(t) \/ Table!Ask(t) \/ Table!AskRaises(t) \/ Table!Finalize(t)
         \/ Table!Visit(t) \/ Table!MarkOffline(t) \/ Table!SweepOver(t)
         \/ Table!TableGrew(t)
  PROVE  TP!ScanStep(t)
<1> USE DEF Table!Goto, TP!Goto, Table!LockFree, TP!LockFree, Table!Raise, TP!Raise,
            Table!Known, TP!Known, Table!NoSweep, TP!NoSweep
<1>1. Table!Begin(t) => TP!Begin(t)
  BY Zenon DEF Table!Begin, TP!Begin
<1>2. Table!Ask(t) => TP!Ask(t)
  BY Zenon DEF Table!Ask, TP!Ask
<1>3. Table!AskRaises(t) => TP!AskRaises(t)
  BY Zenon DEF Table!AskRaises, TP!AskRaises
<1>4. Table!Finalize(t) => TP!Finalize(t)
  BY Zenon DEF Table!Finalize, TP!Finalize
<1>5. Table!Visit(t) => TP!Visit(t)
  BY Zenon DEF Table!Visit, TP!Visit
<1>6. Table!MarkOffline(t) => TP!MarkOffline(t)
  BY Zenon DEF Table!MarkOffline, TP!MarkOffline
<1>7. Table!SweepOver(t) => TP!SweepOver(t)
  BY Zenon DEF Table!SweepOver, TP!SweepOver
<1>8. Table!TableGrew(t) => TP!TableGrew(t)
  BY Zenon DEF Table!TableGrew, TP!TableGrew
<1> QED BY <1>1, <1>2, <1>3, <1>4, <1>5, <1>6, <1>7, <1>8 DEF TP!ScanStep

(* The part of the type invariant that is not about the table.             *)
OthersOK ==
  /\ connected \in BOOLEAN /\ reading \in BOOLEAN
  /\ page \in PageCommand \cup {P!NoCommand}
  /\ toCoordinator \in Seq(CommandLine)
  /\ toHost \in Seq(EventLine)
  /\ request \in [Scanner -> {"none", "sent", "running", "reported"}]
  /\ up \in BOOLEAN
  /\ registry \subseteq Shelf /\ Cardinality(registry) <= MaxKnown
  /\ scanning \in BOOLEAN /\ asked \subseteq Shelf /\ heard \subseteq asked
  /\ air \subseteq Message
  /\ alive \subseteq Shelf
  /\ light \in [Shelf -> {0, 1}]

LEMMA TypeParts == TypeOK <=> TP!TypeOK /\ OthersOK
BY DEF TypeOK, OthersOK, Table!TypeOK, TP!TypeOK, Table!Known, TP!Known

LEMMA PageTypes ==
  ASSUME NEW c \in PageCommand
  PROVE  /\ c.state \in {0, 1}
         /\ c.type = "NODE_SEND" => c.addr \in Shelf
         /\ c.type \in {"NODE_SEND", "GROUP_SEND"}
<1>1. CASE \E a \in Shelf, s \in {0, 1} : c = P!NodeSend(a, s)
  BY <1>1 DEF P!NodeSend
<1>2. CASE \E s \in {0, 1} : c = P!GroupSend(1, s)
  BY <1>2 DEF P!GroupSend
<1> QED BY <1>1, <1>2 DEF PageCommand

LEMMA BridgeStepOfTable ==
  ASSUME OthersOK, Bridge
  PROVE  [TP!Next]_(TP!vars)
<1>1. ASSUME NEW t \in Scanner, BeginScan(t) \/ ScanStep(t) \/ AskFails(t)
      PROVE  TP!Next
  <2>1. \/ Table!Begin(t) \/ Table!Ask(t) \/ Table!AskRaises(t) \/ Table!Finalize(t)
        \/ Table!Visit(t) \/ Table!MarkOffline(t) \/ Table!SweepOver(t)
        \/ Table!TableGrew(t)
    BY <1>1, Zenon DEF BeginScan, ScanStep, AskScan, AskFails, WaitOver, SweepStep
  <2> QED BY <2>1, ScanStepOfTable DEF TP!Next
<1>2. ASSUME NEW c \in PageCommand, SendCommand(c)
      PROVE  UNCHANGED TP!vars
  BY <1>2 DEF SendCommand, tableVars, TP!vars
<1>3. CASE UpdateTable
  <2>1. CASE page.type = "NODE_SEND" /\ Table!NodeStateSet(page.addr, page.state)
    <3>1. page \in PageCommand
      BY <2>1 DEF OthersOK, P!NoCommand
    <3>2. page.addr \in Shelf /\ page.state \in {0, 1}
      BY <2>1, <3>1, PageTypes
    <3>3. TP!NodeStateSet(page.addr, page.state)
      BY <2>1, Zenon DEF Table!NodeStateSet, TP!NodeStateSet, Table!StateReported,
           TP!StateReported, Table!Put, TP!Put, Table!Known, TP!Known
    <3> QED BY <3>2, <3>3 DEF TP!Next
  <2>2. CASE page.type = "GROUP_SEND" /\ Table!GroupStateSet(page.state)
    <3>1. page \in PageCommand
      BY <2>2 DEF OthersOK, P!NoCommand
    <3>2. page.state \in {0, 1}
      BY <3>1, PageTypes
    <3>3. TP!GroupStateSet(page.state)
      BY <2>2, Zenon DEF Table!GroupStateSet, TP!GroupStateSet, Table!Known, TP!Known
    <3> QED BY <3>2, <3>3 DEF TP!Next
  <2> QED BY <1>3, <2>1, <2>2 DEF UpdateTable
<1>4. CASE HandleLine
  <2> DEFINE e == Head(toHost).event
  <2>1. Table!ApplyEvent(e) /\ toHost # <<>>
    BY <1>4 DEF HandleLine
  <2>2. Head(toHost) \in EventLine
    BY <2>1 DEF OthersOK
  <2>3. e \in TP!Event
    BY <2>2 DEF EventLine, Table!Event, TP!Event
  <2>4. TP!ApplyEvent(e)
    <3> USE DEF Table!Put, TP!Put, Table!Known, TP!Known
    <3> HIDE DEF e
    <3>1. Table!Joined(e.addr) => TP!Joined(e.addr)
      BY Zenon DEF Table!Joined, TP!Joined
    <3>2. Table!Left(e.addr) => TP!Left(e.addr)
      BY Zenon DEF Table!Left, TP!Left
    <3>3. Table!StateReported(e.addr, e.state) => TP!StateReported(e.addr, e.state)
      BY Zenon DEF Table!StateReported, TP!StateReported
    <3> QED BY <2>1, <3>1, <3>2, <3>3, Zenon
            DEF Table!ApplyEvent, TP!ApplyEvent, Table!vars, TP!vars
  <2> QED BY <2>3, <2>4, Zenon DEF TP!Next
<1>5. CASE Reconnect
  BY <1>5 DEF Reconnect, tableVars, TP!vars
<1> QED BY <1>1, <1>2, <1>3, <1>4, <1>5 DEF Bridge, ReadLine, EntryReplaced

LEMMA StepOfTable ==
  ASSUME OthersOK, [Next]_vars
  PROVE  [TP!Next]_(TP!vars)
<1> USE DEF tableVars, TP!vars
<1>1. CASE Coordinator
  BY <1>1 DEF Coordinator, NetworkUp, RescanAlarm, IgnoreCommand, HandleSend, HandleScan, Conclude,
       CoordinatorReceives, OnlyCoordinator
<1>2. CASE Shelves
  BY <1>2 DEF Shelves, ShelfReceives, Press, PowerOff, PowerOn, OnlyShelf, OnlyFault
<1>3. CASE Disconnect \/ \E m \in air : Lose(m)
  BY <1>3 DEF Disconnect, Lose, OnlyFault
<1>4. CASE UNCHANGED vars
  BY <1>4 DEF vars
<1> QED BY <1>1, <1>2, <1>3, <1>4, BridgeStepOfTable DEF Next

-----------------------------------------------------------------------------
(* The types of the rest.                                                  *)
LEMMA CommandTypes ==
  /\ \A c \in PageCommand : [command |-> P!Received(c), from |-> "page"] \in CommandLine
  /\ \A t \in Scanner : [command |-> P!NodeScan, from |-> t] \in CommandLine
  /\ \A line \in CommandLine :
       /\ line.command.type = "NODE_SEND" =>
            line.command.addr \in Shelf /\ line.command.state \in {0, 1}
       /\ line.command.type = "GROUP_SEND" => line.command.state \in {0, 1}
       /\ line.command.type = "NODE_SCAN" => line.from \in Scanner
<1>1. \A c \in PageCommand : [command |-> P!Received(c), from |-> "page"] \in CommandLine
  BY PageCommandsArrive DEF CommandLine
<1>2. \A t \in Scanner : [command |-> P!NodeScan, from |-> t] \in CommandLine
  BY DEF CommandLine
<1>3. ASSUME NEW line \in [command : PageCommand, from : {"page"}]
      PROVE  /\ line.command.type = "NODE_SEND" =>
                  line.command.addr \in Shelf /\ line.command.state \in {0, 1}
             /\ line.command.type = "GROUP_SEND" => line.command.state \in {0, 1}
             /\ line.command.type # "NODE_SCAN"
  <2>1. line.command \in PageCommand
    OBVIOUS
  <2> QED BY <2>1, PageTypes
<1>4. ASSUME NEW line \in [command : {P!NodeScan}, from : Scanner]
      PROVE  line.command.type = "NODE_SCAN" /\ line.from \in Scanner
  BY DEF P!NodeScan
<1> QED BY <1>1, <1>2, <1>3, <1>4 DEF CommandLine

LEMMA BridgeTyped ==
  ASSUME OthersOK, Bridge
  PROVE  OthersOK'
<1> USE DEF OthersOK
<1>1. ASSUME NEW t \in Scanner, BeginScan(t) \/ WaitOver(t) \/ SweepStep(t) \/ AskFails(t)
      PROVE  OthersOK'
  BY <1>1 DEF BeginScan, WaitOver, SweepStep, AskFails, OnlyTable, portVars, cableVars,
       knownVars, scanVars, shelfVars
<1>2. ASSUME NEW t \in Scanner, AskScan(t)
      PROVE  OthersOK'
  <2>1. toCoordinator' \in Seq(CommandLine)
    BY <1>2, CommandTypes DEF AskScan
  <2>2. request' \in [Scanner -> {"none", "sent", "running", "reported"}]
    BY <1>2 DEF AskScan
  <2> QED BY <1>2, <2>1, <2>2 DEF AskScan, portVars, knownVars, scanVars, shelfVars
<1>3. ASSUME NEW c \in PageCommand, SendCommand(c)
      PROVE  OthersOK'
  <2>1. toCoordinator' \in Seq(CommandLine)
    BY <1>3, CommandTypes DEF SendCommand
  <2> QED BY <1>3, <2>1 DEF SendCommand, portVars, knownVars, scanVars, shelfVars
<1>4. CASE UpdateTable
  BY <1>4 DEF UpdateTable, portVars, cableVars, knownVars, scanVars, shelfVars
<1>5. CASE ReadLine \/ EntryReplaced
  <2>1. toHost' \in Seq(EventLine)
    <3>1. toHost # <<>> /\ toHost' = Tail(toHost)
      BY <1>5, Zenon DEF ReadLine, EntryReplaced, HandleLine
    <3> QED BY <3>1
  <2>2. request' \in [Scanner -> {"none", "sent", "running", "reported"}]
    BY <1>5 DEF ReadLine, EntryReplaced, HandleLine
  <2>3. page' \in PageCommand \cup {P!NoCommand}
    BY <1>5 DEF ReadLine, EntryReplaced
  <2> QED BY <1>5, <2>1, <2>2, <2>3 DEF ReadLine, EntryReplaced, HandleLine, portVars,
             knownVars, scanVars, shelfVars
<1>6. CASE Reconnect
  BY <1>6 DEF Reconnect, cableVars, knownVars, scanVars, shelfVars
<1> QED BY <1>1, <1>2, <1>3, <1>4, <1>5, <1>6 DEF Bridge, ScanStep

LEMMA SendTyped ==
  ASSUME OthersOK, HandleSend
  PROVE  OthersOK'
<1>1. Taken \in CommandLine
  BY DEF OthersOK, HandleSend, TakeCommand, Taken
<1>2. toCoordinator' \in Seq(CommandLine)
  BY DEF OthersOK, HandleSend, TakeCommand
<1>3. air' \subseteq Message
  <2>1. CASE /\ Taken.command.type = "NODE_SEND"
             /\ air' = air \cup {Msg("on_off", Taken.command.addr, Taken.command.state)}
    BY <1>1, <2>1, CommandTypes, MessageTypes DEF OthersOK
  <2>2. ASSUME Taken.command.type = "GROUP_SEND", NEW group \in SUBSET Shelf,
               air' = air \cup {Msg("on_off", a, Taken.command.state) : a \in group}
        PROVE  air' \subseteq Message
    BY <1>1, <2>2, CommandTypes, MessageTypes DEF OthersOK
  <2> QED BY <2>1, <2>2 DEF HandleSend
<1> QED BY <1>2, <1>3 DEF HandleSend, OthersOK, OnlyCoordinator, portVars, scanVars, shelfVars

LEMMA ScanTyped ==
  ASSUME OthersOK, HandleScan
  PROVE  OthersOK'
<1> USE DEF OthersOK
<1>1. toCoordinator' \in Seq(CommandLine)
  BY DEF HandleScan, TakeCommand
<1>2. request' \in [Scanner -> {"none", "sent", "running", "reported"}]
  <2>1. (IF scanning' THEN "running" ELSE IF toHost' = toHost THEN "none" ELSE "reported")
          \in {"none", "sent", "running", "reported"}
    OBVIOUS
  <2> QED BY <2>1 DEF HandleScan
<1>3. /\ toHost' \in Seq(EventLine) /\ registry' \subseteq Shelf
      /\ Cardinality(registry') <= MaxKnown /\ air' \subseteq Message
      /\ scanning' \in BOOLEAN /\ asked' \subseteq Shelf /\ heard' \subseteq asked'
  <2>1. CASE ScanAlreadyRuns
    BY <2>1 DEF ScanAlreadyRuns, scanVars
  <2>2. CASE ScanFindsNobody
    BY <2>2, RescanTyped DEF ScanFindsNobody, scanVars
  <2>3. CASE ScanPings
    <3>1. air' \subseteq Message
      BY <2>3, MessageTypes DEF ScanPings
    <3> QED BY <2>3, <3>1 DEF ScanPings, Svc!Begin
  <2> QED BY <2>1, <2>2, <2>3 DEF HandleScan
<1> QED BY <1>1, <1>2, <1>3 DEF HandleScan, OnlyCoordinator, portVars, shelfVars

LEMMA ConcludeTyped ==
  ASSUME OthersOK, Conclude
  PROVE  OthersOK'
<1> USE DEF OthersOK
<1>1. toHost' \in Seq(EventLine)
  <2> PICK addrs \in SetToSeqs(asked) : Emit(Verdicts(addrs), TRUE)
    BY DEF Conclude
  <2>1. addrs \in Seq(Shelf)
    BY ListingTypes, ShelfAddress
  <2>2. ASSUME NEW i \in 1 .. Len(addrs)
        PROVE  (IF addrs[i] \in heard THEN P!Join(addrs[i]) ELSE P!Leave(addrs[i])) \in Table!Event
    <3>1. addrs[i] \in Shelf
      BY <2>1
    <3> QED BY <3>1, EventTypes
  <2>3. Len(addrs) \in Nat
    BY <2>1
  <2>4. Verdicts(addrs) \in Seq(Table!Event)
    BY <2>2, <2>3 DEF Verdicts
  <2> QED BY <2>4, EmitTyped
<1>2. request' \in [Scanner -> {"none", "sent", "running", "reported"}]
  BY DEF Conclude
<1> QED BY <1>1, <1>2 DEF Conclude, Svc!Conclude, OnlyCoordinator, portVars, shelfVars

LEMMA RoomForOne ==
  ASSUME NEW a \in Shelf, registry \subseteq Shelf, Cardinality(registry) <= MaxKnown,
         registry' = IF Room > 0 THEN registry \cup {a} ELSE registry
  PROVE  Cardinality(registry') <= MaxKnown
<1>1. IsFiniteSet(registry) /\ Cardinality(registry) \in Nat /\ MaxKnown \in Nat
  <2>1. IsFiniteSet(Shelf) /\ MaxKnown \in Nat
    BY ShelfAddress, ShelfSystemAssumption DEF ShelfSystemAssumption
  <2>2. IsFiniteSet(registry)
    BY <2>1, FS_Subset
  <2> QED BY <2>1, <2>2, FS_CardinalityType
<1>2. CASE Room > 0
  <2>1. registry' = registry \cup {a}
    BY <1>2
  <2>2. Cardinality(registry \cup {a}) <= Cardinality(registry) + 1
    BY <1>1, FS_AddElement
  <2>3. Cardinality(registry \cup {a}) \in Nat
    BY <1>1, FS_AddElement, FS_CardinalityType
  <2> QED BY <1>1, <1>2, <2>1, <2>2, <2>3 DEF Room
<1>3. CASE ~(Room > 0)
  BY <1>3
<1> QED BY <1>2, <1>3

LEMMA ReceivesTyped ==
  ASSUME OthersOK, NEW m \in air, CoordinatorReceives(m)
  PROVE  OthersOK'
<1> USE DEF OthersOK
<1>1. m.addr \in Shelf /\ m.state \in {0, 1}
  BY MessageTypes
<1>2. /\ P!Join(m.addr) \in Table!Event
      /\ P!StateOf(m.addr, m.state) \in Table!Event
  BY <1>1, EventTypes
<1>3. <<P!Join(m.addr)>> \in Seq(Table!Event) /\ <<P!StateOf(m.addr, m.state)>> \in Seq(Table!Event)
  BY <1>2
<1>4. /\ toHost' \in Seq(EventLine) /\ registry' \subseteq Shelf /\ heard' \subseteq asked
      /\ Cardinality(registry') <= MaxKnown /\ air' \subseteq Message
  <2>1. CASE ReceiveAnnce(m)
    <3>1. toHost' \in Seq(EventLine) /\ heard' \subseteq asked
      BY <1>3, <2>1, EmitTyped DEF ReceiveAnnce
    <3>2. air' \subseteq Message
      BY <1>1, <2>1, MessageTypes DEF ReceiveAnnce
    <3>3. registry' \subseteq Shelf
      BY <1>1, <2>1 DEF ReceiveAnnce
    <3>4. Cardinality(registry') <= MaxKnown
      BY <1>1, <2>1, RoomForOne DEF ReceiveAnnce
    <3> QED BY <3>1, <3>2, <3>3, <3>4
  <2>2. CASE ReceiveAnswer(m)
    BY <1>3, <2>2, EmitTyped DEF ReceiveAnswer
  <2>3. CASE ReceiveReport(m)
    BY <1>3, <2>3, EmitTyped DEF ReceiveReport
  <2>4. CASE ReceiveMatched(m)
    BY <1>3, <2>4, EmitTyped DEF ReceiveMatched
  <2>5. CASE MissMessage(m)
    BY <2>5 DEF MissMessage
  <2> QED BY <2>1, <2>2, <2>3, <2>4, <2>5 DEF CoordinatorReceives
<1> QED BY <1>4 DEF CoordinatorReceives, OnlyCoordinator, portVars, shelfVars

LEMMA CoordinatorTyped ==
  ASSUME OthersOK, Coordinator
  PROVE  OthersOK'
<1>1. CASE RescanAlarm
  <2>1. /\ registry' \subseteq Shelf /\ Cardinality(registry') <= MaxKnown
        /\ air' \subseteq Message /\ toHost' \in Seq(EventLine)
    BY <1>1, RescanTyped DEF RescanAlarm, OthersOK
  <2> QED BY <1>1, <2>1 DEF RescanAlarm, OthersOK, OnlyCoordinator, portVars, scanVars, shelfVars
<1>2. CASE NetworkUp
  BY <1>2 DEF NetworkUp, OthersOK, portVars, cableVars, scanVars, shelfVars
<1>3. CASE IgnoreCommand
  <2>1. toCoordinator' \in Seq(CommandLine)
    BY <1>3 DEF IgnoreCommand, TakeCommand, OthersOK
  <2>2. request' \in [Scanner -> {"none", "sent", "running", "reported"}]
    BY <1>3 DEF IgnoreCommand, OthersOK
  <2> QED BY <1>3, <2>1, <2>2 DEF IgnoreCommand, OthersOK, OnlyCoordinator, portVars,
             scanVars, shelfVars
<1> QED BY <1>1, <1>2, <1>3, SendTyped, ScanTyped, ConcludeTyped, ReceivesTyped DEF Coordinator

LEMMA ShelvesTyped ==
  ASSUME OthersOK, Shelves
  PROVE  OthersOK'
<1> USE DEF OthersOK
<1>1. ASSUME NEW m \in air, ShelfReceives(m)
      PROVE  OthersOK'
  <2>1. m.addr \in Shelf /\ m.state \in {0, 1}
    BY MessageTypes
  <2>2. light' \in [Shelf -> {0, 1}] /\ air' \subseteq Message
    <3>1. CASE ReceiveOnOff(m)
      BY <2>1, <3>1 DEF ReceiveOnOff
    <3>2. CASE ReceiveRead(m)
      <4>1. light[m.addr] \in {0, 1}
        BY <2>1
      <4>2. Msg("answer", m.addr, light[m.addr]) \in Message
        BY <2>1, <4>1, MessageTypes
      <4> QED BY <3>2, <4>2 DEF ReceiveRead
    <3>3. CASE ReachNobody(m)
      BY <3>3 DEF ReachNobody
    <3>4. CASE ReceiveMatch(m)
      BY <2>1, <3>4, MessageTypes DEF ReceiveMatch
    <3> QED BY <1>1, <3>1, <3>2, <3>3, <3>4 DEF ShelfReceives
  <2> QED BY <1>1, <2>2 DEF ShelfReceives, OnlyShelf, portVars, cableVars, knownVars,
             scanVars
<1>2. ASSUME NEW a \in Shelf, Press(a)
      PROVE  OthersOK'
  <2>1. 1 - light[a] \in {0, 1}
    OBVIOUS
  <2>2. Msg("report", a, 1 - light[a]) \in Message
    BY <2>1, MessageTypes
  <2>3. air' \subseteq Message
    BY <1>2, <2>2 DEF Press
  <2>4. light' \in [Shelf -> {0, 1}]
    BY <1>2, <2>1 DEF Press
  <2> QED BY <1>2, <2>3, <2>4 DEF Press, OnlyShelf, portVars, cableVars, knownVars,
             scanVars
<1>3. ASSUME NEW a \in Shelf, PowerOff(a)
      PROVE  OthersOK'
  BY <1>3 DEF PowerOff, OnlyFault, portVars, cableVars, knownVars, scanVars
<1>4. ASSUME NEW a \in Shelf, PowerOn(a)
      PROVE  OthersOK'
  <2>1. air' \subseteq Message
    BY <1>4, MessageTypes DEF PowerOn
  <2> QED BY <1>4, <2>1 DEF PowerOn, OnlyShelf, portVars, cableVars, knownVars,
             scanVars
<1> QED BY <1>1, <1>2, <1>3, <1>4 DEF Shelves

LEMMA FaultTyped ==
  ASSUME OthersOK, Disconnect \/ \E m \in air : Lose(m)
  PROVE  OthersOK'
<1> USE DEF OthersOK
<1>1. CASE Disconnect
  <2>1. request' \in [Scanner -> {"none", "sent", "running", "reported"}]
    BY <1>1 DEF Disconnect
  <2>2. /\ registry' \subseteq Shelf /\ scanning' \in BOOLEAN
        /\ asked' \subseteq Shelf /\ heard' \subseteq asked'
        /\ Cardinality(registry') <= MaxKnown /\ air' \subseteq Message /\ up' \in BOOLEAN
    <3>1. MaxKnown \in Nat /\ Cardinality({}) = 0
      BY ShelfSystemAssumption, FS_EmptySet DEF ShelfSystemAssumption
    <3>2. CASE Svc!Restart /\ up' = FALSE /\ registry' = {} /\ air' \subseteq air
      <4>1. Cardinality(registry') <= MaxKnown
        BY <3>1, <3>2
      <4>2. scanning' \in BOOLEAN /\ asked' \subseteq Shelf /\ heard' \subseteq asked'
        BY <3>2, Zenon DEF Svc!Restart
      <4> QED BY <3>2, <4>1, <4>2
    <3>3. CASE UNCHANGED <<scanVars, knownVars, air>>
      BY <3>3 DEF scanVars, knownVars
    <3>4. \/ Svc!Restart /\ up' = FALSE /\ registry' = {} /\ air' \subseteq air
          \/ UNCHANGED <<scanVars, knownVars, air>>
      BY <1>1 DEF Disconnect
    <3> QED BY <3>2, <3>3, <3>4
  <2>3. toCoordinator' \in Seq(CommandLine) /\ toHost' \in Seq(EventLine)
    BY <1>1 DEF Disconnect
  <2> QED BY <1>1, <2>1, <2>2, <2>3 DEF Disconnect, OnlyFault, shelfVars
<1>2. CASE \E m \in air : Lose(m)
  BY <1>2 DEF Lose, OnlyFault, portVars, cableVars, knownVars, scanVars, shelfVars
<1> QED BY <1>1, <1>2

LEMMA InitTyped == Init => TP!Init /\ OthersOK
<1> SUFFICES ASSUME Init PROVE TP!Init /\ OthersOK
  OBVIOUS
<1>1. TP!Init
  BY DEF Init, Table!Init, TP!Init, Table!NoSweep, TP!NoSweep
<1>2. request \in [Scanner -> {"none", "sent", "running", "reported"}]
  BY DEF Init
<1>3. light \in [Shelf -> {0, 1}] /\ alive \subseteq Shelf
  BY DEF Init
<1>4. toCoordinator \in Seq(CommandLine) /\ toHost \in Seq(EventLine)
  BY DEF Init
<1>5. Cardinality({}) <= MaxKnown
  BY ShelfSystemAssumption, FS_EmptySet DEF ShelfSystemAssumption
<1>6. OthersOK
  BY <1>2, <1>3, <1>4, <1>5, Zenon DEF Init, OthersOK, Svc!Init
<1> QED BY <1>1, <1>6

LEMMA OthersTyped ==
  ASSUME OthersOK, [Next]_vars
  PROVE  OthersOK'
<1>1. CASE UNCHANGED vars
  BY <1>1 DEF OthersOK, vars, portVars, cableVars, knownVars, scanVars, shelfVars
<1> QED BY <1>1, BridgeTyped, CoordinatorTyped, ShelvesTyped, FaultTyped DEF Next

-----------------------------------------------------------------------------
(* The table of the bridge, amid the whole system, does nothing that       *)
(* NodeTable does not allow.                                               *)
THEOREM TableImplemented == Spec => TP!Spec
<1>1. OthersOK /\ [Next]_vars => OthersOK' /\ [TP!Next]_(TP!vars)
  BY OthersTyped, StepOfTable
<1> QED BY <1>1, InitTyped, PTL DEF Spec, TP!Spec

(* The type invariant of the system, for every set of shelves.             *)
THEOREM Typing == Spec => []TypeOK
<1>1. OthersOK /\ [Next]_vars => OthersOK'
  BY OthersTyped
<1>2. Spec => []OthersOK
  BY <1>1, InitTyped, PTL DEF Spec
<1>3. Spec => []TP!TypeOK
  BY TableImplemented, TP!Typing, PTL
<1> QED BY <1>2, <1>3, TypeParts, PTL

(* Only these steps touch the scan of the coordinator.                     *)
LEMMA ScanFrame ==
  ASSUME [Next]_vars
  PROVE  \/ UNCHANGED scanVars
         \/ HandleScan \/ Conclude \/ Disconnect
         \/ \E m \in air : CoordinatorReceives(m)
<1> USE DEF scanVars
<1>1. CASE Bridge
  BY <1>1 DEF Bridge, BeginScan, ScanStep, AskScan, AskFails, WaitOver, SweepStep,
     SendCommand, UpdateTable, ReadLine, EntryReplaced, HandleLine, Reconnect, OnlyTable
<1>2. CASE NetworkUp \/ RescanAlarm \/ IgnoreCommand \/ HandleSend
  BY <1>2 DEF NetworkUp, RescanAlarm, IgnoreCommand, HandleSend
<1>3. CASE Shelves
  BY <1>3 DEF Shelves, ShelfReceives, Press, PowerOff, PowerOn, OnlyShelf
<1>4. CASE \E m \in air : Lose(m)
  BY <1>4 DEF Lose
<1>5. CASE UNCHANGED vars
  BY <1>5 DEF vars
<1> QED BY <1>1, <1>2, <1>3, <1>4, <1>5 DEF Next, Coordinator

(* The coordinator that the system is composed with scans as ScanService   *)
(* says, which is what the module Coordinator implements: so the system    *)
(* asks no more of the firmware than was shown of it.                      *)
THEOREM ScanServiceKept == Spec => Svc!SafeSpec
<1>1. Init => Svc!Init
  BY DEF Init
<1>2. ASSUME OthersOK, [Next]_vars PROVE [Svc!Next]_(Svc!vars)
  <2> USE DEF Svc!vars, Svc!Next
  <2>1. CASE UNCHANGED scanVars
    BY <2>1 DEF scanVars
  <2>2. CASE HandleScan
    <3>1. CASE ScanAlreadyRuns
      BY <3>1 DEF ScanAlreadyRuns, scanVars
    <3>2. CASE ScanFindsNobody
      BY <3>2 DEF ScanFindsNobody, scanVars
    <3>3. CASE ScanPings
      BY <3>3 DEF ScanPings
    <3> QED BY <2>2, <3>1, <3>2, <3>3 DEF HandleScan
  <2>3. CASE Conclude
    BY <2>3 DEF Conclude
  <2>4. CASE Disconnect
    BY <2>4 DEF Disconnect, scanVars
  <2>5. ASSUME NEW m \in air, CoordinatorReceives(m)
        PROVE  [Svc!Next]_(Svc!vars)
    <3>1. UNCHANGED <<scanning, asked>>
      BY <2>5 DEF CoordinatorReceives
    <3>2. CASE ReceiveAnnce(m) \/ ReceiveReport(m) \/ ReceiveMatched(m) \/ MissMessage(m)
      BY <3>1, <3>2 DEF ReceiveAnnce, ReceiveReport, ReceiveMatched, MissMessage
    <3>3. CASE ReceiveAnswer(m)
      <4>1. CASE scanning /\ m.addr \in asked
        <5>1. heard' = heard \cup {m.addr}
          BY <3>3, <4>1 DEF ReceiveAnswer
        <5> QED BY <3>1, <4>1, <5>1 DEF Svc!Hear
      <4>2. CASE ~(scanning /\ m.addr \in asked)
        <5>1. heard' = heard
          BY <3>3, <4>2 DEF ReceiveAnswer
        <5> QED BY <3>1, <5>1
      <4> QED BY <4>1, <4>2
    <3> QED BY <2>5, <3>2, <3>3 DEF CoordinatorReceives
  <2> QED BY <1>2, <2>1, <2>2, <2>3, <2>4, <2>5, ScanFrame
<1>3. OthersOK /\ [Next]_vars => OthersOK'
  BY OthersTyped
<1> QED BY <1>1, <1>2, <1>3, InitTyped, PTL DEF Spec, Svc!SafeSpec

(* A sweep of the table never marks a shelf whose NODE_JOIN was handled    *)
(* after the last scan began, however many threads scan and whatever the   *)
(* cable, the radio and the shelves do.                                    *)
THEOREM SweepsSpareHeard == Spec => []SweepSparesHeard
<1>1. TP!SweepSparesHeard <=> SweepSparesHeard
  BY DEF SweepSparesHeard, TP!SweepSparesHeard, Table!SweepSparesHeard
<1> QED BY <1>1, TableImplemented, TP!SweepsSpareHeard, PTL
=============================================================================
