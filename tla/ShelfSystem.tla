---------------------------- MODULE ShelfSystem ----------------------------
(***************************************************************************)
(* The whole system: the web bridge's table of shelves (instance Table),   *)
(* the serial line, the coordinator, the radio and the shelves.            *)
(*                                                                         *)
(* The parts are taken at the level that their own modules establish:      *)
(*                                                                         *)
(*   - the line of the cable carries commands and events in order; both    *)
(*     ends write and read them as GatewayProtocol shows.  Writes fail and *)
(*     what is under way is lost when the cable is pulled (SerialLink);    *)
(*   - the coordinator's liveness scan is the ScanService that Coordinator *)
(*     implements (instance Svc), with the registry beside it;             *)
(*   - a shelf is its state, its button and its answers (ShelfNode).       *)
(*                                                                         *)
(* Messages in the air are a set: they overtake each other, get lost, and  *)
(* equal ones under way at the same time are one.                          *)
(***************************************************************************)
EXTENDS Naturals, Sequences, SequencesExt

CONSTANTS
  Shelf,           \* short addresses of the shelves
  Near,            \* those in the coordinator's neighbor table
  MaxKnown,        \* COORDINATOR_MAX_KNOWN_SHELVES, 32 in the code
  Scanner,         \* threads of the bridge that scan, "loop" among them
  Punctual,        \* are 2.5 s enough for a ping and its answer, and the
                   \* 1.5 s that the bridge waits longer for the verdicts?
  Rescans,         \* rescans after a start (bound: 25 in the code)
  Incidents,       \* which happen: "press" of a button, "command" and "scan"
                   \* from the page, "fault" of radio, cable, power supply
  MaxIncidents,    \* bound: their number
  MaxLines         \* bound: lines on the cable, in either direction

P == INSTANCE GatewayProtocol

ASSUME ShelfSystemAssumption ==
  /\ Shelf \subseteq 0 .. P!AddressBound - 1
  /\ IsFiniteSet(Shelf)
  /\ Near \subseteq Shelf
  /\ MaxKnown \in Nat \ {0}
  /\ Punctual \in BOOLEAN
  /\ Incidents \subseteq {"press", "command", "scan", "fault"}
  /\ Rescans \in Nat /\ MaxIncidents \in Nat /\ MaxLines \in Nat

VARIABLES
  nodes, inProgress, seen, at, sweep, heardBy,      \* the bridge's table
  connected,       \* serial_connected
  reading,         \* is the reader thread alive?
  page,            \* the command whose line was sent, not yet in the table
  toCoordinator,   \* commands on the cable, with the thread that sent them
  toHost,          \* events on the cable; ends: the last verdict of a scan
  request,         \* where each thread's NODE_SCAN is (timing only)
  up,              \* ezb_bdb_dev_joined(): is the network up?
  registry,        \* s_known_shelves
  scanning, asked, heard,                           \* the scan service
  rescans,         \* rescans left
  air,             \* messages between coordinator and shelves
  alive,           \* shelves that have power and are on the network
  light,           \* s_shelf_state of each shelf
  incidents                                         \* counter (bounded)

Table == INSTANCE NodeTable WITH Addr <- Shelf
Svc   == INSTANCE ScanService

tableVars   == <<nodes, inProgress, seen, at, sweep, heardBy>>
portVars    == <<connected, reading>>
cableVars   == <<toCoordinator, toHost, request>>
scanVars    == <<scanning, asked, heard>>
shelfVars   == <<alive, light>>
knownVars   == <<up, registry, rescans>>
vars == <<tableVars, portVars, page, cableVars, knownVars, scanVars, air, shelfVars,
          incidents>>

Msg(kind, a, s) == [kind |-> kind, addr |-> a, state |-> s]

Message ==
  [kind : {"on_off", "report", "answer"}, addr : Shelf, state : {0, 1}]
    \cup [kind : {"read", "annce", "match", "matched"}, addr : Shelf, state : {0}]

(* Lines with events; the last one may be the end of a scan.               *)
Lines(events, scan) ==
  [i \in 1 .. Len(events) |-> [event |-> events[i], ends |-> scan /\ i = Len(events)]]

(* The coordinator has just started.  Shelves may be on the network.       *)
Init ==
  /\ Table!Init
  /\ connected = FALSE
  /\ reading = TRUE
  /\ page = P!NoCommand
  /\ toCoordinator = <<>>
  /\ toHost = <<>>
  /\ request = [t \in Scanner |-> "none"]
  /\ up = FALSE
  /\ registry = {}
  /\ Svc!Init
  /\ rescans = 0
  /\ air = {}
  /\ alive \in SUBSET Shelf
  /\ light = [a \in Shelf |-> 0]
  /\ incidents = 0

Incident(kind) ==
  /\ kind \in Incidents
  /\ incidents < MaxIncidents
  /\ incidents' = incidents + 1

-----------------------------------------------------------------------------
(* The bridge.                                                             *)

OnlyTable == UNCHANGED <<portVars, page, cableVars, knownVars, scanVars, air, shelfVars>>

(* The scan loop looks at serial_connected, a request of the page does not.*)
BeginScan(t) ==
  /\ Table!Begin(t)
  /\ IF t = "loop" THEN connected /\ UNCHANGED incidents ELSE Incident("scan")
  /\ OnlyTable

AskScan(t) ==
  /\ connected
  /\ Table!Ask(t)
  /\ Len(toCoordinator) < MaxLines
  /\ toCoordinator' = Append(toCoordinator, [command |-> P!NodeScan, from |-> t])
  /\ request' = [request EXCEPT ![t] = "sent"]
  /\ UNCHANGED <<portVars, page, toHost, knownVars, scanVars, air, shelfVars, incidents>>

(* A write fails when the connection has broken.  The exception is         *)
(* swallowed, or ends the scan.                                            *)
AskFails(t) ==
  /\ ~connected
  /\ Table!Ask(t) \/ Table!AskRaises(t)
  /\ OnlyTable
  /\ UNCHANGED incidents

(* The four seconds are over.                                              *)
WaitOver(t) ==
  /\ Punctual => request[t] = "none"
  /\ Table!Finalize(t)
  /\ OnlyTable
  /\ UNCHANGED incidents

SweepStep(t) ==
  /\ Table!Visit(t) \/ Table!MarkOffline(t) \/ Table!SweepOver(t) \/ Table!TableGrew(t)
  /\ OnlyTable
  /\ UNCHANGED incidents

(* The buttons of the page, for each shelf and for the default group.      *)
PageCommand ==
  {P!NodeSend(a, s) : a \in Shelf, s \in {0, 1}} \cup {P!GroupSend(1, s) : s \in {0, 1}}

(* The handlers of commands run one at a time, in the event loop.  Without *)
(* a connection they answer an error and change nothing.                   *)
SendCommand(c) ==
  /\ connected
  /\ page = P!NoCommand
  /\ Table!LockFree
  /\ Incident("command")
  /\ Len(toCoordinator) < MaxLines
  /\ toCoordinator' = Append(toCoordinator, [command |-> P!Received(c), from |-> "page"])
  /\ page' = c
  /\ UNCHANGED <<tableVars, portVars, toHost, request, knownVars, scanVars, air, shelfVars>>

UpdateTable ==
  /\ \/ page.type = "NODE_SEND" /\ Table!NodeStateSet(page.addr, page.state)
     \/ page.type = "GROUP_SEND" /\ Table!GroupStateSet(page.state)
  /\ page' = P!NoCommand
  /\ UNCHANGED <<portVars, cableVars, knownVars, scanVars, air, shelfVars, incidents>>

(* _handle_line, in the reader thread.                                     *)
HandleLine ==
  /\ toHost # <<>>
  /\ toHost' = Tail(toHost)
  /\ Table!ApplyEvent(Head(toHost).event)
  /\ request' = [t \in Scanner |->
                   IF Head(toHost).ends /\ request[t] = "reported" THEN "none"
                                                                   ELSE request[t]]
  /\ UNCHANGED <<portVars, toCoordinator, knownVars, scanVars, air, shelfVars, incidents>>

ReadLine == HandleLine /\ UNCHANGED page

(* Both the reader and the handler of a command have found no entry for a  *)
(* shelf, and the new one of the reader replaces that of the command.      *)
EntryReplaced ==
  /\ page.type = "NODE_SEND"
  /\ page.addr \notin Table!Known
  /\ toHost # <<>> /\ Head(toHost).event = P!Join(page.addr)
  /\ HandleLine
  /\ page' = P!NoCommand

(* The port is found and opened, as PortRecovers of SerialLink says.       *)
Reconnect ==
  /\ ~connected
  /\ connected' = TRUE
  /\ UNCHANGED <<tableVars, reading, page, cableVars, knownVars, scanVars, air, shelfVars,
                 incidents>>

-----------------------------------------------------------------------------
(* The coordinator.                                                        *)

(* A line that nobody can read is lost.                                    *)
Heeded == connected /\ reading

Emit(events, scan) ==
  IF Heeded
    THEN /\ Len(toHost) + Len(events) <= MaxLines
         /\ toHost' = toHost \o Lines(events, scan)
    ELSE UNCHANGED toHost

OnlyCoordinator == UNCHANGED <<tableVars, portVars, page, up, shelfVars, incidents>>

(* The network comes up, and the rescans start.                            *)
NetworkUp ==
  /\ ~up
  /\ up' = TRUE
  /\ rescans' = Rescans
  /\ UNCHANGED <<tableVars, portVars, page, cableVars, registry, scanVars, air, shelfVars,
                 incidents>>

(* What coordinator_register_shelf does for a sequence of shelves: those   *)
(* that are not known are registered, m being the last one that finds a    *)
(* place, and provisioned in any case.                                     *)
Room == MaxKnown - Cardinality(registry)
NewAmong(addrs, m) == {addrs[i] : i \in 1 .. m} \ registry

Register(addrs) ==
  /\ \E m \in 0 .. Len(addrs) :
       /\ Cardinality(NewAmong(addrs, m)) <= Room
       /\ m < Len(addrs) => Cardinality(NewAmong(addrs, m + 1)) > Room
       /\ registry' = registry \cup NewAmong(addrs, m)
  /\ air' = air \cup {Msg("match", a, 0) : a \in NewAmong(addrs, Len(addrs))}

(* Lines for several shelves.                                              *)
Joins(addrs)  == [i \in 1 .. Len(addrs) |-> P!Join(addrs[i])]
Leaves(addrs) == [i \in 1 .. Len(addrs) |-> P!Leave(addrs[i])]

(* coordinator_rescan_neighbor_shelves: neighbors that are still fresh are *)
(* registered and reported, in any order; those of the registry that are   *)
(* not among the first found are reported as gone.  A shelf that has lost  *)
(* its power is fresh for a while.                                         *)
Fresh == {(Near \cap alive) \cup stale : stale \in SUBSET (Near \ alive)}

Rescan(scan) ==
  \E fresh \in Fresh : \E present \in SetToSeqs(fresh) :
    /\ Register(present)
    /\ \E gone \in SetToSeqs({a \in registry' : \A i \in 1 .. Len(present) :
                                                i <= MaxKnown => a # present[i]}) :
         Emit(Joins(present) \o Leaves(gone), scan)

RescanAlarm ==
  /\ rescans > 0
  /\ rescans' = rescans - 1
  /\ Rescan(FALSE)
  /\ OnlyCoordinator
  /\ UNCHANGED <<toCoordinator, request, scanVars>>

Taken == Head(toCoordinator)

TakeCommand ==
  /\ toCoordinator # <<>>
  /\ toCoordinator' = Tail(toCoordinator)

(* A command that comes before the network is up is ignored.               *)
IgnoreCommand ==
  /\ ~up
  /\ TakeCommand
  /\ request' = [t \in Scanner |-> IF t = Taken.from THEN "none" ELSE request[t]]
  /\ OnlyCoordinator
  /\ UNCHANGED <<toHost, registry, rescans, scanVars, air>>

(* coordinator_send_unicast_on_off, and the groupcast, which reaches the   *)
(* shelves that are in the group by then.                                  *)
HandleSend ==
  /\ up
  /\ TakeCommand
  /\ \/ /\ Taken.command.type = "NODE_SEND"
        /\ air' = air \cup {Msg("on_off", Taken.command.addr, Taken.command.state)}
     \/ /\ Taken.command.type = "GROUP_SEND"
        /\ \E group \in SUBSET Shelf :
             air' = air \cup {Msg("on_off", a, Taken.command.state) : a \in group}
  /\ OnlyCoordinator
  /\ UNCHANGED <<toHost, request, registry, scanVars, rescans>>

(* coordinator_run_liveness_scan: one that is running serves the request,  *)
(* an empty registry makes it a rescan, otherwise the shelves are pinged.  *)
ScanAlreadyRuns ==
  /\ scanning
  /\ UNCHANGED <<scanVars, toHost, registry, air>>

ScanFindsNobody ==
  /\ ~scanning
  /\ registry = {}
  /\ Rescan(TRUE)
  /\ UNCHANGED scanVars

ScanPings ==
  /\ registry # {}
  /\ Svc!Begin
  /\ asked' = registry
  /\ air' = air \cup {Msg("read", a, 0) : a \in registry}
  /\ UNCHANGED <<toHost, registry>>

HandleScan ==
  /\ up
  /\ TakeCommand
  /\ Taken.command.type = "NODE_SCAN"
  /\ ScanAlreadyRuns \/ ScanFindsNobody \/ ScanPings
  /\ request' = [request EXCEPT ![Taken.from] =
                   IF scanning' THEN "running" ELSE IF toHost' = toHost THEN "none" ELSE "reported"]
  /\ OnlyCoordinator
  /\ UNCHANGED rescans

(* coordinator_finalize_liveness_scan                                      *)
Verdicts(addrs) ==
  [i \in 1 .. Len(addrs) |->
     IF addrs[i] \in heard THEN P!Join(addrs[i]) ELSE P!Leave(addrs[i])]

Conclude ==
  /\ Punctual => ~\E m \in air : m.kind \in {"read", "answer"}
  /\ Svc!Conclude
  /\ \E addrs \in SetToSeqs(asked) : Emit(Verdicts(addrs), TRUE)
  /\ request' = [t \in Scanner |->
                   IF request[t] # "running" THEN request[t]
                     ELSE IF Heeded THEN "reported" ELSE "none"]
  /\ OnlyCoordinator
  /\ UNCHANGED <<toCoordinator, registry, rescans, air>>

(* coordinator_register_shelf                                              *)
ReceiveAnnce(m) ==
  /\ m.kind = "annce"
  /\ Emit(<<P!Join(m.addr)>>, FALSE)
  /\ registry' = IF Room > 0 THEN registry \cup {m.addr} ELSE registry
  /\ air' = (air \ {m}) \cup
              (IF m.addr \in registry THEN {} ELSE {Msg("match", m.addr, 0)})
  /\ UNCHANGED heard

(* zdo_find_shelf_device_result: the coordinator binds itself to the shelf *)
(* and reports it once more, if that succeeds.                             *)
ReceiveMatched(m) ==
  /\ m.kind = "matched"
  /\ Emit(<<P!Join(m.addr)>>, FALSE)
  /\ air' = air \ {m}
  /\ UNCHANGED <<registry, heard>>

(* Answers of shelves that were not asked count too, and no line about the *)
(* state: for mutation tests.                                              *)
ReceiveAnyAnswer(m) ==
  /\ m.kind = "answer"
  /\ Emit(<<P!StateOf(m.addr, m.state)>>, FALSE)
  /\ heard' = heard \cup {m.addr}
  /\ UNCHANGED registry
  /\ air' = air \ {m}

ReceiveAnswerSilently(m) ==
  /\ m.kind = "answer"
  /\ heard' = IF scanning THEN heard \cup ({m.addr} \cap asked) ELSE heard
  /\ UNCHANGED <<toHost, registry>>
  /\ air' = air \ {m}

(* The answer to a ping: it is not tied to the scan that asked.            *)
ReceiveAnswer(m) ==
  /\ m.kind = "answer"
  /\ Emit(<<P!StateOf(m.addr, m.state)>>, FALSE)
  /\ heard' = IF scanning THEN heard \cup ({m.addr} \cap asked) ELSE heard
  /\ UNCHANGED registry
  /\ air' = air \ {m}

ReceiveReport(m) ==
  /\ m.kind = "report"
  /\ Emit(<<P!StateOf(m.addr, m.state)>>, FALSE)
  /\ UNCHANGED <<registry, heard>>
  /\ air' = air \ {m}

(* A message for a coordinator that is not on the network is lost.         *)
MissMessage(m) ==
  /\ ~up
  /\ m.kind \in {"annce", "matched", "answer", "report"}
  /\ air' = air \ {m}
  /\ UNCHANGED <<toHost, registry, heard>>

CoordinatorReceives(m) ==
  /\ m \in air
  /\ \/ up /\ (ReceiveAnnce(m) \/ ReceiveMatched(m) \/ ReceiveAnswer(m) \/ ReceiveReport(m))
     \/ MissMessage(m)
  /\ OnlyCoordinator
  /\ UNCHANGED <<toCoordinator, request, scanning, asked, rescans>>

-----------------------------------------------------------------------------
(* The shelves.                                                            *)

OnlyShelf == UNCHANGED <<tableVars, portVars, page, cableVars, knownVars, scanVars>>

(* A state that a command sets is not reported.                            *)
ReceiveOnOff(m) ==
  /\ m.kind = "on_off"
  /\ light' = [light EXCEPT ![m.addr] = m.state]
  /\ air' = air \ {m}

(* The stack answers with the attribute, which is the state.               *)
ReceiveRead(m) ==
  /\ m.kind = "read"
  /\ air' = (air \ {m}) \cup {Msg("answer", m.addr, light[m.addr])}
  /\ UNCHANGED light

(* It matches the descriptor that is asked for.                            *)
ReceiveMatch(m) ==
  /\ m.kind = "match"
  /\ air' = (air \ {m}) \cup {Msg("matched", m.addr, 0)}
  /\ UNCHANGED light

(* A shelf without power.                                                  *)
ReachNobody(m) ==
  /\ m.kind \in {"on_off", "read", "match"}
  /\ m.addr \notin alive
  /\ air' = air \ {m}
  /\ UNCHANGED light

ShelfReceives(m) ==
  /\ m \in air
  /\ \/ m.addr \in alive /\ (ReceiveOnOff(m) \/ ReceiveRead(m) \/ ReceiveMatch(m))
     \/ ReachNobody(m)
  /\ OnlyShelf
  /\ UNCHANGED <<alive, incidents>>

(* A press reports the new state; a report that is refused is only logged. *)
Press(a) ==
  /\ a \in alive
  /\ Incident("press")
  /\ light' = [light EXCEPT ![a] = 1 - @]
  /\ \/ air' = air \cup {Msg("report", a, 1 - light[a])}
     \/ "fault" \in Incidents /\ UNCHANGED air
  /\ OnlyShelf
  /\ UNCHANGED alive

-----------------------------------------------------------------------------
(* What goes wrong.                                                        *)

OnlyFault == UNCHANGED <<tableVars, page>>

Lose(m) ==
  /\ m \in air
  /\ Incident("fault")
  /\ air' = air \ {m}
  /\ OnlyFault
  /\ UNCHANGED <<portVars, cableVars, knownVars, scanVars, shelfVars>>

PowerOff(a) ==
  /\ a \in alive
  /\ Incident("fault")
  /\ alive' = alive \ {a}
  /\ light' = [light EXCEPT ![a] = 0]
  /\ OnlyFault
  /\ UNCHANGED <<portVars, cableVars, knownVars, scanVars, air>>

(* The shelf starts with its light off, joins and announces itself.        *)
PowerOn(a) ==
  /\ a \notin alive
  /\ alive' = alive \cup {a}
  /\ air' = air \cup {Msg("annce", a, 0)}
  /\ OnlyShelf
  /\ UNCHANGED <<light, incidents>>

(* The cable is pulled, or the port is closed: the lines on it are lost,   *)
(* and the reader may end, as ReaderAssertion of SerialLink says.          *)
(* The coordinator starts again if it had its power from the cable, and    *)
(* forgets the requests whose answers it was waiting for.                  *)
Disconnect ==
  /\ Incident("fault")
  /\ connected' = FALSE
  /\ reading' \in {reading, FALSE}
  /\ toCoordinator' = <<>>
  /\ toHost' = <<>>
  /\ \/ /\ Svc!Restart
        /\ up' = FALSE
        /\ registry' = {}
        /\ rescans' = 0
        /\ request' = [t \in Scanner |-> "none"]
        /\ air' = {m \in air : m.kind \notin {"match", "matched"}}
     \/ /\ UNCHANGED <<scanVars, knownVars, air>>
        /\ request' = [t \in Scanner |->
                         IF request[t] = "running" THEN "running" ELSE "none"]
  /\ OnlyFault
  /\ UNCHANGED shelfVars

-----------------------------------------------------------------------------
ScanStep(t) == AskScan(t) \/ WaitOver(t) \/ SweepStep(t)

Bridge ==
  \/ \E t \in Scanner : BeginScan(t) \/ ScanStep(t) \/ AskFails(t)
  \/ \E c \in PageCommand : SendCommand(c)
  \/ UpdateTable
  \/ ReadLine
  \/ EntryReplaced
  \/ Reconnect

Coordinator ==
  \/ NetworkUp
  \/ RescanAlarm
  \/ IgnoreCommand
  \/ HandleSend
  \/ HandleScan
  \/ Conclude
  \/ \E m \in air : CoordinatorReceives(m)

Shelves ==
  \/ \E m \in air : ShelfReceives(m)
  \/ \E a \in Shelf : Press(a) \/ PowerOff(a) \/ PowerOn(a)

Next == Bridge \/ Coordinator \/ Shelves \/ Disconnect \/ \E m \in air : Lose(m)

Spec == Init /\ [][Next]_vars

(* The threads and the coordinator go on, what is in the air arrives       *)
(* unless it is lost, the scan loop scans again and again, and a cable     *)
(* that is pulled is plugged in again.  Nothing makes the reader end.      *)
Deliver(a) ==
  \E m \in air : m.addr = a /\ (CoordinatorReceives(m) \/ ShelfReceives(m))

Fairness ==
  /\ WF_vars(BeginScan("loop"))
  /\ \A t \in Scanner : WF_vars(ScanStep(t) \/ AskFails(t))
  /\ WF_vars(UpdateTable \/ EntryReplaced)
  /\ WF_vars(ReadLine)
  /\ WF_vars(Reconnect)
  /\ WF_vars(NetworkUp \/ RescanAlarm)
  /\ WF_vars(IgnoreCommand \/ HandleSend \/ HandleScan)
  /\ WF_vars(Conclude)
  /\ \A a \in Shelf : WF_vars(Deliver(a))

-----------------------------------------------------------------------------
(* Properties.                                                             *)

CommandLine == [command : PageCommand, from : {"page"}]
                 \cup [command : {P!NodeScan}, from : Scanner]
EventLine   == [event : Table!Event, ends : BOOLEAN]

(* Type invariant of the system.                                           *)
TypeOK ==
  /\ Table!TypeOK
  /\ connected \in BOOLEAN /\ reading \in BOOLEAN
  /\ page \in PageCommand \cup {P!NoCommand}
  /\ toCoordinator \in Seq(CommandLine)
  /\ toHost \in Seq(EventLine)
  /\ request \in [Scanner -> {"none", "sent", "running", "reported"}]
  /\ up \in BOOLEAN
  /\ registry \subseteq Shelf /\ Cardinality(registry) <= MaxKnown
  /\ scanning \in BOOLEAN /\ asked \subseteq Shelf /\ heard \subseteq asked
  /\ air \subseteq Message
  /\ alive \subseteq Shelf
  /\ light \in [Shelf -> {0, 1}]

(* Nothing brings these threads of the bridge back.                        *)
LoopDead   == at["loop"] = "dead"
ReaderDead == ~reading

(* A registry that is full has no place for a shelf, which is then neither *)
(* pinged nor reported by a scan.                                          *)
NoPlaceFor(a) == a \notin registry /\ Cardinality(registry) = MaxKnown

(* "Live view of Zigbee shelf nodes": once presses, commands and faults    *)
(* stop, the page shows every shelf in the reach of the coordinator, as    *)
(* online, in the state that it has, and goes on to show it; except when   *)
(* the thread of the scan loop or the reader has ended, or the registry is *)
(* full without the shelf, which is marked as offline for good then.       *)
LiveShelfIsShown ==
  \A a \in Near :
    <>[](\/ LoopDead \/ ReaderDead \/ NoPlaceFor(a)
         \/ a \in alive => a \in DOMAIN nodes
                            /\ nodes[a] = [state |-> light[a], online |-> TRUE])

(* A shelf that has lost its power is shown as offline in the end, however *)
(* its last messages, verdicts and commands to it cross; except when the   *)
(* thread of the scan loop has ended.  A cable that was pulled is plugged  *)
(* in again.                                                               *)
DeadShelfIsOffline ==
  \A a \in Shelf :
    <>[](\/ LoopDead
         \/ a \in DOMAIN nodes \ alive => ~nodes[a].online)

(* A sweep of the table does not mark a shelf as offline whose NODE_JOIN   *)
(* was handled after the last scan began and before the sweep, however     *)
(* many threads scan at the same time.                                     *)
SweepSparesHeard == Table!SweepSparesHeard

=============================================================================
