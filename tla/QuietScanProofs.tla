-------------------------- MODULE QuietScanProofs --------------------------
(* A scan that begins at rest and that nothing disturbs leaves the table   *)
(* telling the truth.  The invariant describes such a scan in the five     *)
(* phases it goes through.                                                 *)
EXTENDS QuietScan, ShelfSystemProofs

(* What is on its way to the table, and what is there.                     *)
Told(e) == \E i \in 1 .. Len(toHost) : toHost[i].event = e

StateShown(a) == a \in DOMAIN nodes /\ nodes[a].state = light[a]

StateComes(a) == Told(P!StateOf(a, light[a])) \/ StateShown(a)

StateLine(a) == [event |-> P!StateOf(a, light[a]), ends |-> FALSE]

(* A ping of the scan, or an answer to one.                                *)
ScanMessage(m) ==
  \/ \E a \in registry : m = Msg("read", a, 0)
  \/ \E a \in Present : m = Msg("answer", a, light[a])

(* A line that a true table can do with.                                   *)
TrueEvent(e) ==
  \/ \E a \in Present : e \in {P!StateOf(a, light[a]), P!Join(a)}
  \/ \E a \in Shelf \ Present : e = P!Leave(a)

(* What a scanning thread can do next.                                     *)
Places == {"idle", "ask", "wait", "sweep", "mark", "dead"}

(* Both ends listen, and nobody else is at work.                           *)
Alone(t) ==
  /\ connected /\ reading /\ up
  /\ page = P!NoCommand
  /\ registry # {}
  /\ \A u \in Scanner \ {t} : at[u] \in {"idle", "dead"} /\ request[u] = "none"

Asking(t) ==
  /\ at[t] = "ask" /\ request[t] = "none"
  /\ toCoordinator = <<>> /\ toHost = <<>> /\ air = {} /\ ~scanning
  /\ inProgress /\ seen = {}

Sent(t) ==
  /\ at[t] = "wait" /\ request[t] = "sent"
  /\ toCoordinator = <<[command |-> P!NodeScan, from |-> t]>>
  /\ toHost = <<>> /\ air = {} /\ ~scanning
  /\ inProgress /\ seen = {}

Running(t) ==
  /\ at[t] = "wait" /\ request[t] = "running"
  /\ toCoordinator = <<>>
  /\ inProgress /\ seen = {}
  /\ scanning /\ asked = registry /\ heard \subseteq Present
  /\ \A m \in air : ScanMessage(m)
  /\ \A i \in 1 .. Len(toHost) : \E a \in Present : toHost[i] = StateLine(a)
  /\ \A a \in Present : \/ Msg("read", a, 0) \in air
                        \/ Msg("answer", a, light[a]) \in air
                        \/ a \in heard /\ StateComes(a)

Reported(t) ==
  /\ at[t] = "wait" /\ request[t] = "reported"
  /\ toCoordinator = <<>> /\ air = {} /\ ~scanning
  /\ inProgress
  /\ toHost # <<>>
  /\ \A i \in 1 .. Len(toHost) : /\ toHost[i].ends <=> i = Len(toHost)
                                 /\ TrueEvent(toHost[i].event)
  /\ seen \subseteq Present
  /\ \A a \in seen : a \in DOMAIN nodes /\ nodes[a].online
  /\ \A a \in Present : StateComes(a) /\ (Told(P!Join(a)) \/ a \in seen)

Settled(t) ==
  /\ at[t] \in {"wait", "sweep", "mark", "idle"} /\ request[t] = "none"
  /\ toCoordinator = <<>> /\ toHost = <<>> /\ air = {} /\ ~scanning
  /\ seen = Present
  /\ \A a \in Present : StateShown(a) /\ nodes[a].online
  /\ at[t] = "wait" => inProgress
  /\ at[t] \in {"sweep", "mark"} =>
       /\ sweep.keys = DOMAIN nodes
       /\ sweep.target \cap Present = {}
       /\ \A a \in DOMAIN nodes \ Present :
            a \in sweep.left \/ a \in sweep.target \/ ~nodes[a].online
  /\ at[t] = "sweep" => sweep.target = {}
  /\ at[t] = "idle" => \A a \in DOMAIN nodes \ Present : ~nodes[a].online

Phase(t) == Asking(t) \/ Sent(t) \/ Running(t) \/ Reported(t) \/ Settled(t)

CalmInv == calm \subseteq Scanner /\ \A t \in calm : Alone(t) /\ Phase(t)

-----------------------------------------------------------------------------
(* Lines on the cable.                                                     *)
LEMMA LineRead ==
  ASSUME toHost \in Seq(EventLine), toHost # <<>>, toHost' = Tail(toHost)
  PROVE  /\ Len(toHost') = Len(toHost) - 1 /\ Len(toHost) \in Nat \ {0}
         /\ \A i \in 1 .. Len(toHost') : i + 1 \in 1 .. Len(toHost) /\ toHost'[i] = toHost[i + 1]
         /\ Head(toHost) = toHost[1]
         /\ toHost' = <<>> <=> Len(toHost) = 1
         /\ \A e : Told(e) => e = Head(toHost).event \/ Told(e)'
<1>1. Len(toHost') = Len(toHost) - 1 /\ Len(toHost) \in Nat \ {0}
  OBVIOUS
<1>2. ASSUME NEW i \in 1 .. Len(toHost')
      PROVE  i + 1 \in 1 .. Len(toHost) /\ toHost'[i] = toHost[i + 1]
  <2>1. i + 1 \in 1 .. Len(toHost) /\ i \in 1 .. Len(toHost) - 1
    BY <1>1
  <2> QED BY <2>1
<1>3. Head(toHost) = toHost[1]
  OBVIOUS
<1>4. toHost' = <<>> <=> Len(toHost) = 1
  <2>1. toHost' \in Seq(EventLine)
    OBVIOUS
  <2>2. \A s \in Seq(EventLine) : s = <<>> <=> Len(s) = 0
    OBVIOUS
  <2>3. toHost' = <<>> <=> Len(toHost') = 0
    BY <2>1, <2>2
  <2> QED BY <1>1, <2>3
<1>5. ASSUME NEW e, Told(e), e # Head(toHost).event PROVE Told(e)'
  <2> PICK i \in 1 .. Len(toHost) : toHost[i].event = e
    BY <1>5 DEF Told
  <2>1. i # 1
    BY <1>3, <1>5
  <2>2. i - 1 \in 1 .. Len(toHost') /\ (i - 1) + 1 = i
    BY <1>1, <2>1
  <2>3. toHost'[i - 1].event = e
    BY <1>2, <2>2
  <2> QED BY <2>2, <2>3 DEF Told
<1> QED BY <1>1, <1>2, <1>3, <1>4, <1>5

(* A listing of some shelves names each of them.                           *)
LEMMA ListingComplete ==
  ASSUME NEW S, S \subseteq Shelf, NEW addrs \in SetToSeqs(S)
  PROVE  /\ Len(addrs) \in Nat
         /\ \A i \in 1 .. Len(addrs) : addrs[i] \in S
         /\ \A a \in S : \E i \in 1 .. Len(addrs) : addrs[i] = a
<1> DEFINE n == Cardinality(S)
           D == 1 .. n
<1>1. IsFiniteSet(S) /\ n \in Nat
  BY ShelfAddress, FS_Subset, FS_CardinalityType
<1>2. addrs \in [D -> S] /\ \A i, j \in D : i # j => addrs[i] # addrs[j]
  BY DEF SetToSeqs
<1>3. Len(addrs) = n
  BY <1>1, <1>2
<1>4. IsFiniteSet(D) /\ Cardinality(D) = n
  BY <1>1, FS_Interval
<1>5. addrs \in Injection(D, S)
  BY <1>2 DEF Injection, IsInjective
<1> HIDE DEF n, D
<1>6. addrs \in Surjection(D, S)
  BY <1>1, <1>4, <1>5, FS_Injection DEF n
<1>7. \A a \in S : \E i \in D : addrs[i] = a
  BY <1>6 DEF Surjection
<1> QED BY <1>1, <1>2, <1>3, <1>7 DEF D

LEMMA LinesEmitted ==
  ASSUME toHost \in Seq(EventLine), NEW events \in Seq(Table!Event), NEW scan \in BOOLEAN,
         Heeded, Emit(events, scan)
  PROVE  /\ Len(toHost') = Len(toHost) + Len(events)
         /\ \A i \in 1 .. Len(toHost) : i \in 1 .. Len(toHost') /\ toHost'[i] = toHost[i]
         /\ \A j \in 1 .. Len(events) :
              /\ Len(toHost) + j \in 1 .. Len(toHost')
              /\ toHost'[Len(toHost) + j] =
                   [event |-> events[j], ends |-> scan /\ j = Len(events)]
         /\ \A i \in 1 .. Len(toHost') :
              \/ i \in 1 .. Len(toHost)
              \/ \E j \in 1 .. Len(events) : i = Len(toHost) + j
         /\ \A e : Told(e) => Told(e)'
         /\ \A j \in 1 .. Len(events) : Told(events[j])'
<1> DEFINE new == Lines(events, scan)
<1>0. Len(events) \in Nat /\ Len(toHost) \in Nat
  OBVIOUS
<1>1. /\ new \in Seq(EventLine) /\ Len(new) = Len(events)
      /\ \A j \in 1 .. Len(events) :
           new[j] = [event |-> events[j], ends |-> scan /\ j = Len(events)]
  <2>1. ASSUME NEW i \in 1 .. Len(events)
        PROVE  [event |-> events[i], ends |-> scan /\ i = Len(events)] \in EventLine
    <3>1. (scan /\ i = Len(events)) \in BOOLEAN
      OBVIOUS
    <3>2. events[i] \in Table!Event
      OBVIOUS
    <3> QED BY <3>1, <3>2 DEF EventLine
  <2> QED BY <1>0, <2>1 DEF Lines
<1>2. toHost' = toHost \o new
  BY DEF Emit
<1> HIDE DEF new
<1>3. Len(toHost') = Len(toHost) + Len(events)
  <2>1. Len(toHost \o new) = Len(toHost) + Len(new)
    BY <1>1
  <2> QED BY <1>1, <1>2, <2>1
<1>4. \A i \in 1 .. Len(toHost) : i \in 1 .. Len(toHost') /\ toHost'[i] = toHost[i]
  BY <1>0, <1>1, <1>2, <1>3
<1>5. ASSUME NEW j \in 1 .. Len(events)
      PROVE  /\ Len(toHost) + j \in 1 .. Len(toHost')
             /\ toHost'[Len(toHost) + j] =
                  [event |-> events[j], ends |-> scan /\ j = Len(events)]
  <2>1. Len(toHost) + j \in 1 .. Len(toHost')
    BY <1>0, <1>3
  <2>2. toHost'[Len(toHost) + j] = new[j]
    BY <1>0, <1>1, <1>2
  <2> QED BY <1>1, <2>1, <2>2
<1>6. ASSUME NEW i \in 1 .. Len(toHost'), i \notin 1 .. Len(toHost)
      PROVE  \E j \in 1 .. Len(events) : i = Len(toHost) + j
  <2>1. i - Len(toHost) \in 1 .. Len(events) /\ i = Len(toHost) + (i - Len(toHost))
    BY <1>0, <1>3, <1>6
  <2> QED BY <2>1
<1>7. \A e : Told(e) => Told(e)'
  BY <1>4 DEF Told
<1>8. ASSUME NEW j \in 1 .. Len(events) PROVE Told(events[j])'
  <2>1. toHost'[Len(toHost) + j].event = events[j]
    <3>1. toHost'[Len(toHost) + j] = [event |-> events[j], ends |-> scan /\ j = Len(events)]
      BY <1>5
    <3> QED BY <3>1
  <2> QED BY <1>5, <2>1 DEF Told
<1> QED BY <1>3, <1>4, <1>5, <1>6, <1>7, <1>8

-----------------------------------------------------------------------------
(* What a line does to the table.                                          *)
LEMMA EventApplied ==
  ASSUME NEW a, NEW s
  PROVE  /\ Table!ApplyEvent(P!StateOf(a, s)) => Table!StateReported(a, s)
         /\ Table!ApplyEvent(P!Join(a)) => Table!Joined(a)
         /\ Table!ApplyEvent(P!Leave(a)) => Table!Left(a)
<1>1. /\ P!StateOf(a, s).kind = "state" /\ P!StateOf(a, s).addr = a
      /\ P!StateOf(a, s).state = s
  BY DEF P!StateOf
<1>2. P!Join(a).kind = "join" /\ P!Join(a).addr = a
  BY DEF P!Join
<1>3. P!Leave(a).kind = "leave" /\ P!Leave(a).addr = a
  BY DEF P!Leave
<1> QED BY <1>1, <1>2, <1>3 DEF Table!ApplyEvent

(* How the table changes for one address; the other entries stay.          *)
LEMMA EntryPut ==
  ASSUME NEW a, NEW entry, Table!Put(a, entry)
  PROVE  /\ DOMAIN nodes' = DOMAIN nodes \cup {a}
         /\ nodes'[a] = entry
         /\ \A b \in DOMAIN nodes : b # a => nodes'[b] = nodes[b]
BY DEF Table!Put, Table!Known

-----------------------------------------------------------------------------
(* The thread itself.                                                      *)

LEMMA AsksThenSent ==
  ASSUME OthersOK, NEW t \in Scanner, at \in [Scanner -> Places], Alone(t), Phase(t), AskScan(t)
  PROVE  Alone(t)' /\ Phase(t)'
<1>1. Asking(t)
  BY DEF Phase, Sent, Running, Reported, Settled, AskScan, Table!Ask
<1>2. at' = [at EXCEPT ![t] = "wait"] /\ UNCHANGED <<inProgress, seen>>
  BY DEF AskScan, Table!Ask, Table!Goto
<1>3. request' = [request EXCEPT ![t] = "sent"]
  BY DEF AskScan
<1>4. toCoordinator' = <<[command |-> P!NodeScan, from |-> t]>>
  BY <1>1 DEF AskScan, Asking
<1>5. Sent(t)'
  BY <1>1, <1>2, <1>3, <1>4 DEF Sent, Asking, AskScan, scanVars, knownVars, OthersOK
<1>6. Alone(t)'
  BY <1>2, <1>3 DEF Alone, AskScan, OthersOK, portVars, knownVars
<1> QED BY <1>5, <1>6 DEF Phase

LEMMA WaitIsOver ==
  ASSUME OthersOK, NEW t \in Scanner, at \in [Scanner -> Places], Alone(t), Phase(t),
         Punctual, WaitOver(t)
  PROVE  Alone(t)' /\ Phase(t)'
<1> USE DEF OnlyTable, portVars, cableVars, knownVars, scanVars, shelfVars
<1>1. Settled(t) /\ at[t] = "wait"
  BY DEF Phase, Asking, Sent, Running, Reported, WaitOver, Table!Finalize
<1>2. inProgress
  BY <1>1 DEF Settled
<1>3. at' = [at EXCEPT ![t] = "sweep"]
  BY <1>2 DEF WaitOver, Table!Finalize, Table!Goto
<1>4. sweep' = [left |-> DOMAIN nodes, keys |-> DOMAIN nodes, target |-> {}]
  BY <1>2 DEF WaitOver, Table!Finalize, Table!Known
<1>5. UNCHANGED <<nodes, seen, page, toCoordinator, toHost, request, registry, scanning, air,
                  alive, light, connected, reading, up>>
  BY DEF WaitOver, Table!Finalize
<1>6. Present' = Present /\ \A a : StateShown(a)' <=> StateShown(a)
  BY <1>5 DEF Present, StateShown
<1>7. at'[t] = "sweep"
  BY <1>3
<1>8. Settled(t)'
  BY <1>1, <1>4, <1>5, <1>6, <1>7 DEF Settled
<1>9. Alone(t)'
  BY <1>3, <1>5 DEF Alone
<1> QED BY <1>8, <1>9 DEF Phase

LEMMA Sweeps ==
  ASSUME OthersOK, NEW t \in Scanner, at \in [Scanner -> Places], Table!TypeOK,
         Alone(t), Phase(t), SweepStep(t)
  PROVE  Alone(t)' /\ Phase(t)'
<1> USE DEF OnlyTable, portVars, cableVars, knownVars, scanVars, shelfVars
<1>1. Settled(t) /\ at[t] \in {"sweep", "mark"}
  BY DEF Phase, Asking, Sent, Running, Reported, SweepStep, Table!Visit, Table!MarkOffline,
         Table!SweepOver, Table!TableGrew
<1>2. UNCHANGED <<seen, page, toCoordinator, toHost, request, registry, scanning, air,
                  alive, light, connected, reading, up>>
  BY DEF SweepStep, Table!Visit, Table!MarkOffline, Table!SweepOver, Table!TableGrew
<1>3. Present' = Present
  BY <1>2 DEF Present
<1>4. sweep \in [left : SUBSET Shelf, keys : SUBSET Shelf, target : SUBSET Shelf]
  BY DEF Table!TypeOK
<1>5. sweep.keys = DOMAIN nodes
  BY <1>1 DEF Settled
<1>6. CASE Table!Visit(t)
  <2> PICK a \in sweep.left :
        IF a \in seen
          THEN /\ sweep' = [sweep EXCEPT !.left = @ \ {a}]
               /\ UNCHANGED at
          ELSE /\ sweep' = [sweep EXCEPT !.left = @ \ {a}, !.target = {a}]
               /\ at' = [at EXCEPT ![t] = "mark"]
    BY <1>6 DEF Table!Visit, Table!Goto
  <2>1. at[t] = "sweep" /\ UNCHANGED nodes
    BY <1>6 DEF Table!Visit
  <2>2. \A b : StateShown(b)' <=> StateShown(b)
    BY <1>2, <2>1 DEF StateShown
  <2>3. CASE a \in seen
    <3>1. /\ sweep'.left = sweep.left \ {a} /\ sweep'.keys = sweep.keys
          /\ sweep'.target = sweep.target /\ at' = at
      BY <1>4, <2>3
    <3>2. a \in Present
      BY <1>1, <2>3 DEF Settled
    <3>3. Settled(t)'
      BY <1>1, <1>2, <1>3, <2>1, <2>2, <3>1, <3>2 DEF Settled
    <3> QED BY <1>2, <3>1, <3>3 DEF Alone, Phase
  <2>4. CASE a \notin seen
    <3>1. /\ sweep'.left = sweep.left \ {a} /\ sweep'.keys = sweep.keys
          /\ sweep'.target = {a}
      BY <1>4, <2>4
    <3>2. a \notin Present /\ sweep.target = {}
      BY <1>1, <2>1, <2>4 DEF Settled
    <3>3. at'[t] = "mark" /\ \A u \in Scanner \ {t} : at'[u] = at[u]
      BY <2>4
    <3>4. Settled(t)'
      BY <1>1, <1>2, <1>3, <2>1, <2>2, <3>1, <3>2, <3>3 DEF Settled
    <3> QED BY <1>2, <3>3, <3>4 DEF Alone, Phase
  <2> QED BY <2>3, <2>4
<1>7. CASE Table!MarkOffline(t)
  <2>1. /\ sweep'.left = sweep.left /\ sweep'.keys = sweep.keys /\ sweep'.target = {}
        /\ at'[t] = "sweep" /\ \A u \in Scanner \ {t} : at'[u] = at[u]
    BY <1>4, <1>7 DEF Table!MarkOffline, Table!Goto
  <2>2. at[t] = "mark"
    BY <1>7 DEF Table!MarkOffline
  <2>3. nodes' = [a \in DOMAIN nodes |->
                    IF a \in sweep.target THEN [nodes[a] EXCEPT !.online = FALSE] ELSE nodes[a]]
    BY <1>7 DEF Table!MarkOffline, Table!Known
  <2>4. \A a \in DOMAIN nodes : nodes[a] \in [state : {0, 1}, online : BOOLEAN]
    BY DEF Table!TypeOK, Table!Known
  <2>5. /\ DOMAIN nodes' = DOMAIN nodes
        /\ \A a \in DOMAIN nodes : a \in sweep.target => ~nodes'[a].online
        /\ \A a \in DOMAIN nodes : a \notin sweep.target => nodes'[a] = nodes[a]
    BY <2>3, <2>4
  <2>6. \A a \in Present : a \notin sweep.target /\ a \in DOMAIN nodes
    BY <1>1 DEF Settled, StateShown
  <2>7. \A a \in Present : StateShown(a)' /\ nodes'[a].online
    BY <1>1, <1>2, <2>5, <2>6 DEF Settled, StateShown
  <2>8. Settled(t)'
    BY <1>1, <1>2, <1>3, <2>1, <2>2, <2>5, <2>7 DEF Settled
  <2> QED BY <1>2, <2>1, <2>8 DEF Alone, Phase
<1>8. CASE Table!SweepOver(t)
  <2>1. at[t] = "sweep" /\ sweep.left = {} /\ UNCHANGED nodes
    BY <1>8 DEF Table!SweepOver
  <2>2. at'[t] = "idle" /\ \A u \in Scanner \ {t} : at'[u] = at[u]
    BY <1>8 DEF Table!SweepOver, Table!Goto
  <2>3. \A b : StateShown(b)' <=> StateShown(b)
    BY <1>2, <2>1 DEF StateShown
  <2>4. \A a \in DOMAIN nodes \ Present : ~nodes[a].online
    BY <1>1, <2>1 DEF Settled
  <2>5. Settled(t)'
    BY <1>1, <1>2, <1>3, <2>1, <2>2, <2>3, <2>4 DEF Settled
  <2> QED BY <1>2, <2>2, <2>5 DEF Alone, Phase
<1>9. CASE Table!TableGrew(t)
  BY <1>5, <1>9 DEF Table!TableGrew, Table!Known
<1> QED BY <1>6, <1>7, <1>8, <1>9 DEF SweepStep

-----------------------------------------------------------------------------
(* The coordinator and the shelves.                                        *)
LEMMA NothingElseIsAsked ==
  ASSUME NEW t \in Scanner, Alone(t), Phase(t),
         UpdateTable \/ EntryReplaced \/ IgnoreCommand \/ HandleSend
  PROVE  FALSE
<1>1. CASE UpdateTable \/ EntryReplaced
  BY <1>1 DEF Alone, UpdateTable, EntryReplaced, P!NoCommand
<1>2. CASE HandleSend
  <2>1. toCoordinator = <<[command |-> P!NodeScan, from |-> t]>>
    BY <1>2 DEF HandleSend, TakeCommand, Phase, Asking, Sent, Running, Reported, Settled
  <2>2. Taken.command.type = "NODE_SCAN"
    BY <2>1 DEF Taken, P!NodeScan
  <2> QED BY <1>2, <2>2 DEF HandleSend
<1>3. CASE IgnoreCommand
  BY <1>3 DEF IgnoreCommand, Alone
<1> QED BY <1>1, <1>2, <1>3

LEMMA SentThenRunning ==
  ASSUME OthersOK, NEW t \in Scanner, Alone(t), Phase(t), HandleScan
  PROVE  Alone(t)' /\ Phase(t)'
<1>1. Sent(t)
  BY DEF HandleScan, TakeCommand, Phase, Asking, Sent, Running, Reported, Settled
<1>2. toCoordinator' = <<>> /\ Taken.from = t
  BY <1>1 DEF HandleScan, TakeCommand, Taken, Sent
<1>3. ScanPings
  BY <1>1 DEF HandleScan, ScanAlreadyRuns, ScanFindsNobody, Sent, Alone
<1>4. /\ scanning' /\ asked' = registry /\ heard' = {}
      /\ air' = {Msg("read", a, 0) : a \in registry}
      /\ UNCHANGED <<toHost, registry>>
  BY <1>1, <1>3 DEF ScanPings, Svc!Begin, Sent
<1>5. request' = [request EXCEPT ![t] = "running"]
  BY <1>2, <1>4 DEF HandleScan
<1>6. request'[t] = "running" /\ \A u \in Scanner \ {t} : request'[u] = request[u]
  BY <1>5 DEF OthersOK
<1>7. UNCHANGED <<nodes, inProgress, seen, at, page, alive, light, connected, reading, up>>
  BY DEF HandleScan, OnlyCoordinator, tableVars, portVars, shelfVars
<1>8. Present' = Present
  BY <1>4, <1>7 DEF Present
<1>9. \A m \in air' : ScanMessage(m)'
  BY <1>4 DEF ScanMessage
<1>10. \A a \in Present : Msg("read", a, 0) \in air'
  BY <1>4 DEF Present
<1>11. toHost' = <<>>
  BY <1>1, <1>4 DEF Sent
<1>12. \A i \in 1 .. Len(toHost') : FALSE
  BY <1>11
<1>13. Running(t)'
  BY <1>1, <1>2, <1>4, <1>6, <1>7, <1>8, <1>9, <1>10, <1>12 DEF Running, Sent
<1> QED BY <1>4, <1>6, <1>7, <1>13 DEF Alone, Phase

(* When nothing is in the air any more, everybody alive was heard.         *)
LEMMA RunningThenReported ==
  ASSUME OthersOK, NEW t \in Scanner, Alone(t), Phase(t), Punctual, Conclude
  PROVE  Alone(t)' /\ Phase(t)'
<1>0. toHost \in Seq(EventLine) /\ Heeded
  BY DEF OthersOK, Alone, Heeded
<1>1. Running(t)
  BY DEF Conclude, Svc!Conclude, Phase, Asking, Sent, Running, Reported, Settled
<1>2. air = {}
  BY <1>1 DEF Conclude, Running, ScanMessage, Msg
<1>3. heard = Present /\ \A a \in Present : StateComes(a)
  BY <1>1, <1>2 DEF Running
<1>4. asked = registry /\ registry \subseteq Shelf /\ registry # {}
  BY <1>1 DEF Running, Alone, OthersOK
<1> PICK addrs \in SetToSeqs(asked) : Emit(Verdicts(addrs), TRUE)
  BY DEF Conclude
<1>5. /\ addrs \in Seq(Shelf) /\ Len(addrs) \in Nat \ {0}
      /\ \A i \in 1 .. Len(addrs) : addrs[i] \in registry
      /\ \A a \in registry : \E i \in 1 .. Len(addrs) : addrs[i] = a
  BY <1>4, ListingComplete, ListingTypes, ShelfAddress
<1> PICK verdicts : verdicts = Verdicts(addrs)
  OBVIOUS
<1>6. /\ verdicts \in Seq(Table!Event) /\ Len(verdicts) = Len(addrs)
      /\ \A i \in 1 .. Len(addrs) :
           verdicts[i] = IF addrs[i] \in heard THEN P!Join(addrs[i]) ELSE P!Leave(addrs[i])
  <2>1. ASSUME NEW i \in 1 .. Len(addrs)
        PROVE  (IF addrs[i] \in heard THEN P!Join(addrs[i]) ELSE P!Leave(addrs[i])) \in Table!Event
    <3>1. addrs[i] \in Shelf
      BY <1>5
    <3> QED BY <3>1, EventTypes
  <2> QED BY <1>5, <2>1 DEF Verdicts
<1>7. UNCHANGED <<nodes, inProgress, seen, at, page, alive, light, registry, air, toCoordinator,
                  connected, reading, up>>
  BY DEF Conclude, OnlyCoordinator, tableVars, portVars, shelfVars
<1>8. ~scanning'
  BY DEF Conclude, Svc!Conclude
<1>9. request'[t] = "reported" /\ \A u \in Scanner \ {t} : request'[u] = "none"
  BY <1>1 DEF Conclude, Running, Alone, Heeded
<1>10. Present' = Present /\ Present \subseteq Shelf
  BY <1>4, <1>7 DEF Present
<1> PICK n : n = Len(toHost)
  OBVIOUS
<1>11. /\ Len(toHost') = n + Len(verdicts)
       /\ \A i \in 1 .. n : i \in 1 .. Len(toHost') /\ toHost'[i] = toHost[i]
       /\ \A j \in 1 .. Len(verdicts) :
            /\ n + j \in 1 .. Len(toHost')
            /\ toHost'[n + j] = [event |-> verdicts[j], ends |-> TRUE /\ j = Len(verdicts)]
       /\ \A i \in 1 .. Len(toHost') :
            i \in 1 .. n \/ \E j \in 1 .. Len(verdicts) : i = n + j
       /\ \A e : Told(e) => Told(e)'
       /\ \A j \in 1 .. Len(verdicts) : Told(verdicts[j])'
  BY <1>0, <1>6, LinesEmitted
<1>12. n \in Nat
  BY DEF OthersOK
<1>13. \A j \in 1 .. Len(verdicts) : TrueEvent(verdicts[j])'
  <2> TAKE j \in 1 .. Len(verdicts)
  <2>1. j \in 1 .. Len(addrs) /\ addrs[j] \in registry /\ addrs[j] \in Shelf
    BY <1>4, <1>5, <1>6
  <2>2. verdicts[j] = IF addrs[j] \in Present THEN P!Join(addrs[j]) ELSE P!Leave(addrs[j])
    BY <1>3, <1>6, <2>1
  <2> QED BY <1>10, <2>1, <2>2 DEF TrueEvent
<1>14. ASSUME NEW i \in 1 .. Len(toHost')
       PROVE  (toHost[i].ends <=> i = Len(toHost))' /\ TrueEvent(toHost[i].event)'
  <2>1. CASE i \in 1 .. n
    <3>1. PICK a \in Present : toHost[i] = StateLine(a)
      BY <1>1, <2>1 DEF Running
    <3>2. ~toHost'[i].ends /\ toHost'[i].event = P!StateOf(a, light[a])
      BY <1>11, <2>1, <3>1 DEF StateLine
    <3>3. i # Len(toHost')
      BY <1>5, <1>6, <1>11, <1>12, <2>1
    <3> PICK event : event = P!StateOf(a, light[a])
      OBVIOUS
    <3>4. TrueEvent(event)'
      BY <1>7, <1>10 DEF TrueEvent
    <3> QED BY <3>2, <3>3, <3>4
  <2>2. CASE i \notin 1 .. n
    <3>1. PICK j \in 1 .. Len(verdicts) : i = n + j
      BY <1>11, <2>2
    <3>2. toHost'[i] = [event |-> verdicts[j], ends |-> TRUE /\ j = Len(verdicts)]
      BY <1>11, <3>1
    <3> PICK event, last : event = verdicts[j] /\ last \in BOOLEAN /\ (last <=> j = Len(verdicts))
      OBVIOUS
    <3>3. toHost'[i].ends <=> last
      BY <3>2
    <3>4. toHost'[i].event = event
      BY <3>2
    <3>5. last <=> i = Len(toHost')
      <4>1. Len(verdicts) \in Nat /\ j \in Nat
        BY <1>6
      <4>2. Len(toHost') = n + Len(verdicts) /\ i = n + j
        BY <1>11, <3>1
      <4>3. j = Len(verdicts) <=> i = Len(toHost')
        BY <1>12, <4>1, <4>2
      <4> QED BY <4>3
    <3>6. TrueEvent(event)'
      BY <1>13
    <3> QED BY <3>3, <3>4, <3>5, <3>6
  <2> QED BY <2>1, <2>2
<1>15. ASSUME NEW a \in Present PROVE StateComes(a)' /\ Told(P!Join(a))'
  <2>1. StateComes(a)'
    BY <1>3, <1>7, <1>11 DEF StateComes, StateShown
  <2>2. PICK j \in 1 .. Len(addrs) : addrs[j] = a
    BY <1>5 DEF Present
  <2>3. verdicts[j] = P!Join(a) /\ j \in 1 .. Len(verdicts)
    BY <1>3, <1>6, <2>2
  <2>4. Told(P!Join(a))'
    BY <1>11, <2>3
  <2> QED BY <2>1, <2>4
<1>16. toHost' # <<>>
  <2>1. Len(toHost') # 0
    BY <1>5, <1>6, <1>11, <1>12
  <2> QED BY <2>1
<1>17. Reported(t)'
  BY <1>1, <1>2, <1>7, <1>8, <1>9, <1>10, <1>14, <1>15, <1>16 DEF Reported, Running
<1> QED BY <1>7, <1>9, <1>17 DEF Alone, Phase

LEMMA AnswerIsHeard ==
  ASSUME OthersOK, NEW t \in Scanner, Alone(t), Phase(t), NEW m \in air, CoordinatorReceives(m)
  PROVE  Alone(t)' /\ Phase(t)'
<1>1. Running(t)
  BY DEF Phase, Asking, Sent, Running, Reported, Settled
<1>2. PICK a : /\ m.addr = a /\ m.kind \in {"read", "answer"}
               /\ m.kind = "answer" => a \in Present /\ m.state = light[a]
               /\ m.kind = "answer" => m = Msg("answer", a, light[a])
  <2>1. ScanMessage(m)
    BY <1>1 DEF Running
  <2> QED BY <2>1 DEF ScanMessage, Msg
<1>3. ReceiveAnswer(m)
  BY <1>2 DEF CoordinatorReceives, ReceiveAnnce, ReceiveMatched, ReceiveReport, MissMessage,
              Alone
<1>4. m = Msg("answer", a, light[a]) /\ a \in Present
  BY <1>2, <1>3 DEF ReceiveAnswer
<1>5. a \in Shelf /\ light[a] \in {0, 1} /\ Present \subseteq Shelf
  BY <1>4 DEF OthersOK, Present
<1> PICK e : e = P!StateOf(a, light[a])
  OBVIOUS
<1>6. Emit(<<e>>, FALSE)
  BY <1>2, <1>3 DEF ReceiveAnswer
<1>7. heard' = heard \cup {a} /\ air' = air \ {m}
  BY <1>1, <1>2, <1>3, <1>4 DEF ReceiveAnswer, CoordinatorReceives, Running, Present
<1>8. UNCHANGED <<nodes, inProgress, seen, at, page, alive, light, registry, toCoordinator,
                  request, scanning, asked, connected, reading, up>>
  BY <1>3 DEF CoordinatorReceives, ReceiveAnswer, OnlyCoordinator, tableVars, portVars, shelfVars
<1>9. Present' = Present
  BY <1>8 DEF Present
<1>10. e \in Table!Event
  BY <1>5, EventTypes
<1>11. <<e>> \in Seq(Table!Event) /\ Len(<<e>>) = 1 /\ <<e>>[1] = e
  BY <1>10
<1>12. /\ \A i \in 1 .. Len(toHost) : toHost'[i] = toHost[i]
       /\ toHost'[Len(toHost) + 1].event = e /\ ~toHost'[Len(toHost) + 1].ends
       /\ toHost'[Len(toHost) + 1] = [event |-> e, ends |-> FALSE]
       /\ \A i \in 1 .. Len(toHost') : i \in 1 .. Len(toHost) \/ i = Len(toHost) + 1
       /\ \A f : Told(f) => Told(f)'
       /\ Told(e)'
  <2> PICK events : events = <<e>>
    OBVIOUS
  <2>1. events \in Seq(Table!Event) /\ Len(events) = 1 /\ events[1] = e /\ Emit(events, FALSE)
    BY <1>6, <1>11
  <2>2. /\ \A i \in 1 .. Len(toHost) : toHost'[i] = toHost[i]
        /\ \A j \in 1 .. Len(events) :
             toHost'[Len(toHost) + j] = [event |-> events[j], ends |-> FALSE /\ j = Len(events)]
        /\ \A i \in 1 .. Len(toHost') :
             i \in 1 .. Len(toHost) \/ \E j \in 1 .. Len(events) : i = Len(toHost) + j
        /\ \A f : Told(f) => Told(f)'
        /\ \A j \in 1 .. Len(events) : Told(events[j])'
    BY <2>1, LinesEmitted DEF OthersOK, Alone, Heeded
  <2>3. toHost'[Len(toHost) + 1] = [event |-> e, ends |-> FALSE]
    <3>1. 1 \in 1 .. Len(events)
      BY <2>1
    <3>2. toHost'[Len(toHost) + 1] = [event |-> events[1], ends |-> FALSE /\ 1 = Len(events)]
      BY <2>2, <3>1
    <3> QED BY <2>1, <3>2
  <2>4. \A j \in 1 .. Len(events) : j = 1
    BY <2>1
  <2> QED BY <2>1, <2>2, <2>3, <2>4
<1>13. ASSUME NEW i \in 1 .. Len(toHost')
       PROVE  \E b \in Present : toHost'[i] = StateLine(b)'
  <2>1. CASE i \in 1 .. Len(toHost)
    BY <1>1, <1>8, <1>12, <2>1 DEF Running, StateLine
  <2>2. CASE i = Len(toHost) + 1
    BY <1>4, <1>8, <1>12, <2>2 DEF StateLine
  <2> QED BY <1>12, <2>1, <2>2
<1>14. ASSUME NEW b \in Present
       PROVE  \/ Msg("read", b, 0) \in air'
              \/ Msg("answer", b, light[b]) \in air'
              \/ b \in heard' /\ StateComes(b)'
  <2>1. \A c \in Present : StateComes(c) => StateComes(c)'
    BY <1>8, <1>12 DEF StateComes, StateShown
  <2>2. StateComes(a)'
    BY <1>8, <1>12 DEF StateComes
  <2>3. CASE b = a
    BY <1>7, <2>2, <2>3
  <2>4. CASE b # a
    <3>1. Msg("read", b, 0) # m /\ Msg("answer", b, light[b]) # m
      BY <1>4, <2>4 DEF Msg
    <3> QED BY <1>1, <1>7, <2>1, <3>1 DEF Running
  <2> QED BY <2>3, <2>4
<1>15. \A k \in air' : ScanMessage(k)'
  BY <1>1, <1>7, <1>8, <1>9 DEF Running, ScanMessage
<1>16. Running(t)'
  BY <1>1, <1>4, <1>7, <1>8, <1>9, <1>13, <1>14, <1>15 DEF Running
<1> QED BY <1>8, <1>16 DEF Alone, Phase

LEMMA PingIsAnswered ==
  ASSUME OthersOK, NEW t \in Scanner, Alone(t), Phase(t), NEW m \in air, ShelfReceives(m)
  PROVE  Alone(t)' /\ Phase(t)'
<1>1. Running(t)
  BY DEF Phase, Asking, Sent, Running, Reported, Settled
<1>2. ScanMessage(m)
  BY <1>1 DEF Running
<1>3. UNCHANGED <<nodes, inProgress, seen, at, page, alive, registry, toCoordinator, toHost,
                  request, scanning, asked, heard, connected, reading, up>>
  BY DEF ShelfReceives, OnlyShelf, tableVars, portVars, cableVars, knownVars, scanVars
<1>4. Present' = Present
  BY <1>3 DEF Present
<1>5. PICK a \in registry : m.addr = a /\ m.kind \in {"read", "answer"}
                            /\ (m.kind = "read" => m = Msg("read", a, 0))
  BY <1>2 DEF ScanMessage, Msg, Present
<1>6. /\ m = Msg("read", a, 0) /\ light' = light
      /\ \/ a \in alive /\ air' = (air \ {m}) \cup {Msg("answer", a, light[a])}
         \/ a \notin alive /\ air' = air \ {m}
  BY <1>5 DEF ShelfReceives, ReceiveOnOff, ReceiveRead, ReceiveMatch, ReachNobody
<1>7. \A k \in air' : ScanMessage(k)'
  BY <1>1, <1>3, <1>4, <1>6 DEF Running, ScanMessage, Present
<1>8. \A b : (StateComes(b)' <=> StateComes(b)) /\ StateLine(b)' = StateLine(b)
  BY <1>3, <1>6 DEF StateComes, StateShown, StateLine, Told
<1>9. ASSUME NEW b \in Present
      PROVE  \/ Msg("read", b, 0) \in air'
             \/ Msg("answer", b, light[b]) \in air'
             \/ b \in heard /\ StateComes(b)
  <2>1. CASE b = a
    BY <1>6, <2>1 DEF Present
  <2>2. CASE b # a
    <3>1. Msg("read", b, 0) # m /\ Msg("answer", b, light[b]) # m
      BY <1>6, <2>2 DEF Msg
    <3> QED BY <1>1, <1>6, <3>1 DEF Running
  <2> QED BY <2>1, <2>2
<1>10. Running(t)'
  BY <1>1, <1>3, <1>4, <1>6, <1>7, <1>8, <1>9 DEF Running
<1> QED BY <1>3, <1>10 DEF Alone, Phase

-----------------------------------------------------------------------------
(* The reader thread.                                                      *)

(* A true line: what it says of the state is then in the table, and what   *)
(* was there stays, whoever it is about.                                   *)
LEMMA TrueLineApplied ==
  ASSUME Table!TypeOK, OthersOK, inProgress, seen \subseteq Present,
         \A a \in seen : a \in DOMAIN nodes /\ nodes[a].online,
         NEW e, e = Head(toHost).event, TrueEvent(e), ReadLine
  PROVE  /\ \A b \in Present : StateComes(b) => StateComes(b)'
         /\ seen' \subseteq Present
         /\ \A b \in seen' : b \in DOMAIN nodes' /\ nodes'[b].online
         /\ \A b \in Present : Told(P!Join(b)) \/ b \in seen => Told(P!Join(b))' \/ b \in seen'
         /\ \A a \in Present : e = P!StateOf(a, light[a]) => seen' = seen
         /\ UNCHANGED <<inProgress, at>>
<1>1. Table!ApplyEvent(e) /\ toHost \in Seq(EventLine) /\ toHost # <<>> /\ toHost' = Tail(toHost)
      /\ UNCHANGED <<light, alive, registry>>
  BY DEF ReadLine, HandleLine, OthersOK, knownVars, shelfVars
<1>2. \A f : Told(f) => f = e \/ Told(f)'
  BY <1>1, LineRead
<1>3. \A b \in DOMAIN nodes : nodes[b] \in [state : {0, 1}, online : BOOLEAN]
  BY DEF Table!TypeOK, Table!Known
<1>4. ASSUME NEW a \in Present, e = P!StateOf(a, light[a])
      PROVE  /\ \A b \in Present : StateComes(b) => StateComes(b)'
             /\ seen' = seen
             /\ \A b \in seen : b \in DOMAIN nodes' /\ nodes'[b].online
             /\ \A b \in Present : Told(P!Join(b)) => Told(P!Join(b))'
             /\ UNCHANGED <<inProgress, at>>
  <2>1. Table!StateReported(a, light[a])
    BY <1>1, <1>4, EventApplied
  <2>2. Table!Put(a, [state |-> light[a], online |-> TRUE])
    BY <2>1 DEF Table!StateReported
  <2>3. /\ DOMAIN nodes' = DOMAIN nodes \cup {a}
        /\ nodes'[a] = [state |-> light[a], online |-> TRUE]
        /\ \A b \in DOMAIN nodes : b # a => nodes'[b] = nodes[b]
    BY <2>2, EntryPut
  <2>4. \A b \in Present : StateShown(b) => StateShown(b)'
    BY <1>1, <2>3 DEF StateShown
  <2>5. StateShown(a)'
    BY <1>1, <2>3 DEF StateShown
  <2>6. \A b : P!StateOf(b, light[b]) = e => b = a
    BY <1>4 DEF P!StateOf
  <2>7. ASSUME NEW b \in Present, StateComes(b) PROVE StateComes(b)'
    <3>1. CASE StateShown(b)
      BY <2>4, <3>1 DEF StateComes
    <3>2. CASE Told(P!StateOf(b, light[b]))
      <4> PICK f : f = P!StateOf(b, light[b])
        OBVIOUS
      <4>1. f = e \/ Told(f)'
        BY <1>2, <3>2
      <4>2. CASE f = e
        BY <2>5, <2>6, <4>2 DEF StateComes
      <4>3. CASE Told(f)'
        BY <1>1, <4>3 DEF StateComes
      <4> QED BY <4>1, <4>2, <4>3
    <3> QED BY <2>7, <3>1, <3>2 DEF StateComes
  <2>8. \A b : P!Join(b) # e
    BY <1>4 DEF P!StateOf, P!Join
  <2>9. UNCHANGED <<inProgress, at, seen>>
    BY <2>1 DEF Table!StateReported
  <2>10. \A b \in seen : b \in DOMAIN nodes' /\ nodes'[b].online
    BY <2>3
  <2> QED BY <1>2, <2>7, <2>8, <2>9, <2>10
<1>5. ASSUME NEW a \in Present, e = P!Join(a)
      PROVE  /\ \A b \in Present : StateComes(b) => StateComes(b)'
             /\ seen' = seen \cup {a}
             /\ \A b \in seen' : b \in DOMAIN nodes' /\ nodes'[b].online
             /\ \A b \in Present : Told(P!Join(b)) => b = a \/ Told(P!Join(b))'
             /\ UNCHANGED <<inProgress, at>>
  <2>1. Table!Joined(a)
    BY <1>1, <1>5, EventApplied
  <2>2. /\ Table!Put(a, [state |-> IF a \in DOMAIN nodes THEN nodes[a].state ELSE 0,
                         online |-> TRUE])
        /\ seen' = seen \cup {a}
        /\ UNCHANGED <<inProgress, at>>
    BY <2>1 DEF Table!Joined, Table!Known
  <2>3. /\ DOMAIN nodes' = DOMAIN nodes \cup {a}
        /\ nodes'[a] = [state |-> IF a \in DOMAIN nodes THEN nodes[a].state ELSE 0,
                        online |-> TRUE]
        /\ \A b \in DOMAIN nodes : b # a => nodes'[b] = nodes[b]
    BY <2>2, EntryPut
  <2>4. nodes'[a].online /\ (a \in DOMAIN nodes => nodes'[a].state = nodes[a].state)
    BY <2>3
  <2>5. \A b \in Present : StateShown(b) => StateShown(b)'
    BY <1>1, <2>3, <2>4 DEF StateShown
  <2>6. \A b : P!StateOf(b, light[b]) # e
    BY <1>5 DEF P!StateOf, P!Join
  <2>7. ASSUME NEW b \in Present, StateComes(b) PROVE StateComes(b)'
    <3> PICK f : f = P!StateOf(b, light[b])
      OBVIOUS
    <3>1. Told(f) => Told(f)'
      BY <1>2, <2>6
    <3> QED BY <1>1, <2>5, <2>7, <3>1 DEF StateComes
  <2>8. \A b : P!Join(b) = e => b = a
    BY <1>5 DEF P!Join
  <2>9. \A b \in Present : Told(P!Join(b)) => b = a \/ Told(P!Join(b))'
    BY <1>2, <2>8
  <2>10. \A b \in seen' : b \in DOMAIN nodes' /\ nodes'[b].online
    BY <2>2, <2>3, <2>4
  <2> QED BY <2>2, <2>7, <2>9, <2>10
<1>6. ASSUME NEW a \in Shelf \ Present, e = P!Leave(a)
      PROVE  /\ \A b \in Present : StateComes(b) => StateComes(b)'
             /\ seen' = seen
             /\ \A b \in seen : b \in DOMAIN nodes' /\ nodes'[b].online
             /\ \A b \in Present : Told(P!Join(b)) => Told(P!Join(b))'
             /\ UNCHANGED <<inProgress, at>>
  <2>1. Table!Left(a)
    BY <1>1, <1>6, EventApplied
  <2>2. /\ DOMAIN nodes' = DOMAIN nodes
        /\ \A b \in DOMAIN nodes : b # a => nodes'[b] = nodes[b]
    <3>1. CASE a \in DOMAIN nodes
      <4> PICK entry : entry = [nodes[a] EXCEPT !.online = FALSE]
        OBVIOUS
      <4>1. Table!Put(a, entry)
        BY <2>1, <3>1 DEF Table!Left, Table!Known
      <4>2. /\ DOMAIN nodes' = DOMAIN nodes \cup {a}
            /\ \A b \in DOMAIN nodes : b # a => nodes'[b] = nodes[b]
        BY <4>1, EntryPut
      <4> QED BY <3>1, <4>2
    <3>2. CASE a \notin DOMAIN nodes
      BY <2>1, <3>2 DEF Table!Left, Table!Known
    <3> QED BY <3>1, <3>2
  <2>3. UNCHANGED <<inProgress, at, seen>>
    BY <2>1 DEF Table!Left
  <2>4. \A b \in Present : StateShown(b) => StateShown(b)'
    BY <1>1, <2>2 DEF StateShown
  <2>5. \A b : P!StateOf(b, light[b]) # e /\ P!Join(b) # e
    BY <1>6 DEF P!StateOf, P!Join, P!Leave
  <2>6. ASSUME NEW b \in Present, StateComes(b) PROVE StateComes(b)'
    <3> PICK f : f = P!StateOf(b, light[b])
      OBVIOUS
    <3>1. Told(f) => Told(f)'
      BY <1>2, <2>5
    <3> QED BY <1>1, <2>4, <2>6, <3>1 DEF StateComes
  <2>7. \A b \in seen : b \in DOMAIN nodes' /\ nodes'[b].online
    BY <2>2
  <2> QED BY <1>2, <2>3, <2>5, <2>6, <2>7
<1>7. \/ \E a \in Present : e = P!StateOf(a, light[a])
      \/ \E a \in Present : e = P!Join(a)
      \/ \E a \in Shelf \ Present : e = P!Leave(a)
  BY DEF TrueEvent
<1>8. \A a, b : P!StateOf(a, light[a]) # P!Join(b) /\ P!StateOf(a, light[a]) # P!Leave(b)
  BY DEF P!StateOf, P!Join, P!Leave
<1> QED BY <1>4, <1>5, <1>6, <1>7, <1>8

LEMMA LineIsRead ==
  ASSUME Table!TypeOK, OthersOK, NEW t \in Scanner, Alone(t), Phase(t), ReadLine
  PROVE  Alone(t)' /\ Phase(t)'
<1>1. toHost \in Seq(EventLine) /\ toHost # <<>> /\ toHost' = Tail(toHost)
  BY DEF ReadLine, HandleLine, OthersOK
<1>2. UNCHANGED <<page, toCoordinator, registry, scanning, asked, heard, air, alive, light,
                  connected, reading, up>>
  BY DEF ReadLine, HandleLine, portVars, knownVars, scanVars, shelfVars
<1>3. Present' = Present /\ \A a : StateLine(a)' = StateLine(a)
  BY <1>2 DEF Present, StateLine
<1>4. Len(toHost) \in Nat \ {0} /\ Head(toHost) = toHost[1] /\ 1 \in 1 .. Len(toHost)
      /\ Len(toHost') = Len(toHost) - 1
      /\ \A i \in 1 .. Len(toHost') : i + 1 \in 1 .. Len(toHost) /\ toHost'[i] = toHost[i + 1]
      /\ (toHost' = <<>> <=> Len(toHost) = 1)
  BY <1>1, LineRead
<1> PICK e : e = Head(toHost).event
  OBVIOUS
<1>5. Running(t) \/ Reported(t)
  BY <1>1 DEF Phase, Asking, Sent, Settled
<1>6. CASE Running(t)
  <2>1. PICK a \in Present : Head(toHost) = StateLine(a)
    BY <1>4, <1>6 DEF Running
  <2>2. e = P!StateOf(a, light[a]) /\ ~Head(toHost).ends
    BY <2>1 DEF StateLine
  <2>3. TrueEvent(e) /\ seen = {} /\ inProgress
    BY <1>6, <2>2 DEF TrueEvent, Running
  <2>4. request' = request
    BY <2>2 DEF ReadLine, HandleLine, OthersOK
  <2>5. /\ \A b \in Present : StateComes(b) => StateComes(b)'
        /\ seen' = {}
        /\ UNCHANGED <<inProgress, at>>
    BY <2>2, <2>3, TrueLineApplied
  <2>6. \A i \in 1 .. Len(toHost') : \E b \in Present' : toHost'[i] = StateLine(b)'
    BY <1>3, <1>4, <1>6 DEF Running
  <2>7. \A m \in air' : ScanMessage(m)'
    BY <1>2, <1>3, <1>6 DEF Running, ScanMessage
  <2>8. Running(t)'
    BY <1>2, <1>3, <1>6, <2>4, <2>5, <2>6, <2>7 DEF Running
  <2> QED BY <1>2, <2>4, <2>5, <2>8 DEF Alone, Phase
<1>7. CASE Reported(t)
  <2>1. /\ \A i \in 1 .. Len(toHost) : /\ toHost[i].ends <=> i = Len(toHost)
                                       /\ TrueEvent(toHost[i].event)
        /\ seen \subseteq Present /\ inProgress
        /\ \A a \in seen : a \in DOMAIN nodes /\ nodes[a].online
        /\ \A a \in Present : StateComes(a) /\ (Told(P!Join(a)) \/ a \in seen)
    BY <1>7 DEF Reported
  <2>2. TrueEvent(e)
    BY <1>4, <2>1
  <2>3. /\ \A b \in Present : StateComes(b)'
        /\ seen' \subseteq Present
        /\ \A b \in seen' : b \in DOMAIN nodes' /\ nodes'[b].online
        /\ \A b \in Present : Told(P!Join(b))' \/ b \in seen'
        /\ UNCHANGED <<inProgress, at>>
    BY <2>1, <2>2, TrueLineApplied
  <2>4. \A u \in Scanner \ {t} : request'[u] = "none"
    BY DEF ReadLine, HandleLine, Alone
  <2>5. CASE Len(toHost) = 1
    <3>1. toHost' = <<>> /\ Head(toHost).ends
      BY <1>4, <2>1, <2>5
    <3>2. request'[t] = "none"
      BY <1>7, <3>1 DEF ReadLine, HandleLine, Reported
    <3>3. \A f : ~Told(f)'
      BY <3>1 DEF Told
    <3>4. \A b \in Present : StateShown(b)' /\ b \in seen'
      BY <2>3, <3>3 DEF StateComes
    <3>5. Settled(t)'
      BY <1>2, <1>3, <1>7, <2>1, <2>3, <3>1, <3>2, <3>4 DEF Settled, Reported
    <3> QED BY <1>2, <2>3, <2>4, <3>5 DEF Alone, Phase
  <2>6. CASE Len(toHost) # 1
    <3>1. toHost' # <<>> /\ ~Head(toHost).ends
      BY <1>4, <2>1, <2>6
    <3>2. request' = request
      BY <3>1 DEF ReadLine, HandleLine, OthersOK
    <3>3. ASSUME NEW i \in 1 .. Len(toHost')
          PROVE  (toHost[i].ends <=> i = Len(toHost))' /\ TrueEvent(toHost[i].event)'
      <4>1. i + 1 \in 1 .. Len(toHost) /\ toHost'[i] = toHost[i + 1]
        BY <1>4
      <4>2. toHost[i + 1].ends <=> i + 1 = Len(toHost)
        BY <2>1, <4>1
      <4>3. i + 1 = Len(toHost) <=> i = Len(toHost')
        BY <1>4
      <4> PICK event : event = toHost[i + 1].event
        OBVIOUS
      <4>4. TrueEvent(event)
        BY <2>1, <4>1
      <4>5. TrueEvent(event)'
        BY <1>2, <1>3, <4>4 DEF TrueEvent
      <4> QED BY <4>1, <4>2, <4>3, <4>5
    <3>4. Reported(t)'
      BY <1>2, <1>3, <1>7, <2>1, <2>3, <3>1, <3>2, <3>3 DEF Reported
    <3> QED BY <1>2, <2>3, <3>2, <3>4 DEF Alone, Phase
  <2> QED BY <2>5, <2>6
<1> QED BY <1>5, <1>6, <1>7

-----------------------------------------------------------------------------
LEMMA ScanBegins ==
  ASSUME OthersOK, NEW t \in Scanner, at \in [Scanner -> Places], AtRest, BeginScan(t)
  PROVE  Alone(t)' /\ Phase(t)'
<1>1. /\ inProgress' /\ seen' = {}
      /\ at'[t] = "ask" /\ \A u \in Scanner \ {t} : at'[u] = at[u]
  BY DEF BeginScan, Table!Begin, Table!Goto
<1>2. UNCHANGED <<page, toCoordinator, toHost, request, registry, scanning, air,
                  connected, reading, up>>
  BY DEF BeginScan, OnlyTable, portVars, cableVars, knownVars, scanVars
<1>3. Asking(t)'
  BY <1>1, <1>2 DEF Asking, AtRest
<1> QED BY <1>1, <1>2, <1>3 DEF Alone, AtRest, Heeded, Phase

(* Other threads have nothing to do.                                       *)
LEMMA ScanGoesOn ==
  ASSUME Table!TypeOK, OthersOK, Punctual, NEW t \in Scanner, Alone(t), Phase(t), GoOn
  PROVE  Alone(t)' /\ Phase(t)'
<1>1. at \in [Scanner -> Places]
  BY DEF Table!TypeOK, Places
<1>2. ASSUME NEW u \in Scanner, ScanStep(u)
      PROVE  Alone(t)' /\ Phase(t)'
  <2>1. u = t
    <3>1. at[u] \in {"ask", "wait", "sweep", "mark"}
      BY <1>2, Zenon DEF ScanStep, AskScan, WaitOver, SweepStep, Table!Ask, Table!Finalize,
           Table!Visit, Table!MarkOffline, Table!SweepOver, Table!TableGrew
    <3> QED BY <3>1 DEF Alone
  <2> QED BY <1>1, <1>2, <2>1, AsksThenSent, WaitIsOver, Sweeps DEF ScanStep
<1> QED BY <1>2, NothingElseIsAsked, LineIsRead, SentThenRunning, RunningThenReported,
           AnswerIsHeard, PingIsAnswered DEF GoOn

(* Watching changes nothing.                                               *)
LEMMA WatchedSteps ==
  /\ WatchedInit => Init
  /\ [WatchedNext]_watchedVars => [Next]_vars
<1>1. GoOn => Next
  BY DEF GoOn, Next, Bridge, Coordinator, Shelves
<1>2. Disturb => Next
  BY DEF Disturb, Next, Bridge, Coordinator, Shelves
<1>3. ASSUME NEW t \in Scanner, BeginScan(t) PROVE Next
  BY <1>3 DEF Next, Bridge
<1> QED BY <1>1, <1>2, <1>3 DEF WatchedInit, WatchedNext, watchedVars

LEMMA WatchedTyped == WatchedSpec => [](Table!TypeOK /\ OthersOK)
<1>1. TypeOK => Table!TypeOK /\ OthersOK
  BY TypeParts DEF TypeOK
<1>2. WatchedSpec => Spec
  BY WatchedSteps, PTL DEF WatchedSpec, Spec
<1> QED BY <1>1, <1>2, Typing, PTL

LEMMA CalmScan ==
  ASSUME Punctual
  PROVE  WatchedSpec => []CalmInv
<1>1. WatchedInit => CalmInv
  BY DEF WatchedInit, CalmInv
<1>2. ASSUME Table!TypeOK, OthersOK, CalmInv, [WatchedNext]_watchedVars
      PROVE  CalmInv'
  <2>1. ASSUME NEW t \in Scanner, BeginScan(t), calm' = IF AtRest THEN {t} ELSE {}
        PROVE  CalmInv'
    <3>1. at \in [Scanner -> Places]
      BY <1>2 DEF Table!TypeOK, Places
    <3> QED BY <1>2, <2>1, <3>1, ScanBegins DEF CalmInv
  <2>2. CASE GoOn /\ UNCHANGED calm
    BY <1>2, <2>2, ScanGoesOn DEF CalmInv
  <2>3. CASE Disturb /\ calm' = {}
    BY <2>3 DEF CalmInv
  <2>4. CASE UNCHANGED watchedVars
    BY <1>2, <2>4 DEF CalmInv, Alone, Phase, Asking, Sent, Running, Reported, Settled, Present,
         StateComes, StateShown, StateLine, ScanMessage, TrueEvent, Told, watchedVars, vars,
         tableVars, portVars, cableVars, knownVars, scanVars, shelfVars
  <2> QED BY <1>2, <2>1, <2>2, <2>3, <2>4 DEF WatchedNext
<1> QED BY <1>1, <1>2, WatchedTyped, PTL DEF WatchedSpec

(* For every set of shelves, every number of scanning threads and every    *)
(* state that losses, overlaps and restarts have left the table in: the    *)
(* first scan that begins at rest and is not disturbed makes the table     *)
(* true.  Punctual is what the two deadlines of the code rely on.          *)
THEOREM QuietScanRepairsTable ==
  ASSUME Punctual
  PROVE  WatchedSpec => []QuietScanTellsTruth
<1>1. ASSUME CalmInv, NEW t \in calm, at[t] = "idle"
      PROVE  TableIsTrue
  <2>1. Settled(t)
    BY <1>1 DEF CalmInv, Phase, Asking, Sent, Running, Reported
  <2> QED BY <1>1, <2>1 DEF Settled, TableIsTrue, StateShown
<1>2. CalmInv => QuietScanTellsTruth
  BY <1>1 DEF QuietScanTellsTruth
<1> QED BY <1>2, CalmScan, PTL
=============================================================================
