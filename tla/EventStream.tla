---------------------------- MODULE EventStream ----------------------------
(***************************************************************************)
(* How the page learns of changes: _publish, subscribe and the handlers    *)
(* api_events and api_scan in src/gateway/web_app/app.py, and the page     *)
(* itself (render, refresh and connectEvents in static/index.html).        *)
(*                                                                         *)
(* Every change of the table or of the status of the port is made by some  *)
(* thread that then takes a snapshot and hands it to the event loop, which *)
(* puts it into the queue of the page.  The change, the snapshot and the   *)
(* hand-over are three actions: another thread can come in between.  The   *)
(* handlers of commands are publishers too; they run in the event loop and *)
(* keep it from everything else.                                           *)
(*                                                                         *)
(* A snapshot is the number of the changes it shows.  There is one page;   *)
(* pages do not share anything but the changes.                            *)
(***************************************************************************)
EXTENDS Naturals, Sequences, SequencesExt

CONSTANTS
  Publisher,       \* threads that change the table, "handler" among them
  MaxChanges,      \* bound: changes
  MaxRefreshes,    \* bound: answers to /api/scan
  MaxBreaks        \* bound: connections that break

VARIABLES
  version,         \* number of changes so far
  at,              \* what each publisher does next
  payload,         \* the snapshot each publisher has taken
  calls,           \* put calls the event loop has been asked to run
  connection,      \* number of the page's event stream
  link,            \* the state of this stream
  queue,           \* its asyncio.Queue
  wire,            \* events on the way to the page
  answer,          \* answers to /api/scan on the way to the page
  shown,           \* the snapshot the page shows
  everShown,       \* history: all snapshots it has shown
  afterRest,       \* history: the last change was made at rest
  refreshes, breaks                                    \* counters (bounded)

publisherVars == <<version, at, payload, afterRest>>
streamVars    == <<connection, link, queue, wire>>
pageVars      == <<shown, everShown>>
counterVars   == <<refreshes, breaks>>
vars == <<publisherVars, calls, streamVars, answer, pageVars, counterVars>>

Init ==
  /\ version = 0
  /\ at = [t \in Publisher |-> "idle"]
  /\ payload = [t \in Publisher |-> 0]
  /\ calls = <<>>
  /\ connection = 0
  /\ link = "closed"
  /\ queue = <<>>
  /\ wire = <<>>
  /\ answer = <<>>
  /\ shown = 0
  /\ everShown = {}
  /\ afterRest = FALSE
  /\ refreshes = 0 /\ breaks = 0

Goto(t, place) == at' = [at EXCEPT ![t] = place]

(* The page's queue is in _listeners.                                      *)
Subscribed == link \in {"first", "open"}

(* Everything that was published has arrived.                              *)
AtRest ==
  /\ \A t \in Publisher : at[t] = "idle"
  /\ calls = <<>> /\ queue = <<>> /\ wire = <<>> /\ answer = <<>>
  /\ link = "open"

(* No handler of a command keeps the event loop busy.                      *)
LoopFree == \A t \in Publisher : t = "handler" => at[t] = "idle"

-----------------------------------------------------------------------------
(* A publisher.                                                            *)
Change(t) ==
  /\ at[t] = "idle"
  /\ version < MaxChanges
  /\ version' = version + 1
  /\ Goto(t, "changed")
  /\ afterRest' = AtRest
  /\ UNCHANGED <<payload, calls, streamVars, answer, pageVars, counterVars>>

(* _publish: the snapshot, and then a call for each listener.              *)
Snapshot(t) ==
  /\ at[t] = "changed"
  /\ payload' = [payload EXCEPT ![t] = version]
  /\ Goto(t, "publish")
  /\ UNCHANGED <<version, afterRest, calls, streamVars, answer, pageVars, counterVars>>

HandOver(t) ==
  /\ at[t] = "publish"
  /\ Goto(t, "idle")
  /\ calls' = IF Subscribed THEN Append(calls, [to |-> connection, data |-> payload[t]])
                            ELSE calls
  /\ UNCHANGED <<version, payload, afterRest, streamVars, answer, pageVars, counterVars>>

-----------------------------------------------------------------------------
(* The event loop.                                                         *)

(* A call for a stream that has ended fills a queue that nobody reads.     *)
RunCall ==
  /\ LoopFree
  /\ calls # <<>>
  /\ calls' = Tail(calls)
  /\ queue' = IF Subscribed /\ Head(calls).to = connection
                THEN Append(queue, Head(calls).data)
                ELSE queue
  /\ UNCHANGED <<publisherVars, connection, link, wire, answer, pageVars, counterVars>>

(* api_events subscribes before the stream takes its first snapshot.       *)
Subscribe ==
  /\ LoopFree
  /\ link = "asked"
  /\ link' = "first"
  /\ connection' = connection + 1
  /\ queue' = <<>>
  /\ UNCHANGED <<publisherVars, calls, wire, answer, pageVars, counterVars>>

FirstEvent ==
  /\ LoopFree
  /\ link = "first"
  /\ link' = "open"
  /\ wire' = Append(wire, version)
  /\ UNCHANGED <<publisherVars, calls, connection, queue, answer, pageVars, counterVars>>

NextEvent ==
  /\ LoopFree
  /\ link = "open"
  /\ queue # <<>>
  /\ wire' = Append(wire, Head(queue))
  /\ queue' = Tail(queue)
  /\ UNCHANGED <<publisherVars, calls, connection, link, answer, pageVars, counterVars>>

(* The end of api_scan.                                                    *)
AnswerScan ==
  /\ LoopFree
  /\ refreshes < MaxRefreshes
  /\ refreshes' = refreshes + 1
  /\ answer' = Append(answer, version)
  /\ UNCHANGED <<publisherVars, calls, streamVars, pageVars, breaks>>

-----------------------------------------------------------------------------
(* The page.                                                               *)
render(data) ==
  /\ shown' = data
  /\ everShown' = everShown \cup {data}

ConnectEvents ==
  /\ link = "closed"
  /\ link' = "asked"
  /\ UNCHANGED <<publisherVars, calls, connection, queue, wire, answer, pageVars, counterVars>>

OnMessage ==
  /\ wire # <<>>
  /\ render(Head(wire))
  /\ wire' = Tail(wire)
  /\ UNCHANGED <<publisherVars, calls, connection, link, queue, answer, counterVars>>

(* The rest of refresh; answers do not wait for each other.                *)
ShowAnswer ==
  \E i \in 1 .. Len(answer) :
    /\ render(answer[i])
    /\ answer' = RemoveAt(answer, i)
    /\ UNCHANGED <<publisherVars, calls, streamVars, counterVars>>

(* onerror: the page closes the stream and opens another one.              *)
Break ==
  /\ link # "closed"
  /\ breaks < MaxBreaks
  /\ breaks' = breaks + 1
  /\ link' = "closed"
  /\ queue' = <<>>
  /\ wire' = <<>>
  /\ UNCHANGED <<publisherVars, calls, connection, answer, pageVars, refreshes>>

-----------------------------------------------------------------------------
Next ==
  \/ \E t \in Publisher : Change(t) \/ Snapshot(t) \/ HandOver(t)
  \/ RunCall \/ Subscribe \/ FirstEvent \/ NextEvent \/ AnswerScan
  \/ ConnectEvents \/ OnMessage \/ ShowAnswer \/ Break

Spec == Init /\ [][Next]_vars

-----------------------------------------------------------------------------
(* Properties.                                                             *)

(* No change is missed, whenever the page connects and however often its   *)
(* stream breaks: at rest, the newest snapshot has been on the page.       *)
NothingMissed == AtRest => version \in everShown

(* "Live view of Zigbee shelf nodes": at rest the page shows the newest    *)
(* snapshot.                                                               *)
PageIsCurrent == AtRest => shown = version

(* A change that was made at rest is what the page shows when it is at     *)
(* rest again, whichever refreshes and broken streams came in between, and *)
(* whatever it showed before.                                              *)
QuietChangeIsShown == AtRest /\ afterRest => shown = version
=============================================================================
