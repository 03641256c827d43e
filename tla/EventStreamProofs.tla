------------------------- MODULE EventStreamProofs -------------------------
(* No change of the table is missed by the page, and one that is made      *)
(* when nothing is under way is what the page shows.                       *)
EXTENDS EventStream, TLAPS

(* What is on its way has a form.                                          *)
Shape ==
  /\ version \in Nat
  /\ at \in [Publisher -> {"idle", "changed", "publish"}]
  /\ payload \in [Publisher -> Nat]
  /\ calls \in Seq([to : Nat, data : Nat])
  /\ connection \in Nat
  /\ queue \in Seq(Nat)
  /\ wire \in Seq(Nat)
  /\ answer \in Seq(Nat)

InCalls == \E i \in 1 .. Len(calls) : calls[i] = [to |-> connection, data |-> version]
InQueue == \E i \in 1 .. Len(queue) : queue[i] = version
OnWire  == \E i \in 1 .. Len(wire) : wire[i] = version

(* After a change at rest, nothing but its snapshot is under way.          *)
Newest ==
  afterRest =>
  /\ \A t \in Publisher : at[t] = "publish" => payload[t] = version
  /\ calls \in Seq([to : Nat, data : {version}])
  /\ queue \in Seq({version})
  /\ wire \in Seq({version})
  /\ answer \in Seq({version})

Arrived == version \in everShown /\ (afterRest => shown = version)

(* While the page has a stream, the newest snapshot is somewhere on its    *)
(* way to it, or has arrived.                                              *)
UnderWay ==
  \/ link = "first"
  \/ \E t \in Publisher : at[t] = "changed"
  \/ \E t \in Publisher : at[t] = "publish" /\ payload[t] = version
  \/ InCalls \/ InQueue \/ OnWire
  \/ Arrived

Inv == Shape /\ (Subscribed => UnderWay)

LEMMA TailPlaces ==
  ASSUME NEW S, NEW s \in Seq(S), s # <<>>
  PROVE  /\ Tail(s) \in Seq(S) /\ Head(s) = s[1] /\ Head(s) \in S
         /\ \A i \in 1 .. Len(s) : i = 1 \/ (i - 1 \in 1 .. Len(Tail(s)) /\ Tail(s)[i - 1] = s[i])
OBVIOUS

LEMMA AppendPlaces ==
  ASSUME NEW S, NEW s \in Seq(S), NEW e \in S
  PROVE  /\ Append(s, e) \in Seq(S)
         /\ \A i \in 1 .. Len(s) : i \in 1 .. Len(Append(s, e)) /\ Append(s, e)[i] = s[i]
         /\ Len(s) + 1 \in 1 .. Len(Append(s, e)) /\ Append(s, e)[Len(s) + 1] = e
OBVIOUS

LEMMA InitInv == Init => Inv
<1> SUFFICES ASSUME Init PROVE Inv
  OBVIOUS
<1>1. Shape
  BY DEF Init, Shape
<1>2. ~Subscribed
  BY DEF Init, Subscribed
<1> QED BY <1>1, <1>2 DEF Inv

LEMMA PublisherKeeps ==
  ASSUME Inv, NEW t \in Publisher, Change(t) \/ Snapshot(t) \/ HandOver(t)
  PROVE  Inv'
<1> USE DEF Inv, Goto, streamVars, pageVars
<1>1. CASE Change(t)
  <2>1. Shape'
    BY <1>1 DEF Change, Shape
  <2>2. at'[t] = "changed"
    BY <1>1 DEF Change, Shape
  <2> QED BY <2>1, <2>2 DEF UnderWay, Arrived
<1>2. CASE Snapshot(t)
  <2>1. Shape'
    BY <1>2 DEF Snapshot, Shape
  <2>2. at'[t] = "publish" /\ payload'[t] = version'
    BY <1>2 DEF Snapshot, Shape
  <2> QED BY <2>1, <2>2 DEF UnderWay, Arrived
<1>3. CASE HandOver(t)
  <2>1. CASE ~Subscribed
    <3>1. Shape' /\ ~Subscribed'
      BY <1>3, <2>1 DEF HandOver, Shape, Subscribed
    <3> QED BY <3>1
  <2>2. CASE Subscribed
    <3> DEFINE call == [to |-> connection, data |-> payload[t]]
    <3>1. call \in [to : Nat, data : Nat]
      BY DEF Shape
    <3>2. calls' = Append(calls, call)
      BY <1>3, <2>2 DEF HandOver
    <3>3. /\ calls' \in Seq([to : Nat, data : Nat])
          /\ \A i \in 1 .. Len(calls) : i \in 1 .. Len(calls') /\ calls'[i] = calls[i]
          /\ Len(calls) + 1 \in 1 .. Len(calls') /\ calls'[Len(calls) + 1] = call
      BY <3>1, <3>2, AppendPlaces DEF Shape
    <3>4. Shape'
      BY <1>3, <3>3 DEF HandOver, Shape
    <3> HIDE DEF call
    <3>5. InCalls => InCalls'
      BY <1>3, <3>3 DEF InCalls, HandOver
    <3>6. payload[t] = version => InCalls'
      BY <1>3, <3>3 DEF InCalls, HandOver, call
    <3>7. \A u \in Publisher \ {t} : at'[u] = at[u]
      BY <1>3 DEF HandOver, Shape
    <3>8. at[t] = "publish"
      BY <1>3 DEF HandOver
    <3>9. UnderWay'
      BY <1>3, <2>2, <3>5, <3>6, <3>7, <3>8 DEF UnderWay, Arrived, HandOver, InQueue, OnWire
    <3> QED BY <3>4, <3>9
  <2> QED BY <2>1, <2>2
<1> QED BY <1>1, <1>2, <1>3

(* Steps that move nothing but what they name.                             *)
LEMMA LoopKeeps ==
  ASSUME Inv, RunCall \/ Subscribe \/ FirstEvent \/ NextEvent \/ AnswerScan
  PROVE  Inv'
<1> USE DEF Inv, publisherVars, streamVars, pageVars
<1>1. CASE RunCall
  <2>1. /\ calls \in Seq([to : Nat, data : Nat]) /\ calls # <<>>
        /\ calls' = Tail(calls) /\ queue \in Seq(Nat)
    BY <1>1 DEF RunCall, Shape
  <2>2. /\ calls' \in Seq([to : Nat, data : Nat]) /\ Head(calls) = calls[1]
        /\ Head(calls) \in [to : Nat, data : Nat]
        /\ \A i \in 1 .. Len(calls) : i = 1 \/ (i - 1 \in 1 .. Len(calls') /\ calls'[i - 1] = calls[i])
    BY <2>1, TailPlaces
  <2>3. CASE Subscribed /\ Head(calls).to = connection
    <3> DEFINE data == Head(calls).data
    <3>1. data \in Nat
      BY <2>2
    <3>2. queue' = Append(queue, data)
      BY <1>1, <2>3 DEF RunCall
    <3> HIDE DEF data
    <3>3. /\ queue' \in Seq(Nat)
          /\ \A i \in 1 .. Len(queue) : i \in 1 .. Len(queue') /\ queue'[i] = queue[i]
          /\ Len(queue) + 1 \in 1 .. Len(queue') /\ queue'[Len(queue) + 1] = data
      BY <2>1, <3>1, <3>2, AppendPlaces
    <3>4. Shape'
      BY <1>1, <2>2, <3>3 DEF RunCall, Shape
    <3>5. InQueue => InQueue'
      BY <1>1, <3>3 DEF RunCall, InQueue
    <3>6. InCalls => InCalls' \/ InQueue'
      <4> SUFFICES ASSUME NEW i \in 1 .. Len(calls),
                          calls[i] = [to |-> connection, data |-> version]
                   PROVE  InCalls' \/ InQueue'
        BY DEF InCalls
      <4>1. CASE i = 1
        <5>1. data = version
          BY <2>2, <4>1 DEF data
        <5> QED BY <1>1, <3>3, <5>1 DEF RunCall, InQueue
      <4>2. CASE i # 1
        BY <1>1, <2>2, <4>2 DEF RunCall, InCalls
      <4> QED BY <4>1, <4>2
    <3>7. UnderWay'
      BY <1>1, <2>3, <3>5, <3>6 DEF RunCall, UnderWay, Arrived, OnWire
    <3> QED BY <3>4, <3>7
  <2>4. CASE ~(Subscribed /\ Head(calls).to = connection)
    <3>1. queue' = queue
      BY <1>1, <2>4 DEF RunCall
    <3>2. Shape'
      BY <1>1, <2>2, <3>1 DEF RunCall, Shape
    <3>3. Subscribed /\ InCalls => InCalls'
      <4> SUFFICES ASSUME Subscribed, NEW i \in 1 .. Len(calls),
                          calls[i] = [to |-> connection, data |-> version]
                   PROVE  InCalls'
        BY DEF InCalls
      <4>1. i # 1
        BY <2>2, <2>4
      <4> QED BY <1>1, <2>2, <4>1 DEF RunCall, InCalls
    <3>4. Subscribed' = Subscribed
      BY <1>1 DEF RunCall, Subscribed
    <3>5. Subscribed => UnderWay'
      BY <1>1, <3>1, <3>3 DEF RunCall, UnderWay, Arrived, InQueue, OnWire
    <3> QED BY <3>2, <3>4, <3>5
  <2> QED BY <2>3, <2>4
<1>2. CASE Subscribe
  <2>1. Shape'
    BY <1>2 DEF Subscribe, Shape
  <2> QED BY <1>2, <2>1 DEF Subscribe, UnderWay
<1>3. CASE FirstEvent
  <2>1. /\ wire' \in Seq(Nat)
        /\ Len(wire) + 1 \in 1 .. Len(wire') /\ wire'[Len(wire) + 1] = version
    BY <1>3, AppendPlaces DEF FirstEvent, Shape
  <2>2. Shape'
    BY <1>3, <2>1 DEF FirstEvent, Shape
  <2>3. OnWire'
    BY <1>3, <2>1 DEF FirstEvent, OnWire
  <2> QED BY <2>2, <2>3 DEF UnderWay, Arrived
<1>4. CASE NextEvent
  <2>1. /\ queue \in Seq(Nat) /\ queue # <<>> /\ queue' = Tail(queue)
        /\ wire \in Seq(Nat) /\ wire' = Append(wire, Head(queue))
    BY <1>4 DEF NextEvent, Shape
  <2>2. /\ queue' \in Seq(Nat) /\ Head(queue) = queue[1] /\ Head(queue) \in Nat
        /\ \A i \in 1 .. Len(queue) : i = 1 \/ (i - 1 \in 1 .. Len(queue') /\ queue'[i - 1] = queue[i])
    BY <2>1, TailPlaces
  <2>3. /\ wire' \in Seq(Nat)
        /\ \A i \in 1 .. Len(wire) : i \in 1 .. Len(wire') /\ wire'[i] = wire[i]
        /\ Len(wire) + 1 \in 1 .. Len(wire') /\ wire'[Len(wire) + 1] = queue[1]
    BY <2>1, <2>2, AppendPlaces
  <2>4. Shape'
    BY <1>4, <2>2, <2>3 DEF NextEvent, Shape
  <2>5. OnWire => OnWire'
    BY <1>4, <2>3 DEF NextEvent, OnWire
  <2>6. InQueue => InQueue' \/ OnWire'
    <3> SUFFICES ASSUME NEW i \in 1 .. Len(queue), queue[i] = version
                 PROVE  InQueue' \/ OnWire'
      BY DEF InQueue
    <3>1. CASE i = 1
      BY <1>4, <2>3, <3>1 DEF NextEvent, OnWire
    <3>2. CASE i # 1
      BY <1>4, <2>2, <3>2 DEF NextEvent, InQueue
    <3> QED BY <3>1, <3>2
  <2>7. Subscribed
    BY <1>4 DEF NextEvent, Subscribed
  <2>8. UnderWay'
    BY <1>4, <2>5, <2>6, <2>7 DEF NextEvent, UnderWay, Arrived, InCalls
  <2> QED BY <2>4, <2>8
<1>5. CASE AnswerScan
  <2>1. answer' \in Seq(Nat)
    BY <1>5 DEF AnswerScan, Shape
  <2> QED BY <1>5, <2>1 DEF AnswerScan, Shape, Subscribed, UnderWay, Arrived, InCalls, InQueue, OnWire
<1> QED BY <1>1, <1>2, <1>3, <1>4, <1>5

LEMMA PageKeeps ==
  ASSUME Inv, Newest, ConnectEvents \/ OnMessage \/ ShowAnswer \/ Break
  PROVE  Inv'
<1> USE DEF Inv, publisherVars, streamVars, pageVars
<1>1. CASE ConnectEvents
  <2>1. Shape' /\ ~Subscribed'
    BY <1>1 DEF ConnectEvents, Shape, Subscribed
  <2> QED BY <2>1
<1>4. CASE Break
  <2>1. <<>> \in Seq(Nat)
    OBVIOUS
  <2>2. Shape'
    BY <1>4, <2>1 DEF Break, Shape
  <2>3. ~Subscribed'
    BY <1>4 DEF Break, Subscribed
  <2> QED BY <2>2, <2>3
<1>2. CASE OnMessage
  <2>1. wire \in Seq(Nat) /\ wire # <<>> /\ wire' = Tail(wire)
    BY <1>2 DEF OnMessage, Shape
  <2>2. /\ wire' \in Seq(Nat) /\ Head(wire) = wire[1]
        /\ \A i \in 1 .. Len(wire) : i = 1 \/ (i - 1 \in 1 .. Len(wire') /\ wire'[i - 1] = wire[i])
    BY <2>1, TailPlaces
  <2>3. Shape'
    BY <1>2, <2>2 DEF OnMessage, Shape
  <2>4. /\ everShown' = everShown \cup {wire[1]} /\ shown' = wire[1]
        /\ version' = version /\ afterRest' = afterRest
    BY <1>2, <2>2 DEF OnMessage, render
  <2>7. afterRest => wire[1] = version
    <3>1. ASSUME afterRest PROVE wire[1] \in {version}
      BY <2>1, <2>2, <3>1, TailPlaces DEF Newest
    <3> QED BY <3>1
  <2>5. OnWire => OnWire' \/ Arrived'
    <3> SUFFICES ASSUME NEW i \in 1 .. Len(wire), wire[i] = version
                 PROVE  OnWire' \/ Arrived'
      BY DEF OnWire
    <3>1. CASE i = 1
      BY <2>4, <3>1 DEF Arrived
    <3>2. CASE i # 1
      BY <2>2, <2>4, <3>2 DEF OnWire
    <3> QED BY <3>1, <3>2
  <2>6. UnderWay => UnderWay'
    BY <1>2, <2>4, <2>5, <2>7 DEF OnMessage, UnderWay, Arrived, InCalls, InQueue
  <2> QED BY <1>2, <2>3, <2>6 DEF OnMessage, Subscribed
<1>3. CASE ShowAnswer
  <2> PICK i \in 1 .. Len(answer) :
        /\ render(answer[i])
        /\ answer' = RemoveAt(answer, i)
        /\ UNCHANGED <<publisherVars, calls, streamVars, counterVars>>
    BY <1>3 DEF ShowAnswer
  <2>1. answer' \in Seq(Nat)
    <3>1. /\ SubSeq(answer, 1, i - 1) \in Seq(Nat)
          /\ SubSeq(answer, i + 1, Len(answer)) \in Seq(Nat)
      BY DEF Shape
    <3> QED BY <3>1 DEF RemoveAt
  <2>2. afterRest => answer[i] = version
    <3>1. ASSUME afterRest PROVE answer[i] \in {version}
      <4>1. answer \in Seq({version})
        BY <3>1 DEF Newest
      <4> QED BY <4>1
    <3> QED BY <3>1
  <2> QED BY <2>1, <2>2 DEF render, Shape, Subscribed, UnderWay, Arrived, InCalls, InQueue, OnWire
<1> QED BY <1>1, <1>2, <1>3, <1>4

(* Snapshots are copied from one queue into the next, and new ones show    *)
(* all changes.                                                            *)
LEMMA NewestKept ==
  ASSUME Shape, Newest, Next
  PROVE  Newest'
<1> USE DEF publisherVars, streamVars, pageVars, Goto
<1>0. ASSUME NEW t \in Publisher, Change(t) PROVE Newest'
  <2>1. ASSUME AtRest
        PROVE  /\ \A u \in Publisher : at'[u] # "publish"
               /\ calls' = <<>> /\ queue' = <<>> /\ wire' = <<>> /\ answer' = <<>>
    BY <1>0, <2>1 DEF Change, AtRest, Shape
  <2>2. \A S : <<>> \in Seq(S)
    OBVIOUS
  <2>3. afterRest' = AtRest
    BY <1>0 DEF Change
  <2> QED BY <2>1, <2>2, <2>3, Zenon DEF Newest
<1>10. (\A t \in Publisher : ~Change(t)) => afterRest' = afterRest /\ version' = version
  BY DEF Next, Snapshot, HandOver, RunCall, Subscribe, FirstEvent, NextEvent,
     AnswerScan, ConnectEvents, OnMessage, ShowAnswer, Break
<1>11. ~afterRest' => Newest'
  BY DEF Newest
<1> SUFFICES ASSUME afterRest, afterRest' = afterRest, version' = version,
                    \A t \in Publisher : ~Change(t)
             PROVE  Newest'
  <2>1. CASE \A t \in Publisher : ~Change(t)
    <3>1. CASE afterRest'
      BY <1>10, <2>1, <3>1, Zenon
    <3>2. CASE ~afterRest'
      BY <1>11, <3>2
    <3> QED BY <3>1, <3>2
  <2>2. CASE ~(\A t \in Publisher : ~Change(t))
    BY <1>0, <2>2
  <2> QED BY <2>1, <2>2
<1> DEFINE Call == [to : Nat, data : {version}]
<1>e. <<>> \in Seq({version})
  OBVIOUS
<1>f. /\ \A t \in Publisher : at[t] = "publish" => payload[t] = version
      /\ calls \in Seq(Call) /\ queue \in Seq({version})
      /\ wire \in Seq({version}) /\ answer \in Seq({version})
  BY DEF Newest
<1>1. ASSUME NEW t \in Publisher, Snapshot(t) PROVE Newest'
  BY <1>f, <1>1 DEF Snapshot, Newest, Shape
<1>2. ASSUME NEW t \in Publisher, HandOver(t) PROVE Newest'
  <2>1. \A u \in Publisher : at'[u] = "publish" => payload'[u] = version
    BY <1>f, <1>2 DEF HandOver, Shape
  <2>2. calls' \in Seq(Call)
    <3> DEFINE call == [to |-> connection, data |-> payload[t]]
    <3>1. call \in Call /\ (calls' = Append(calls, call) \/ calls' = calls)
      BY <1>f, <1>2 DEF HandOver, Shape
    <3> HIDE DEF Call, call
    <3> QED BY <1>f, <3>1, AppendPlaces
  <2> QED BY <1>2, <1>f, <2>1, <2>2 DEF HandOver, Newest
<1>3. CASE RunCall
  <2>1. calls # <<>> /\ calls' = Tail(calls)
    BY <1>3 DEF RunCall
  <2>2. calls' \in Seq(Call) /\ Head(calls) \in Call
    <3> HIDE DEF Call
    <3> QED BY <1>f, <2>1, TailPlaces
  <2>3. queue' = Append(queue, version) \/ queue' = queue
    BY <1>3, <2>2 DEF RunCall
  <2>4. queue' \in Seq({version})
    <3>1. version \in {version} /\ queue \in Seq({version})
      BY <1>f
    <3>2. Append(queue, version) \in Seq({version})
      BY <3>1, AppendPlaces
    <3> QED BY <2>3, <3>1, <3>2
  <2> QED BY <1>3, <1>f, <2>2, <2>4 DEF RunCall, Newest
<1>4. CASE Subscribe \/ ConnectEvents \/ Break
  BY <1>4, <1>e, <1>f DEF Subscribe, ConnectEvents, Break, Newest
<1>5. CASE FirstEvent
  <2>1. wire' \in Seq({version})
    BY <1>5, <1>f, AppendPlaces DEF FirstEvent
  <2> QED BY <1>5, <1>f, <2>1 DEF FirstEvent, Newest
<1>6. CASE NextEvent
  <2>1. queue' \in Seq({version}) /\ Head(queue) \in {version}
    BY <1>6, <1>f, TailPlaces DEF NextEvent
  <2>2. wire' \in Seq({version})
    BY <1>6, <1>f, <2>1, AppendPlaces DEF NextEvent
  <2> QED BY <1>6, <1>f, <2>1, <2>2 DEF NextEvent, Newest
<1>7. CASE AnswerScan
  <2>1. answer' \in Seq({version})
    BY <1>7, <1>f, AppendPlaces DEF AnswerScan
  <2> QED BY <1>7, <1>f, <2>1 DEF AnswerScan, Newest
<1>8. CASE OnMessage
  <2>1. wire' \in Seq({version})
    BY <1>8, <1>f, TailPlaces DEF OnMessage
  <2> QED BY <1>8, <1>f, <2>1 DEF OnMessage, Newest
<1>9. CASE ShowAnswer
  <2> PICK i \in 1 .. Len(answer) :
        /\ answer' = RemoveAt(answer, i)
        /\ UNCHANGED <<publisherVars, calls, streamVars, counterVars>>
    BY <1>9 DEF ShowAnswer
  <2>1. answer' \in Seq({version})
    <3>1. /\ SubSeq(answer, 1, i - 1) \in Seq({version})
          /\ SubSeq(answer, i + 1, Len(answer)) \in Seq({version})
      BY <1>f
    <3> QED BY <3>1 DEF RemoveAt
  <2> QED BY <1>f, <2>1 DEF Newest
<1> QED BY <1>1, <1>2, <1>3, <1>4, <1>5, <1>6, <1>7, <1>8, <1>9 DEF Next

LEMMA Invariance == Spec => [](Inv /\ Newest)
<1>1. Init => Newest
  BY DEF Init, Newest
<1>2. Inv /\ Newest /\ [Next]_vars => Inv' /\ Newest'
  <2> SUFFICES ASSUME Inv, Newest, [Next]_vars PROVE Inv' /\ Newest'
    OBVIOUS
  <2>1. CASE UNCHANGED vars
    BY <2>1 DEF Inv, Newest, Shape, Subscribed, UnderWay, Arrived, InCalls, InQueue, OnWire,
       vars, publisherVars, streamVars, pageVars
  <2>2. CASE Next
    <3>1. Inv'
      BY <2>2, PublisherKeeps, LoopKeeps, PageKeeps DEF Next
    <3> QED BY <2>2, <3>1, NewestKept DEF Inv
  <2> QED BY <2>1, <2>2
<1> QED BY <1>1, <1>2, InitInv, PTL DEF Spec

(* The page misses no change, for any number of threads, changes, scans    *)
(* and connections: it subscribes before the first snapshot, and each      *)
(* change is published by whoever made it.                                 *)
THEOREM MissesNothing == Spec => []NothingMissed
<1>1. Inv => NothingMissed
  BY DEF Inv, AtRest, NothingMissed, Subscribed, UnderWay, Arrived, InCalls, InQueue, OnWire
<1> QED BY <1>1, Invariance, PTL

(* Only changes that overlap leave an old snapshot on the page: a change   *)
(* made when nothing was under way is what the page shows at rest, for any *)
(* number of threads, changes, scans and connections.  So a page that is   *)
(* behind stays so until the next change at most, if that one comes alone. *)
THEOREM ShowsQuietChange == Spec => []QuietChangeIsShown
<1>1. Inv => QuietChangeIsShown
  BY DEF Inv, AtRest, QuietChangeIsShown, Subscribed, UnderWay, Arrived, InCalls, InQueue, OnWire
<1> QED BY <1>1, Invariance, PTL
=============================================================================
