-------------------------- MODULE NodeTableProofs --------------------------
(* The table of shelves of the web bridge, whatever events and commands    *)
(* reach it.                                                               *)
EXTENDS NodeTable, TLAPS

LEMMA InitTyped == Init => TypeOK
<1> SUFFICES ASSUME Init PROVE TypeOK
  OBVIOUS
<1>1. Known = {} /\ nodes \in [Known -> [state : {0, 1}, online : BOOLEAN]]
  BY DEF Init, Known
<1>2. sweep \in [left : SUBSET Addr, keys : SUBSET Addr, target : SUBSET Addr]
  BY DEF Init, NoSweep
<1> QED BY <1>1, <1>2 DEF Init, TypeOK

(* The steps that write the table only through Put.                        *)
LEMMA PutTyped ==
  ASSUME TypeOK, NEW a \in Addr,
         NEW entry \in [state : {0, 1}, online : BOOLEAN], Put(a, entry)
  PROVE  Known' \subseteq Addr /\ nodes' \in [Known' -> [state : {0, 1}, online : BOOLEAN]]
BY DEF Put, Known, TypeOK

LEMMA ScanStepTyped ==
  ASSUME TypeOK, NEW t \in Scanner, ScanStep(t)
  PROVE  TypeOK'
<1> USE DEF TypeOK, Goto
<1>1. CASE Begin(t)
  BY <1>1 DEF Begin, Known
<1>2. CASE Ask(t)
  BY <1>2 DEF Ask, Known
<1>3. CASE AskRaises(t)
  BY <1>3 DEF AskRaises, Raise, Known
<1>4. CASE Finalize(t)
  <2>2. sweep' \in [left : SUBSET Addr, keys : SUBSET Addr, target : SUBSET Addr]
    BY <1>4 DEF Finalize, Known
  <2>3. Known' = Known
    BY <1>4 DEF Finalize, Known
  <2> QED BY <1>4, <2>2, <2>3 DEF Finalize
<1>5. CASE Visit(t)
  <2> PICK a \in sweep.left :
        IF a \in seen
          THEN sweep' = [sweep EXCEPT !.left = @ \ {a}] /\ UNCHANGED at
          ELSE /\ sweep' = [sweep EXCEPT !.left = @ \ {a}, !.target = {a}]
               /\ at' = [at EXCEPT ![t] = "mark"]
    BY <1>5 DEF Visit
  <2>1. sweep' \in [left : SUBSET Addr, keys : SUBSET Addr, target : SUBSET Addr]
    <3>1. a \in Addr /\ sweep.left \ {a} \in SUBSET Addr /\ {a} \in SUBSET Addr
      OBVIOUS
    <3>2. CASE a \in seen
      <4>1. sweep' = [sweep EXCEPT !.left = @ \ {a}]
        BY <3>2
      <4> QED BY <3>1, <4>1
    <3>3. CASE a \notin seen
      <4>1. sweep' = [sweep EXCEPT !.left = @ \ {a}, !.target = {a}]
        BY <3>3
      <4> QED BY <3>1, <4>1
    <3> QED BY <3>2, <3>3
  <2>2. at' \in [Scanner -> {"idle", "ask", "wait", "sweep", "mark", "dead"}]
    OBVIOUS
  <2>3. Known' = Known
    BY <1>5 DEF Visit, Known
  <2> QED BY <1>5, <2>1, <2>2, <2>3 DEF Visit
<1>6. CASE MarkOffline(t)
  <2>1. Known' = Known
    BY <1>6 DEF MarkOffline, Known
  <2>2. nodes' \in [Known -> [state : {0, 1}, online : BOOLEAN]]
    BY <1>6 DEF MarkOffline
  <2> QED BY <1>6, <2>1, <2>2 DEF MarkOffline
<1>7. CASE SweepOver(t)
  BY <1>7 DEF SweepOver, NoSweep, Known
<1>8. CASE TableGrew(t)
  BY <1>8 DEF TableGrew, Raise, NoSweep, Known
<1> QED BY <1>1, <1>2, <1>3, <1>4, <1>5, <1>6, <1>7, <1>8 DEF ScanStep

LEMMA EventTyped ==
  ASSUME TypeOK, NEW e \in Event, ApplyEvent(e)
  PROVE  TypeOK'
<1>1. CASE e.kind = "join"
  <2>1. Joined(e.addr)
    BY <1>1 DEF ApplyEvent
  <2>2. [state |-> IF e.addr \in Known THEN nodes[e.addr].state ELSE 0, online |-> TRUE]
          \in [state : {0, 1}, online : BOOLEAN]
    BY DEF TypeOK
  <2>3. Known' \subseteq Addr /\ nodes' \in [Known' -> [state : {0, 1}, online : BOOLEAN]]
    BY <2>1, <2>2, PutTyped DEF Joined, Event
  <2> QED BY <2>1, <2>3 DEF Joined, TypeOK, Event
<1>2. CASE e.kind = "leave"
  <2>1. Left(e.addr)
    BY <1>2 DEF ApplyEvent
  <2>2. CASE e.addr \in Known
    <3>1. [nodes[e.addr] EXCEPT !.online = FALSE] \in [state : {0, 1}, online : BOOLEAN]
      BY <2>2 DEF TypeOK
    <3>2. Known' \subseteq Addr /\ nodes' \in [Known' -> [state : {0, 1}, online : BOOLEAN]]
      BY <2>1, <2>2, <3>1, PutTyped DEF Left, Event
    <3> QED BY <2>1, <3>2 DEF Left, TypeOK
  <2>3. CASE e.addr \notin Known
    BY <2>1, <2>3 DEF Left, TypeOK, Known
  <2> QED BY <2>2, <2>3
<1>3. CASE e.kind = "state"
  <2>1. StateReported(e.addr, e.state)
    BY <1>3 DEF ApplyEvent
  <2>2. Known' \subseteq Addr /\ nodes' \in [Known' -> [state : {0, 1}, online : BOOLEAN]]
    BY <2>1, PutTyped DEF StateReported, Event
  <2> QED BY <2>1, <2>2 DEF StateReported, TypeOK
<1> QED BY <1>1, <1>2, <1>3 DEF Event

LEMMA NextTyped ==
  ASSUME TypeOK, [Next]_vars
  PROVE  TypeOK'
<1>1. CASE \E t \in Scanner : ScanStep(t)
  BY <1>1, ScanStepTyped
<1>2. CASE \E e \in Event : ApplyEvent(e)
  BY <1>2, EventTyped
<1>3. ASSUME NEW a \in Addr, NEW s \in {0, 1}, NodeStateSet(a, s)
      PROVE  TypeOK'
  <2>1. Known' \subseteq Addr /\ nodes' \in [Known' -> [state : {0, 1}, online : BOOLEAN]]
    BY <1>3, PutTyped DEF NodeStateSet, StateReported
  <2> QED BY <1>3, <2>1 DEF NodeStateSet, StateReported, TypeOK
<1>4. ASSUME NEW s \in {0, 1}, GroupStateSet(s)
      PROVE  TypeOK'
  <2>1. Known' = Known
    BY <1>4 DEF GroupStateSet, Known
  <2>2. nodes' \in [Known -> [state : {0, 1}, online : BOOLEAN]]
    BY <1>4 DEF GroupStateSet, TypeOK
  <2> QED BY <1>4, <2>1, <2>2 DEF GroupStateSet, TypeOK
<1>5. CASE UNCHANGED vars
  BY <1>5 DEF vars, TypeOK, Known
<1> QED BY <1>1, <1>2, <1>3, <1>4, <1>5 DEF Next

(* The type invariant, for every set of addresses.                         *)
THEOREM Typing == Spec => []TypeOK
<1>1. TypeOK /\ [Next]_vars => TypeOK'
  BY NextTyped
<1> QED BY <1>1, InitTyped, PTL DEF Spec

-----------------------------------------------------------------------------
(* Why the set a thread sweeps by holds whom it heard, however many scan:  *)
(* while a scan is in progress nobody is in a sweep, whoever waits finds   *)
(* what it heard in the set, because resetting the set resets what all of  *)
(* them heard; and a sweep begins with the end of the scan in progress.    *)
Sweeping(t) == at[t] \in {"sweep", "mark"}
Waiting(t)  == at[t] \in {"ask", "wait"}

HeardIsSeen ==
  /\ \A t \in Scanner : inProgress /\ Waiting(t) => heardBy[t] \subseteq seen
  /\ \A t \in Scanner : Sweeping(t) => ~inProgress /\ heardBy[t] \subseteq seen
  /\ \A t \in Scanner : at[t] = "mark" => sweep.target \cap seen = {}
  /\ \A t, u \in Scanner : Sweeping(t) /\ Sweeping(u) => t = u

LEMMA InitHeard == Init => HeardIsSeen
  BY DEF Init, HeardIsSeen, Sweeping, Waiting

LEMMA ScanStepHeard ==
  ASSUME TypeOK, HeardIsSeen, NEW t \in Scanner, ScanStep(t)
  PROVE  HeardIsSeen'
<1> USE DEF HeardIsSeen, Sweeping, Waiting, TypeOK, Goto, LockFree
<1>1. CASE Begin(t)
  BY <1>1 DEF Begin
<1>2. CASE Ask(t)
  BY <1>2 DEF Ask
<1>3. CASE AskRaises(t)
  BY <1>3 DEF AskRaises, Raise
<1>4. CASE Finalize(t)
  <2>1. CASE inProgress
    BY <1>4, <2>1 DEF Finalize
  <2>2. CASE ~inProgress
    BY <1>4, <2>2 DEF Finalize
  <2> QED BY <2>1, <2>2
<1>5. CASE Visit(t)
  <2> PICK a \in sweep.left :
        IF a \in seen
          THEN sweep' = [sweep EXCEPT !.left = @ \ {a}] /\ UNCHANGED at
          ELSE /\ sweep' = [sweep EXCEPT !.left = @ \ {a}, !.target = {a}]
               /\ at' = [at EXCEPT ![t] = "mark"]
    BY <1>5 DEF Visit
  <2>1. CASE a \in seen
    <3>1. sweep'.target = sweep.target
      BY <2>1
    <3> QED BY <1>5, <2>1, <3>1 DEF Visit
  <2>2. CASE a \notin seen
    <3>1. sweep'.target = {a} /\ at' = [at EXCEPT ![t] = "mark"]
      BY <2>2
    <3> QED BY <1>5, <2>2, <3>1 DEF Visit
  <2> QED BY <2>1, <2>2
<1>6. CASE MarkOffline(t)
  BY <1>6 DEF MarkOffline
<1>7. CASE SweepOver(t)
  BY <1>7 DEF SweepOver
<1>8. CASE TableGrew(t)
  BY <1>8 DEF TableGrew, Raise
<1> QED BY <1>1, <1>2, <1>3, <1>4, <1>5, <1>6, <1>7, <1>8 DEF ScanStep

LEMMA EventHeard ==
  ASSUME TypeOK, HeardIsSeen, NEW e \in Event, ApplyEvent(e)
  PROVE  HeardIsSeen'
<1> USE DEF HeardIsSeen, Sweeping, Waiting
<1>1. CASE Joined(e.addr)
  <2>1. CASE inProgress
    BY <1>1, <2>1 DEF Joined, TypeOK
  <2>2. CASE ~inProgress
    BY <1>1, <2>2 DEF Joined, TypeOK
  <2> QED BY <2>1, <2>2
<1>2. CASE Left(e.addr) \/ StateReported(e.addr, e.state)
  BY <1>2 DEF Left, StateReported
<1> QED BY <1>1, <1>2 DEF ApplyEvent, Event

(* A sweep never marks a shelf whose NODE_JOIN was handled after the last  *)
(* scan began and before the sweep, however many threads scan, and in      *)
(* whatever order events and commands come.                                *)
THEOREM SweepsSpareHeard == Spec => []SweepSparesHeard
<1>1. TypeOK /\ HeardIsSeen /\ [Next]_vars => HeardIsSeen'
  <2> SUFFICES ASSUME TypeOK, HeardIsSeen, [Next]_vars
               PROVE  HeardIsSeen'
    OBVIOUS
  <2>1. CASE \E u \in Scanner : ScanStep(u)
    BY <2>1, ScanStepHeard
  <2>2. CASE \E e \in Event : ApplyEvent(e)
    BY <2>2, EventHeard
  <2>3. CASE \/ \E a \in Addr, s \in {0, 1} : NodeStateSet(a, s)
             \/ \E s \in {0, 1} : GroupStateSet(s)
    BY <2>3 DEF NodeStateSet, StateReported, GroupStateSet, HeardIsSeen, Sweeping, Waiting
  <2>4. CASE UNCHANGED vars
    BY <2>4 DEF vars, HeardIsSeen, Sweeping, Waiting
  <2> QED BY <2>1, <2>2, <2>3, <2>4 DEF Next
<1>2. HeardIsSeen => SweepSparesHeard
  BY DEF HeardIsSeen, Sweeping, SweepSparesHeard
<1>3. Spec => []TypeOK
  BY Typing
<1> QED BY <1>1, <1>2, <1>3, InitHeard, PTL DEF Spec
=============================================================================
