----------------------------- MODULE NodeTable -----------------------------
(***************************************************************************)
(* The table of shelves in the web bridge (_nodes of class SerialBridge in *)
(* src/gateway/web_app/app.py) and the threads at work on it:              *)
(*                                                                         *)
(*   - the reader thread applies the events of the coordinator, without    *)
(*     taking _lock;                                                       *)
(*   - the handler of a command changes the entry after the line was sent, *)
(*     without taking _lock either;                                        *)
(*   - the threads that scan forget under _lock whom the last scan heard,  *)
(*     ask the coordinator, wait, and under _lock again mark as offline    *)
(*     everybody who was not heard.  One of them is "loop", the others run *)
(*     api_scan.                                                           *)
(*                                                                         *)
(* A scanning thread can lose the processor between its test of an address *)
(* and the mark, so these are two actions.  A line of the coordinator and  *)
(* the update after a command are one each, although other threads can get *)
(* in between their parts: what the reader adds to the set is then added   *)
(* to the set of the old or of the new scan, and a sweep that began comes  *)
(* before its entry, as when the line is handled before or after.  The one *)
(* exception is two new entries for the same shelf: see EntryReplaced in   *)
(* ShelfSystem.  The order of insertion, in which the table is visited, is *)
(* left open, and so is last_seen.                                         *)
(***************************************************************************)
EXTENDS Naturals

CONSTANTS
  Addr,              \* addresses of shelves
  Scanner            \* threads that call run_node_scan, "loop" among them

VARIABLES
  nodes,             \* _nodes: a function whose domain grows
  inProgress,        \* _scan_in_progress
  seen,              \* _scan_seen_addrs
  at,                \* what each scanning thread does next
  sweep,             \* the iteration over the table, of whoever is in it
  heardBy            \* history: whose NODE_JOIN was handled, while each
                     \* thread waited, since the last scan of any began

vars == <<nodes, inProgress, seen, at, sweep, heardBy>>

NoSweep == [left |-> {}, keys |-> {}, target |-> {}]

Init ==
  /\ nodes = [a \in {} |-> 0]
  /\ inProgress = FALSE
  /\ seen = {}
  /\ at = [t \in Scanner |-> "idle"]
  /\ sweep = NoSweep
  /\ heardBy = [t \in Scanner |-> {}]

Known == DOMAIN nodes

Goto(t, place) == at' = [at EXCEPT ![t] = place]

(* An exception that nobody catches ends the thread of the scan loop and,  *)
(* in api_scan, only the request.                                          *)
Raise(t) == Goto(t, IF t = "loop" THEN "dead" ELSE "idle")

(* _lock is held only during a sweep; its other owners have it for the     *)
(* length of one action.                                                   *)
LockFree == \A t \in Scanner : at[t] \notin {"sweep", "mark"}

-----------------------------------------------------------------------------
(* run_node_scan                                                           *)

(* What was heard is forgotten after the request, for a mutation test.     *)
BeginKeepsSeen(t) ==
  /\ at[t] = "idle"
  /\ LockFree
  /\ inProgress' = TRUE
  /\ heardBy' = [u \in Scanner |-> {}]
  /\ Goto(t, "ask")
  /\ UNCHANGED <<nodes, sweep, seen>>

Begin(t) ==
  /\ at[t] = "idle"
  /\ LockFree
  /\ seen' = {}
  /\ inProgress' = TRUE
  /\ heardBy' = [u \in Scanner |-> {}]
  /\ Goto(t, "ask")
  /\ UNCHANGED <<nodes, sweep>>

(* request_node_scan, in which send_line takes the lock.                   *)
Ask(t) ==
  /\ at[t] = "ask"
  /\ LockFree
  /\ Goto(t, "wait")
  /\ UNCHANGED <<nodes, inProgress, seen, sweep, heardBy>>

(* Without a port send_line fails in an assertion or on None, which        *)
(* request_node_scan does not catch: see WriteFails in SerialLink.         *)
AskRaises(t) ==
  /\ at[t] = "ask"
  /\ LockFree
  /\ Raise(t)
  /\ UNCHANGED <<nodes, inProgress, seen, sweep, heardBy>>

(* _finalize_scan up to its loop: nothing when another thread did it.      *)
Finalize(t) ==
  /\ at[t] = "wait"
  /\ LockFree
  /\ IF inProgress
       THEN /\ Goto(t, "sweep")
            /\ sweep' = [left |-> Known, keys |-> Known, target |-> {}]
       ELSE /\ Goto(t, "idle")
            /\ UNCHANGED sweep
  /\ inProgress' = FALSE
  /\ UNCHANGED <<nodes, seen, heardBy>>

(* The loop over _nodes.items() raises an exception when the table has     *)
(* grown: no entry is ever removed, so its size tells.                     *)
TableGrew(t) ==
  /\ at[t] = "sweep"
  /\ Known # sweep.keys
  /\ Raise(t)
  /\ sweep' = NoSweep
  /\ UNCHANGED <<nodes, inProgress, seen, heardBy>>

Visit(t) ==
  /\ at[t] = "sweep"
  /\ Known = sweep.keys
  /\ \E a \in sweep.left :
       IF a \in seen
         THEN /\ sweep' = [sweep EXCEPT !.left = @ \ {a}]
              /\ UNCHANGED at
         ELSE /\ sweep' = [sweep EXCEPT !.left = @ \ {a}, !.target = {a}]
              /\ Goto(t, "mark")
  /\ UNCHANGED <<nodes, inProgress, seen, heardBy>>

(* Nobody is marked, for a mutation test.                                  *)
MarkNobody(t) ==
  /\ at[t] = "mark"
  /\ sweep' = [sweep EXCEPT !.target = {}]
  /\ Goto(t, "sweep")
  /\ UNCHANGED <<nodes, inProgress, seen, heardBy>>

MarkOffline(t) ==
  /\ at[t] = "mark"
  /\ nodes' = [a \in Known |->
                 IF a \in sweep.target THEN [nodes[a] EXCEPT !.online = FALSE]
                                       ELSE nodes[a]]
  /\ sweep' = [sweep EXCEPT !.target = {}]
  /\ Goto(t, "sweep")
  /\ UNCHANGED <<inProgress, seen, heardBy>>

SweepOver(t) ==
  /\ at[t] = "sweep"
  /\ Known = sweep.keys
  /\ sweep.left = {}
  /\ Goto(t, "idle")
  /\ sweep' = NoSweep
  /\ UNCHANGED <<nodes, inProgress, seen, heardBy>>

-----------------------------------------------------------------------------
(* The table with another entry for a.                                     *)
Put(a, entry) ==
  nodes' = [b \in Known \cup {a} |-> IF b = a THEN entry ELSE nodes[b]]

(* A shelf that is in the table already does not count as heard, for a     *)
(* mutation test.                                                          *)
JoinedIfNew(a) ==
  /\ Put(a, [state |-> IF a \in Known THEN nodes[a].state ELSE 0, online |-> TRUE])
  /\ seen' = IF inProgress /\ a \notin Known THEN seen \cup {a} ELSE seen
  /\ heardBy' = [t \in Scanner |->
                   IF at[t] \in {"ask", "wait"} THEN heardBy[t] \cup {a} ELSE heardBy[t]]
  /\ UNCHANGED <<inProgress, at, sweep>>

(* _apply_event                                                            *)
Joined(a) ==
  /\ Put(a, [state |-> IF a \in Known THEN nodes[a].state ELSE 0, online |-> TRUE])
  /\ seen' = IF inProgress THEN seen \cup {a} ELSE seen
  /\ heardBy' = [t \in Scanner |->
                   IF at[t] \in {"ask", "wait"} THEN heardBy[t] \cup {a} ELSE heardBy[t]]
  /\ UNCHANGED <<inProgress, at, sweep>>

Left(a) ==
  /\ IF a \in Known THEN Put(a, [nodes[a] EXCEPT !.online = FALSE])
                    ELSE UNCHANGED nodes
  /\ UNCHANGED <<inProgress, seen, at, sweep, heardBy>>

StateReported(a, s) ==
  /\ Put(a, [state |-> s, online |-> TRUE])
  /\ UNCHANGED <<inProgress, seen, at, sweep, heardBy>>

ApplyEvent(e) ==
  \/ e.kind = "join" /\ Joined(e.addr)
  \/ e.kind = "leave" /\ Left(e.addr)
  \/ e.kind = "state" /\ StateReported(e.addr, e.state)
  \/ e.kind = "none" /\ UNCHANGED vars

-----------------------------------------------------------------------------
(* set_node_state and set_group_state after the line was sent: the state   *)
(* is assumed to be the one the command asks for.                          *)
NodeStateSet(a, s) == StateReported(a, s)

GroupStateSet(s) ==
  /\ nodes' = [a \in Known |->
                 IF nodes[a].online THEN [nodes[a] EXCEPT !.state = s] ELSE nodes[a]]
  /\ UNCHANGED <<inProgress, seen, at, sweep, heardBy>>

-----------------------------------------------------------------------------
ScanStep(t) ==
  \/ Begin(t) \/ Ask(t) \/ AskRaises(t) \/ Finalize(t)
  \/ Visit(t) \/ MarkOffline(t) \/ SweepOver(t) \/ TableGrew(t)

Event == [kind : {"join", "leave", "state"}, addr : Addr, state : {0, 1}]

Next ==
  \/ \E t \in Scanner : ScanStep(t)
  \/ \E e \in Event : ApplyEvent(e)
  \/ \E a \in Addr, s \in {0, 1} : NodeStateSet(a, s)
  \/ \E s \in {0, 1} : GroupStateSet(s)

Spec == Init /\ [][Next]_vars

-----------------------------------------------------------------------------
(* Properties.                                                             *)

(* Type invariant of the table and its threads.                            *)
TypeOK ==
  /\ Known \subseteq Addr
  /\ nodes \in [Known -> [state : {0, 1}, online : BOOLEAN]]
  /\ inProgress \in BOOLEAN
  /\ seen \subseteq Addr
  /\ at \in [Scanner -> {"idle", "ask", "wait", "sweep", "mark", "dead"}]
  /\ sweep \in [left : SUBSET Addr, keys : SUBSET Addr, target : SUBSET Addr]
  /\ heardBy \in [Scanner -> SUBSET Addr]

(* A sweep does not mark a shelf as offline whose NODE_JOIN was handled    *)
(* after the last scan began and before the sweep, however many threads    *)
(* scan at the same time.                                                  *)
SweepSparesHeard ==
  \A t \in Scanner : at[t] = "mark" => sweep.target \cap heardBy[t] = {}
=============================================================================
