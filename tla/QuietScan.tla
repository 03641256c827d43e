----------------------------- MODULE QuietScan -----------------------------
(***************************************************************************)
(* A scan that nothing disturbs, watched by a history variable: what does  *)
(* one run of the scan loop (_scan_loop and run_node_scan in               *)
(* src/gateway/web_app/app.py) do for the table of the bridge, when it     *)
(* begins while the whole system is at rest and no button, page, power     *)
(* supply, radio or cable interferes?  The system itself is ShelfSystem;   *)
(* calm only watches.                                                      *)
(***************************************************************************)
EXTENDS ShelfSystem

VARIABLE
  calm             \* the thread whose scan began at rest and has not been
                   \* disturbed, as a set of at most one

watchedVars == <<vars, calm>>

(* Nothing is under way, both ends listen, and the coordinator knows some  *)
(* shelf.                                                                  *)
AtRest ==
  /\ Heeded /\ up
  /\ page = P!NoCommand
  /\ toCoordinator = <<>> /\ toHost = <<>>
  /\ air = {}
  /\ ~scanning
  /\ registry # {}
  /\ \A t \in Scanner : at[t] \in {"idle", "dead"} /\ request[t] = "none"

(* The steps that a scan consists of, and those that only pass on what is  *)
(* under way.                                                              *)
GoOn ==
  \/ \E t \in Scanner : ScanStep(t)
  \/ UpdateTable
  \/ ReadLine
  \/ EntryReplaced
  \/ IgnoreCommand
  \/ HandleSend
  \/ HandleScan
  \/ Conclude
  \/ \E m \in air : CoordinatorReceives(m) \/ ShelfReceives(m)

(* The steps that start something else, and the failures.                  *)
Disturb ==
  \/ \E t \in Scanner : AskFails(t)
  \/ \E c \in PageCommand : SendCommand(c)
  \/ Reconnect
  \/ NetworkUp \/ RescanAlarm
  \/ \E a \in Shelf : Press(a) \/ PowerOff(a) \/ PowerOn(a)
  \/ Disconnect
  \/ \E m \in air : Lose(m)

WatchedNext ==
  \/ \E t \in Scanner : BeginScan(t) /\ calm' = IF AtRest THEN {t} ELSE {}
  \/ GoOn /\ UNCHANGED calm
  \/ Disturb /\ calm' = {}

WatchedInit == Init /\ calm = {}

WatchedSpec == WatchedInit /\ [][WatchedNext]_watchedVars

FairWatchedSpec == WatchedSpec /\ Fairness

(* The state of the system that the table should show.                     *)
Present == registry \cap alive

TableIsTrue ==
  /\ Present \subseteq DOMAIN nodes
  /\ \A a \in DOMAIN nodes : nodes[a].online <=> a \in Present
  /\ \A a \in Present : nodes[a].state = light[a]

(* "Live view of Zigbee shelf nodes": when a scan that began at rest and   *)
(* that nothing disturbed is over, the table shows exactly the registered  *)
(* shelves that are alive as online, each in its state - whatever reports, *)
(* verdicts or updates were lost, crossed or overwritten before it.        *)
QuietScanTellsTruth ==
  \A t \in calm : at[t] = "idle" => TableIsTrue
=============================================================================
