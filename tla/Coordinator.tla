---------------------------- MODULE Coordinator ----------------------------
(***************************************************************************)
(* The coordinator firmware (src/firmware/coordinator/main/coordinator.c): *)
(* commissioning of the network, the registry of known shelves, the        *)
(* provisioning of a new shelf (match descriptor, bind, add to group), the *)
(* periodic rescan of the neighbour table and the liveness scan that a     *)
(* NODE_SCAN line starts.                                                  *)
(*                                                                         *)
(* Three FreeRTOS tasks run this code: the Zigbee main loop, which calls   *)
(* the signal and ZCL handlers while it holds the Zigbee lock; the UART    *)
(* task; and the esp_timer task, which runs one alarm at a time.  A        *)
(* handler that keeps the lock from its first to its last access to the    *)
(* shared state is one action.  The loop of a rescan is one action per     *)
(* neighbour, under the lock, because the Zigbee stack and the radio go on *)
(* meanwhile.  The end of coordinator_rescan_alarm runs after the lock is  *)
(* released and is an action of its own (RescanTail).                      *)
(*                                                                         *)
(* There is no clock: an alarm that was started may fire at any later      *)
(* moment, before or after any answer.  A message in "air" may be delivered*)
(* at any later moment, in any order, or never, which is how loss and      *)
(* delay are modelled.                                                     *)
(***************************************************************************)
EXTENDS Naturals, Sequences, FiniteSets, Functions

CONSTANTS
  Shelf,           \* short addresses of shelves (never 0, the coordinator)
  MaxKnown,        \* COORDINATOR_MAX_KNOWN_SHELVES, 32 in the code
  RescanRepeats,   \* COORDINATOR_RESCAN_REPEATS, 24 in the code
  MaxRestarts,     \* bound: how often the board may restart
  AlarmFaults,     \* may alarm_timer_schedule fail (no memory, no timer)?
  StartFaults,     \* may the stack refuse to start a commissioning procedure?
  RadioFaults,     \* may requests to the stack be refused or time out?
  ShelfResets      \* may a shelf that leaves forget its group membership?

ASSUME CoordinatorAssumption ==
  /\ MaxKnown \in Nat \ {0}
  /\ RescanRepeats \in Nat
  /\ MaxRestarts \in Nat
  /\ AlarmFaults \in BOOLEAN
  /\ StartFaults \in BOOLEAN
  /\ RadioFaults \in BOOLEAN
  /\ ShelfResets \in BOOLEAN

VARIABLES
  known,            \* s_known_shelves[0 .. s_known_shelf_count-1]
  scanActive,       \* s_liveness_scan_active
  scanAddrs,        \* s_liveness_scan_addrs[0 .. s_liveness_scan_count-1]
  scanResponded,    \* s_liveness_scan_responded
  rescanRemaining,  \* s_rescan_remaining
  lock,             \* who is inside the rescan loop, holding the Zigbee lock
  rescan,           \* locals of the rescan loop: neighbours found fresh, the
                    \* ones still to visit, and the array found[]
  rescanTail,       \* has the rescan alarm released the lock, not yet ended?
  alarms,           \* started esp_timer alarms, by callback and argument
  bdb,              \* commissioning procedure running in the Zigbee stack
  joined,           \* ezb_bdb_dev_joined()
  factoryNew,       \* ezb_bdb_is_factory_new(), kept in flash
  refused,          \* history: was a procedure, or the alarm to retry one,
                    \* refused since power on?
  matchReq,         \* shelves with an unanswered match descriptor request
  bindReq,          \* shelves with an unanswered bind request
  air,              \* radio messages that may still arrive
  group,            \* shelves that are members of SHELF_DEFAULT_GROUP_ID
  out,              \* lines the last step printed to the host
  restarts          \* restarts so far (bounded by MaxRestarts)

scanVars   == <<scanActive, scanAddrs, scanResponded>>
rescanVars == <<lock, rescan, rescanTail>>
bdbVars    == <<bdb, joined, factoryNew, refused>>
shelfVars  == <<matchReq, bindReq, air, group>>
vars == <<known, scanVars, rescanRemaining, rescanVars, alarms, bdbVars,
          shelfVars, out, restarts>>

AlarmKind == {"finalize", "rescan", "initialization", "formation"}
Message   == [type : {"ping", "response", "addGroup"}, shelf : Shelf]
Line      == [kind : {"NODE_JOIN", "NODE_LEAVE"}, addr : Shelf]
               \cup [kind : {"NODE_RECV"}, addr : Shelf, state : {0, 1}]

Join(a)    == [kind |-> "NODE_JOIN", addr |-> a]
Leave(a)   == [kind |-> "NODE_LEAVE", addr |-> a]
Recv(a, s) == [kind |-> "NODE_RECV", addr |-> a, state |-> s]

Ping(a)     == [type |-> "ping", shelf |-> a]
Response(a) == [type |-> "response", shelf |-> a]
AddGroup(a) == [type |-> "addGroup", shelf |-> a]

NoRescan    == [fresh |-> {}, left |-> {}, found |-> {}]
NoResponses == [i \in 1 .. MaxKnown |-> FALSE]
NoAlarms    == [k \in AlarmKind |-> 0]

-----------------------------------------------------------------------------
(* Power on.  Static variables are zero and no task has run yet.           *)

Init ==
  /\ known = <<>>
  /\ scanActive = FALSE
  /\ scanAddrs = <<>>
  /\ scanResponded = NoResponses
  /\ rescanRemaining = 0
  /\ lock = "free"
  /\ rescan = NoRescan
  /\ rescanTail = FALSE
  /\ alarms = NoAlarms
  /\ bdb = "off"
  /\ joined = FALSE
  /\ refused = FALSE
  /\ matchReq = {}
  /\ bindReq = {}
  /\ out = {}
  /\ factoryNew \in BOOLEAN
  /\ air = {}
  /\ group = {}
  /\ restarts = 0

-----------------------------------------------------------------------------
(* Operators shared by the handlers.                                       *)

(* A search that misses the last element, for a mutation test.             *)
IsKnownButLast(a) == \E i \in 1 .. Len(known) - 1 : known[i] = a

(* coordinator_is_known_shelf *)
IsKnown(a) == a \in Range(known)

(* No test for a full array, for a mutation test.                          *)
MarkKnownUnbounded(a) ==
  known' = IF IsKnown(a) THEN known ELSE Append(known, a)

(* coordinator_mark_known_shelf: nothing happens when the array is full.   *)
MarkKnown(a) ==
  known' = IF IsKnown(a) \/ Len(known) >= MaxKnown THEN known
                                                   ELSE Append(known, a)

(* A request handed to the stack; a refusal is logged and forgotten.       *)
Requested(pending, r) ==
  {pending \cup {r}} \cup (IF RadioFaults THEN {pending} ELSE {})

(* The registry is not updated, or updated before the early return: for    *)
(* mutation tests.                                                         *)
RegisterUnmarked(a) ==
  /\ out' = {Join(a)}
  /\ matchReq' \in Requested(matchReq, a)
  /\ UNCHANGED known

RegisterMarkFirst(a) ==
  /\ out' = {Join(a)}
  /\ MarkKnown(a)
  /\ UNCHANGED matchReq

(* coordinator_register_shelf, with the request it sends for a shelf that  *)
(* is not in the registry.                                                 *)
RegisterShelf(a) ==
  /\ out' = {Join(a)}
  /\ IF IsKnown(a) THEN UNCHANGED <<known, matchReq>>
                   ELSE MarkKnown(a) /\ matchReq' \in Requested(matchReq, a)

(* alarm_timer_schedule; its result is ignored by every caller.            *)
Schedule(kind) ==
  alarms' \in {[alarms EXCEPT ![kind] = @ + 1]}
                \cup (IF AlarmFaults THEN {alarms} ELSE {})

(* ezb_bdb_start_top_level_commissioning; its result is ignored by every   *)
(* caller.  A procedure that was refused sends no signal later.            *)
StartCommissioning(mode) ==
  \/ /\ bdb' = mode
     /\ UNCHANGED refused
  \/ /\ StartFaults
     /\ bdb' = "none"
     /\ refused' = TRUE

(* A procedure has failed and its retry is scheduled.                      *)
ScheduleRetry(mode) ==
  /\ bdb' = "none"
  /\ Schedule(mode)
  /\ refused' = (refused \/ alarms' = alarms)

StartPeriodicRescan ==
  /\ rescanRemaining' = RescanRepeats
  /\ Schedule("rescan")

(* The Zigbee main loop runs a handler: it needs the lock.                 *)
Callback == lock = "free"

(* The esp_timer task takes an alarm whose time has come; it can do so     *)
(* when it is not inside another one.  Every alarm's callback starts by    *)
(* taking the lock.                                                        *)
Fires(kind) ==
  /\ lock = "free"
  /\ ~rescanTail
  /\ alarms[kind] > 0

Fired(kind) == [alarms EXCEPT ![kind] = @ - 1]

-----------------------------------------------------------------------------
(* esp_zigbee_app_signal_handler: commissioning.                           *)

SkipStartup ==
  /\ Callback
  /\ bdb = "off"
  /\ StartCommissioning("initialization")
  /\ out' = {}
  /\ UNCHANGED <<known, scanVars, rescanRemaining, rescanVars, alarms, joined,
                 factoryNew, shelfVars, restarts>>

(* FIRST_START or REBOOT.  A device that was part of a network is back in  *)
(* it when the signal reports success.                                     *)
StartSucceeded ==
  /\ Callback
  /\ bdb = "initialization"
  /\ IF factoryNew
       THEN /\ StartCommissioning("formation")
            /\ UNCHANGED <<joined, rescanRemaining, alarms>>
       ELSE /\ bdb' = "none"
            /\ joined' = TRUE
            /\ StartPeriodicRescan
            /\ UNCHANGED refused
  /\ out' = {}
  /\ UNCHANGED <<known, scanVars, rescanVars, factoryNew, shelfVars, restarts>>

StartFailed ==
  /\ Callback
  /\ bdb = "initialization"
  /\ ScheduleRetry("initialization")
  /\ out' = {}
  /\ UNCHANGED <<known, scanVars, rescanRemaining, rescanVars, joined,
                 factoryNew, shelfVars, restarts>>

FormationSucceeded ==
  /\ Callback
  /\ bdb = "formation"
  /\ StartCommissioning("steering")
  /\ joined' = TRUE
  /\ factoryNew' = FALSE
  /\ StartPeriodicRescan
  /\ out' = {}
  /\ UNCHANGED <<known, scanVars, rescanVars, shelfVars, restarts>>

(* No retry, for a mutation test.                                          *)
FormationGivesUp ==
  /\ Callback
  /\ bdb = "formation"
  /\ bdb' = "none"
  /\ out' = {}
  /\ UNCHANGED <<known, scanVars, rescanRemaining, rescanVars, alarms, joined,
                 factoryNew, refused, shelfVars, restarts>>

FormationFailed ==
  /\ Callback
  /\ bdb = "formation"
  /\ ScheduleRetry("formation")
  /\ out' = {}
  /\ UNCHANGED <<known, scanVars, rescanRemaining, rescanVars, joined,
                 factoryNew, shelfVars, restarts>>

(* Steering is retried, or starts the rescans again: for mutation tests.   *)
SteeringRetried ==
  /\ Callback
  /\ bdb = "steering"
  /\ ScheduleRetry("formation")
  /\ out' = {}
  /\ UNCHANGED <<known, scanVars, rescanRemaining, rescanVars, joined,
                 factoryNew, shelfVars, restarts>>

SteeringRestartsRescan ==
  /\ Callback
  /\ bdb = "steering"
  /\ bdb' = "none"
  /\ StartPeriodicRescan
  /\ out' = {}
  /\ UNCHANGED <<known, scanVars, rescanVars, joined, factoryNew, refused,
                 shelfVars, restarts>>

(* STEERING, with either status: the coordinator only logs it.             *)
SteeringEnded ==
  /\ Callback
  /\ bdb = "steering"
  /\ bdb' = "none"
  /\ out' = {}
  /\ UNCHANGED <<known, scanVars, rescanRemaining, rescanVars, alarms, joined,
                 factoryNew, refused, shelfVars, restarts>>

-----------------------------------------------------------------------------
(* esp_zigbee_app_signal_handler: shelves that come and go.                *)

DeviceAnnce(a) ==
  /\ Callback
  /\ joined
  /\ RegisterShelf(a)
  /\ UNCHANGED <<scanVars, rescanRemaining, rescanVars, alarms, bdbVars,
                 bindReq, air, group, restarts>>

(* The registry keeps a shelf that left.                                   *)
LeaveIndication(a) ==
  /\ Callback
  /\ joined
  /\ out' = {Leave(a)}
  /\ group' \in {group} \cup (IF ShelfResets THEN {group \ {a}} ELSE {})
  /\ UNCHANGED <<known, scanVars, rescanRemaining, rescanVars, alarms, bdbVars,
                 matchReq, bindReq, air, restarts>>

-----------------------------------------------------------------------------
(* Provisioning: zdo_find_shelf_device_result, zdo_bind_shelf_device_result*)

(* A match: both the bind request and the group request are attempted,     *)
(* whatever becomes of the other one.                                      *)
FindShelfDeviceResult(a) ==
  /\ Callback
  /\ a \in matchReq
  /\ matchReq' = matchReq \ {a}
  /\ bindReq' \in Requested(bindReq, a)
  /\ air' \in Requested(air, AddGroup(a))
  /\ out' = {}
  /\ UNCHANGED <<known, scanVars, rescanRemaining, rescanVars, alarms, bdbVars,
                 group, restarts>>

(* An error, a timeout or no matching endpoint: the shelf is given up.     *)
FindShelfDeviceFailed(a) ==
  /\ RadioFaults
  /\ Callback
  /\ a \in matchReq
  /\ matchReq' = matchReq \ {a}
  /\ out' = {}
  /\ UNCHANGED <<known, scanVars, rescanRemaining, rescanVars, alarms, bdbVars,
                 bindReq, air, group, restarts>>

BindShelfDeviceResult(a) ==
  /\ Callback
  /\ a \in bindReq
  /\ bindReq' = bindReq \ {a}
  /\ out' \in {{Join(a)}} \cup (IF RadioFaults THEN {{}} ELSE {})
  /\ UNCHANGED <<known, scanVars, rescanRemaining, rescanVars, alarms, bdbVars,
                 matchReq, air, group, restarts>>

-----------------------------------------------------------------------------
(* ZCL handlers.                                                           *)

(* coordinator_mark_liveness_response                                      *)
MarkLivenessResponse(a) ==
  scanResponded' =
    [i \in 1 .. MaxKnown |->
       \/ scanResponded[i]
       \/ scanActive /\ i <= Len(scanAddrs) /\ scanAddrs[i] = a]

(* zcl_core_cmd_read_attr_rsp_handler: a response without a usable value   *)
(* counts as a sign of life but prints nothing.                            *)
ReadAttrRsp(a) ==
  /\ Callback
  /\ joined
  /\ Response(a) \in air
  /\ air' = air \ {Response(a)}
  /\ MarkLivenessResponse(a)
  /\ out' \in {{Recv(a, 0)}, {Recv(a, 1)}, {}}
  /\ UNCHANGED <<known, scanActive, scanAddrs, rescanRemaining, rescanVars,
                 alarms, bdbVars, matchReq, bindReq, group, restarts>>

(* zcl_core_cmd_report_attr_handler: a report is no sign of life.          *)
ReportAttr(a) ==
  /\ Callback
  /\ joined
  /\ out' \in {{Recv(a, 0)}, {Recv(a, 1)}}
  /\ UNCHANGED <<known, scanVars, rescanRemaining, rescanVars, alarms, bdbVars,
                 shelfVars, restarts>>

-----------------------------------------------------------------------------
(* coordinator_rescan_neighbor_shelves                                     *)

(* What the loop's conditions distinguish in a neighbour table entry.      *)
(* Routers above COORDINATOR_NEIGHBOR_MAX_AGE are stale.                   *)
NeighborTable == [Shelf -> {"absent", "otherDevice", "staleRouter", "router"}]

FreshRouters(table) == {a \in Shelf : table[a] = "router"}

BeginRescan(task) ==
  /\ lock' = task
  /\ \E table \in NeighborTable :
       rescan' = [fresh |-> FreshRouters(table), left |-> FreshRouters(table),
                  found |-> {}]

(* The array found[] holds MaxKnown addresses; the first operator leaves   *)
(* its last place unused, for a mutation test.                             *)
AddFoundButOne(found, a) ==
  IF Cardinality(found) < MaxKnown - 1 THEN found \cup {a} ELSE found

AddFound(found, a) ==
  IF Cardinality(found) < MaxKnown THEN found \cup {a} ELSE found

(* One round of the loop.                                                  *)
RescanVisit(a) ==
  /\ lock # "free"
  /\ a \in rescan.left
  /\ rescan' = [rescan EXCEPT
                  !.left  = @ \ {a},
                  !.found = AddFound(@, a)]
  /\ RegisterShelf(a)
  /\ UNCHANGED <<scanVars, rescanRemaining, lock, rescanTail, alarms, bdbVars,
                 bindReq, air, group, restarts>>

(* The second loop, then the caller releases the lock.                     *)
RescanEnd ==
  /\ lock # "free"
  /\ rescan.left = {}
  /\ out' = {Leave(a) : a \in Range(known) \ rescan.found}
  /\ lock' = "free"
  /\ rescan' = NoRescan
  /\ rescanTail' = (rescanTail \/ lock = "timer")
  /\ UNCHANGED <<known, scanVars, rescanRemaining, alarms, bdbVars, shelfVars,
                 restarts>>

-----------------------------------------------------------------------------
(* UART task: a NODE_SCAN line on a joined coordinator, and                *)
(* coordinator_run_liveness_scan.                                          *)

(* A scan although one is running, for a mutation test.                    *)
MayScanAgain == lock = "free" /\ joined

(* A NODE_SCAN is ignored before the network is up and during a scan.      *)
MayScan == lock = "free" /\ joined /\ ~scanActive

(* The memset left out, for a mutation test.                               *)
KeepResponses == UNCHANGED scanResponded

ClearResponses == scanResponded' = NoResponses

(* There are shelves to ask.                                               *)
StartLivenessScan ==
  /\ MayScan
  /\ known # <<>>
  /\ scanActive' = TRUE
  /\ scanAddrs' = known
  /\ ClearResponses
  /\ air' = air \cup {Ping(a) : a \in Range(known)}
  /\ Schedule("finalize")
  /\ out' = {}
  /\ UNCHANGED <<known, rescanRemaining, rescanVars, bdbVars, matchReq, bindReq,
                 group, restarts>>

(* The scan is marked active before the empty registry is noticed, for a   *)
(* mutation test.                                                          *)
ActiveWithoutShelves ==
  /\ MayScan
  /\ known = <<>>
  /\ scanActive' = TRUE
  /\ scanAddrs' = <<>>
  /\ ClearResponses
  /\ BeginRescan("uart")
  /\ out' = {}
  /\ UNCHANGED <<known, rescanRemaining, rescanTail, alarms, bdbVars, shelfVars,
                 restarts>>

(* An empty registry: the neighbour table is read instead.                 *)
ScanWithoutShelves ==
  /\ MayScan
  /\ known = <<>>
  /\ scanAddrs' = <<>>
  /\ ClearResponses
  /\ BeginRescan("uart")
  /\ out' = {}
  /\ UNCHANGED <<known, scanActive, rescanRemaining, rescanTail, alarms,
                 bdbVars, shelfVars, restarts>>

-----------------------------------------------------------------------------
(* esp_timer task.                                                         *)

(* The verdicts, and the same read from the registry instead of the        *)
(* addresses of the scan, for a mutation test.                             *)
RegistryVerdicts ==
  {IF scanResponded[i] THEN Join(known[i]) ELSE Leave(known[i])
     : i \in 1 .. Len(known)}

Verdicts ==
  {IF scanResponded[i] THEN Join(scanAddrs[i]) ELSE Leave(scanAddrs[i])
     : i \in 1 .. Len(scanAddrs)}

(* coordinator_finalize_liveness_scan                                      *)
FinalizeLivenessScan ==
  /\ Fires("finalize")
  /\ alarms' = Fired("finalize")
  /\ IF scanActive
       THEN /\ scanActive' = FALSE
            /\ out' = Verdicts
       ELSE /\ UNCHANGED scanActive
            /\ out' = {}
  /\ UNCHANGED <<known, scanAddrs, scanResponded, rescanRemaining, rescanVars,
                 bdbVars, shelfVars, restarts>>

(* coordinator_rescan_alarm, up to the end of the rescan.                  *)
RescanAlarm ==
  /\ Fires("rescan")
  /\ alarms' = Fired("rescan")
  /\ BeginRescan("timer")
  /\ out' = {}
  /\ UNCHANGED <<known, scanVars, rescanRemaining, rescanTail, bdbVars,
                 shelfVars, restarts>>

(* The tail without its decrement, for a mutation test.                    *)
EndlessRescanTail ==
  /\ rescanTail
  /\ rescanTail' = FALSE
  /\ IF rescanRemaining > 0 THEN Schedule("rescan")
                            ELSE UNCHANGED alarms
  /\ out' = {}
  /\ UNCHANGED <<known, scanVars, rescanRemaining, lock, rescan, bdbVars,
                 shelfVars, restarts>>

(* ... and what it does after esp_zigbee_lock_release.                     *)
RescanTail ==
  /\ rescanTail
  /\ rescanTail' = FALSE
  /\ IF rescanRemaining > 0
       THEN /\ rescanRemaining' = rescanRemaining - 1
            /\ Schedule("rescan")
       ELSE UNCHANGED <<rescanRemaining, alarms>>
  /\ out' = {}
  /\ UNCHANGED <<known, scanVars, lock, rescan, bdbVars, shelfVars, restarts>>

(* esp_zigbee_alarm_bdb_commissioning, the retry of a failed procedure.    *)
RetryCommissioning(mode) ==
  /\ Fires(mode)
  /\ alarms' = Fired(mode)
  /\ StartCommissioning(mode)
  /\ out' = {}
  /\ UNCHANGED <<known, scanVars, rescanRemaining, rescanVars, joined,
                 factoryNew, shelfVars, restarts>>

-----------------------------------------------------------------------------
(* The other side: shelves, the radio and the power supply.                *)

ShelfAnswersPing(a) ==
  /\ Ping(a) \in air
  /\ air' = (air \ {Ping(a)}) \cup {Response(a)}
  /\ out' = {}
  /\ UNCHANGED <<known, scanVars, rescanRemaining, rescanVars, alarms, bdbVars,
                 matchReq, bindReq, group, restarts>>

ShelfJoinsGroup(a) ==
  /\ AddGroup(a) \in air
  /\ air' = air \ {AddGroup(a)}
  /\ group' = group \cup {a}
  /\ out' = {}
  /\ UNCHANGED <<known, scanVars, rescanRemaining, rescanVars, alarms, bdbVars,
                 matchReq, bindReq, restarts>>

(* A failed ESP_ERROR_CHECK, a watchdog or the power supply.  RAM is lost, *)
(* flash and the shelves are not, and messages may still be under way.     *)
Restart ==
  /\ restarts < MaxRestarts
  /\ restarts' = restarts + 1
  /\ known' = <<>>
  /\ scanActive' = FALSE
  /\ scanAddrs' = <<>>
  /\ scanResponded' = NoResponses
  /\ rescanRemaining' = 0
  /\ lock' = "free"
  /\ rescan' = NoRescan
  /\ rescanTail' = FALSE
  /\ alarms' = NoAlarms
  /\ bdb' = "off"
  /\ joined' = FALSE
  /\ refused' = FALSE
  /\ matchReq' = {}
  /\ bindReq' = {}
  /\ out' = {}
  /\ UNCHANGED <<factoryNew, air, group>>

-----------------------------------------------------------------------------

Commissioning ==
  \/ SkipStartup
  \/ StartSucceeded
  \/ StartFailed
  \/ FormationSucceeded
  \/ FormationFailed
  \/ SteeringEnded
  \/ RetryCommissioning("initialization")
  \/ RetryCommissioning("formation")

Rescan ==
  \/ RescanAlarm
  \/ \E a \in Shelf : RescanVisit(a)
  \/ RescanEnd
  \/ RescanTail

LivenessScan ==
  \/ StartLivenessScan
  \/ ScanWithoutShelves
  \/ FinalizeLivenessScan
  \/ \E a \in Shelf : ReadAttrRsp(a)

ShelfEvent(a) ==
  \/ DeviceAnnce(a)
  \/ LeaveIndication(a)
  \/ ReportAttr(a)
  \/ FindShelfDeviceResult(a)
  \/ FindShelfDeviceFailed(a)
  \/ BindShelfDeviceResult(a)
  \/ ShelfAnswersPing(a)
  \/ ShelfJoinsGroup(a)

Next ==
  \/ Commissioning
  \/ Rescan
  \/ LivenessScan
  \/ \E a \in Shelf : ShelfEvent(a)
  \/ Restart

Spec == Init /\ [][Next]_vars

(***************************************************************************)
(* Fairness.  FreeRTOS runs every ready task and the esp_timer task has    *)
(* the highest priority of the three, so an alarm whose time has come gets *)
(* the lock although others take it in between: strong fairness.  A task   *)
(* inside the rescan loop or after it goes on: weak fairness.  The stack   *)
(* answers every procedure it has started, and not with a failure for ever.*)
(***************************************************************************)
TimerFairness ==
  /\ SF_vars(FinalizeLivenessScan)
  /\ SF_vars(RescanAlarm)
  /\ SF_vars(RetryCommissioning("initialization"))
  /\ SF_vars(RetryCommissioning("formation"))
  /\ WF_vars(RescanTail)
  /\ WF_vars(RescanEnd)
  /\ WF_vars(\E a \in Shelf : RescanVisit(a))

StackFairness ==
  /\ SF_vars(SkipStartup)
  /\ SF_vars(StartSucceeded)
  /\ SF_vars(FormationSucceeded)

(* A shelf that is asked long enough answers, and a request to it that is  *)
(* repeated for ever is not refused for ever.                              *)
ShelfFairness ==
  \A a \in Shelf :
    /\ SF_vars(DeviceAnnce(a))
    /\ SF_vars(FindShelfDeviceResult(a))
    /\ SF_vars(ShelfJoinsGroup(a))

FairSpec == Spec /\ TimerFairness /\ StackFairness

ProvisioningSpec == FairSpec /\ ShelfFairness

-----------------------------------------------------------------------------
(* Properties.                                                             *)

(* Type invariant of the coordinator's variables.                          *)
TypeOK ==
  /\ known \in Seq(Shelf)
  /\ Len(known) <= MaxKnown
  /\ scanActive \in BOOLEAN
  /\ scanAddrs \in Seq(Shelf)
  /\ scanResponded \in [1 .. MaxKnown -> BOOLEAN]
  /\ rescanRemaining \in 0 .. RescanRepeats
  /\ lock \in {"free", "uart", "timer"}
  /\ rescan \in [fresh : SUBSET Shelf, left : SUBSET Shelf, found : SUBSET Shelf]
  /\ rescanTail \in BOOLEAN
  /\ alarms \in [AlarmKind -> Nat]
  /\ bdb \in {"off", "none", "initialization", "formation", "steering"}
  /\ joined \in BOOLEAN
  /\ factoryNew \in BOOLEAN
  /\ refused \in BOOLEAN
  /\ matchReq \in SUBSET Shelf
  /\ bindReq \in SUBSET Shelf
  /\ air \in SUBSET Message
  /\ group \in SUBSET Shelf
  /\ out \in SUBSET Line
  /\ restarts \in Nat

(* A finalize alarm belongs to the scan that is running: there is never    *)
(* more than one, none outlives its scan (it would cut the next scan short *)
(* and report shelves that had no time to answer), and as long as alarms   *)
(* can be started, a running scan has its deadline.                        *)
ScanDeadline ==
  /\ alarms["finalize"] <= 1
  /\ alarms["finalize"] = 1 => scanActive
  /\ scanActive /\ ~AlarmFaults => alarms["finalize"] = 1

(* Stages of the one chain of periodic rescans that can be under way: its  *)
(* alarm started, its rescan loop running, its tail still to run.          *)
RescanChain ==
  alarms["rescan"] + (IF lock = "timer" THEN 1 ELSE 0)
                   + (IF rescanTail THEN 1 ELSE 0)

(* The rescan alarm starts itself again outside the lock and shares        *)
(* s_rescan_remaining with coordinator_start_periodic_rescan.  That is     *)
(* safe because at most one chain exists, and only on a joined coordinator,*)
(* so the Zigbee task does not write the counter while the chain reads it. *)
(* And the chain does not break before its counter is used up, unless an   *)
(* alarm could not be started.                                             *)
SingleRescanChain ==
  /\ RescanChain <= 1
  /\ RescanChain = 1 => joined /\ bdb \in {"none", "steering"}
  /\ rescanRemaining > 0 /\ ~AlarmFaults => RescanChain = 1

(* At most one commissioning procedure or retry alarm exists, and none of  *)
(* them once the network is up: a late retry would form a new network on   *)
(* top of the one the shelves have joined.                                 *)
OneCommissioner ==
  /\ alarms["initialization"] + alarms["formation"] <= 1
  /\ alarms["initialization"] + alarms["formation"] = 1 => bdb = "none"
  /\ joined => /\ alarms["initialization"] + alarms["formation"] = 0
               /\ bdb \in {"none", "steering"}

(* ... and as long as the network is not up there is one, if and only if   *)
(* the stack has refused no procedure and no retry alarm since power on: no*)
(* failure of a procedure, in no order, is the end of commissioning, and a *)
(* refusal, which nobody notices, always is, until the next power on.      *)
CommissioningGoesOn ==
  ~joined =>
    (~refused <=> \/ bdb \in {"off", "initialization", "formation"}
                  \/ alarms["initialization"] + alarms["formation"] = 1)

(* The addresses of a scan are a prefix of the registry, which itself has  *)
(* no address twice.  So the index that coordinator_liveness_index returns *)
(* is the only one of that shelf, and the verdict of a scan that overlaps  *)
(* new registrations is about the shelves that were asked.                 *)
ScanIsSnapshot ==
  /\ IsInjective(known)
  /\ Len(scanAddrs) <= Len(known)
  /\ \A i \in 1 .. Len(scanAddrs) : scanAddrs[i] = known[i]
  /\ scanActive => scanAddrs # <<>>

(* Shelves the coordinator has begun to provision since it started.        *)
Provisioned == matchReq \cup bindReq \cup (IF restarts = 0 THEN group ELSE {})

(* A shelf that this coordinator put in the group, or is putting there, is *)
(* in the registry, so the liveness scan watches it; the only exception is *)
(* a registry that was full when the shelf came.                           *)
GroupIsWatched ==
  \A a \in Provisioned : IsKnown(a) \/ Len(known) = MaxKnown

(* A shelf that is in the registry is never provisioned again, so it must  *)
(* be in the group or on its way there, whatever announcements, rescans    *)
(* and restarts came in between.  This holds as long as no request is      *)
(* refused or lost and no shelf forgets its groups: otherwise see          *)
(* AnnouncedShelfIsGrouped.                                                *)
RegisteredIsProvisioned ==
  ~RadioFaults /\ ~ShelfResets =>
    \A a \in Range(known) : a \in matchReq \/ AddGroup(a) \in air \/ a \in group

(* Fresh neighbours that the end of a rescan reports as gone, although the *)
(* loop of the same rescan has just reported them as present.              *)
GoneButFresh == {a \in rescan.fresh : Leave(a) \in out'}

(* That happens only for want of room in found[], which has as many places *)
(* as the registry while the network may have more shelves: the neighbours *)
(* reported as gone are among those for which there was no place left.     *)
FreshGoneOnlyWithoutRoom ==
  [][RescanEnd => \/ GoneButFresh = {}
                  \/ MaxKnown + Cardinality(GoneButFresh)
                       <= Cardinality(rescan.fresh)]_vars

(* Shelves the last scan asked, and those of them whose flag is set.       *)
Asked == Range(scanAddrs)
Heard == {scanAddrs[i] : i \in {j \in 1 .. Len(scanAddrs) : scanResponded[j]}}

(* The coordinator's scan implements the abstract scan service.  An answer *)
(* to an earlier scan does not survive into the next.  The fair version    *)
(* also promises that a scan concludes, so that the next NODE_SCAN is not  *)
(* ignored for ever.                                                       *)
Svc == INSTANCE ScanService
  WITH scanning <- scanActive,
       asked    <- Asked,
       heard    <- Heard

ImplementsScanService     == Svc!SafeSpec
ImplementsFairScanService == Svc!Spec

(* When a scan concludes, the host is told exactly one verdict about every *)
(* shelf asked: NODE_JOIN if it was heard in this scan, otherwise          *)
(* NODE_LEAVE.                                                             *)
VerdictForEachAsked ==
  [][Svc!Conclude => out' = {Join(a) : a \in Heard}
                               \cup {Leave(a) : a \in Asked \ Heard}]_vars

(* Failed procedures are retried until the network is up; only a refused   *)
(* procedure or alarm leaves the coordinator without one.                  *)
NetworkComesUp == <>[](joined \/ refused)

(* The periodic rescan ends; it does not keep itself alive.                *)
RescansEnd == <>[](RescanChain = 0)

(* A shelf that announces itself ends up in the default group.             *)
AnnouncedShelfIsGrouped ==
  \A a \in Shelf : (Join(a) \in out /\ joined) ~> (a \in group \/ ~joined)
=============================================================================
