----------------------------- MODULE ShelfNode -----------------------------
(***************************************************************************)
(* The shelf firmware (src/firmware/shelf_node/main/shelf_node.c): an      *)
(* On/Off light that is switched by commands from the network and by the   *)
(* BOOT button, shows its state on the LED and reports it upstream.        *)
(* Composes the button driver (Drv) and the LED (Led).                     *)
(*                                                                         *)
(* Two tasks of one core switch the shelf.  The button task has the higher *)
(* priority: it runs from one blocking call (the queue, the LED, the       *)
(* Zigbee lock, the delay) to the next in one action.  The Zigbee task can *)
(* be preempted anywhere, so each of its accesses to shared state is an    *)
(* action.  It holds the recursive Zigbee lock while it runs a handler:    *)
(* the lock is free exactly when zb = "idle".  The sections of the button  *)
(* and timer tasks under the lock do not block and are single actions.     *)
(***************************************************************************)
EXTENDS Naturals

CONSTANTS
  QueueLength,     \* places in the queue of the button driver, 10 in the code
  InitFaults,      \* may the initialization of button or LED fail?
  AlarmFaults,     \* may alarm_timer_schedule fail?
  StartFaults,     \* may the stack refuse to start a commissioning procedure?
  RadioFaults,     \* may a report be refused by the stack?
  Removals,        \* may the shelf be removed from the network?
  MaxRestarts      \* bound: how often the board may restart

ASSUME ShelfNodeAssumption ==
  /\ QueueLength \in Nat \ {0}
  /\ InitFaults \in BOOLEAN
  /\ AlarmFaults \in BOOLEAN
  /\ StartFaults \in BOOLEAN
  /\ RadioFaults \in BOOLEAN
  /\ Removals \in BOOLEAN
  /\ MaxRestarts \in Nat

VARIABLES
  state,           \* s_shelf_state
  attr,            \* the On/Off attribute in the Zigbee stack
  zb,              \* where the Zigbee task is inside a handler
  arg,             \* the value that handler works on
  button,          \* where the button task is inside button_event_handler
  bdb,             \* commissioning procedure running in the stack
  joined,          \* is the shelf in a network?
  factoryNew,      \* ezb_bdb_is_factory_new(), kept in flash
  alarms,          \* started retry alarms, by commissioning mode
  refused,         \* history: was a procedure, or the alarm to retry one,
                   \* refused since power on?
  reported,        \* value the last step reported upstream, as a set
  clash,           \* history: did the last change of the LED overlap another?
  restarts,        \* restarts so far (bounded by MaxRestarts)
  down, attached, intr, queue, task, served,     \* of the button driver
  ready, pixel, lit, refreshing                  \* of the LED

Drv == INSTANCE SwitchDriver
Led == INSTANCE StatusLed WITH Task <- {"zigbee", "button"}

drvVars  == <<down, attached, intr, queue, task, served>>
ledVars  == <<ready, pixel, lit, refreshing>>
zbVars   == <<zb, arg>>
netVars  == <<bdb, joined, factoryNew, alarms, refused>>
vars     == <<state, attr, zbVars, button, netVars, reported, clash, restarts,
              drvVars, ledVars>>

Mode == {"initialization", "steering"}

(* shelf_create_ha_on_off_light_device resets state and attribute.         *)
Init ==
  /\ state = 0
  /\ attr = 0
  /\ zb = "idle"
  /\ arg = 0
  /\ button = "idle"
  /\ bdb = "off"
  /\ joined = FALSE
  /\ factoryNew \in BOOLEAN
  /\ alarms = [m \in Mode |-> 0]
  /\ refused = FALSE
  /\ reported = {}
  /\ clash = FALSE
  /\ restarts = 0
  /\ Drv!Init
  /\ Led!Init

-----------------------------------------------------------------------------
(* The Zigbee task or the timer task gets the lock.                        *)
LockFree == zb = "idle"

(* Stretches in which a task is about to change the LED, or changing it.   *)
ZigbeeLights ==
  zb \in {"initLed", "initPixel", "initRefresh",
          "write", "evaluate", "pixel", "refresh"}
ButtonLights == button = "refresh"

(* alarm_timer_schedule; its result is ignored.                            *)
Schedule(mode) ==
  alarms' \in {[alarms EXCEPT ![mode] = @ + 1]}
                \cup (IF AlarmFaults THEN {alarms} ELSE {})

(* ezb_bdb_start_top_level_commissioning; its result is ignored too.  A    *)
(* procedure that was refused sends no signal later.                       *)
StartCommissioning(mode) ==
  \/ /\ bdb' = mode
     /\ UNCHANGED refused
  \/ /\ StartFaults
     /\ bdb' = "none"
     /\ refused' = TRUE

(* A procedure has failed and its retry is scheduled.                      *)
ScheduleRetry(mode) ==
  /\ bdb' = "none"
  /\ Schedule(mode)
  /\ refused' = (refused \/ alarms' = alarms)

(* Frames: a step of commissioning, and one inside a handler of the Zigbee *)
(* task.                                                                   *)
OnlyCommissioning ==
  /\ reported' = {}
  /\ UNCHANGED <<state, attr, zbVars, button, clash, restarts, drvVars, ledVars>>

InsideHandler ==
  /\ reported' = {}
  /\ UNCHANGED <<button, netVars, clash, restarts, drvVars>>

-----------------------------------------------------------------------------
(* esp_zigbee_app_signal_handler.                                          *)

SkipStartup ==
  /\ LockFree
  /\ bdb = "off"
  /\ StartCommissioning("initialization")
  /\ OnlyCommissioning
  /\ UNCHANGED <<joined, factoryNew, alarms>>

(* FIRST_START or REBOOT, successful: a shelf that was in a network is back*)
(* in it.  deferred_driver_init, first the button, which is live from here *)
(* on ...                                                                  *)
StartSucceeded ==
  /\ LockFree
  /\ bdb = "initialization"
  /\ bdb' = "none"
  /\ joined' = ~factoryNew
  /\ \/ Drv!Attach /\ zb' = "initLed"
     \/ Drv!AttachFailed /\ zb' = "steer"
  /\ clash' = FALSE
  /\ reported' = {}
  /\ UNCHANGED <<state, attr, arg, button, factoryNew, alarms, refused,
                 restarts, ledVars>>

(* ... then the LED, switched off whatever the button did meanwhile.       *)
InitLed ==
  /\ zb = "initLed"
  /\ \/ Led!Prepare /\ zb' = "initPixel"
     \/ InitFaults /\ zb' = "steer" /\ UNCHANGED ledVars
  /\ InsideHandler
  /\ UNCHANGED <<state, attr, arg>>

InitPixel ==
  /\ zb = "initPixel"
  /\ Led!Set(0, "zigbee")
  /\ zb' = "initRefresh"
  /\ InsideHandler
  /\ UNCHANGED <<state, attr, arg>>

InitRefreshed ==
  /\ zb = "initRefresh"
  /\ Led!Refreshed("zigbee")
  /\ zb' = "steer"
  /\ InsideHandler
  /\ UNCHANGED <<state, attr, arg>>

(* Both branches start steering: a new device joins by it, and one that is *)
(* already back in its network steers once more.                           *)
StartSteering ==
  /\ zb = "steer"
  /\ zb' = "idle"
  /\ StartCommissioning("steering")
  /\ reported' = {}
  /\ UNCHANGED <<state, attr, arg, button, joined, factoryNew, alarms, clash,
                 restarts, drvVars, ledVars>>

StartFailed ==
  /\ LockFree
  /\ bdb = "initialization"
  /\ ScheduleRetry("initialization")
  /\ OnlyCommissioning
  /\ UNCHANGED <<joined, factoryNew>>

SteeringSucceeded ==
  /\ LockFree
  /\ bdb = "steering"
  /\ bdb' = "none"
  /\ joined' = TRUE
  /\ factoryNew' = FALSE
  /\ OnlyCommissioning
  /\ UNCHANGED <<alarms, refused>>

(* No retry, or one at once and one by the alarm: for mutation tests.      *)
SteeringGivesUp ==
  /\ LockFree
  /\ bdb = "steering"
  /\ bdb' = "none"
  /\ OnlyCommissioning
  /\ UNCHANGED <<joined, factoryNew, alarms, refused>>

SteeringRetriedTwice ==
  /\ LockFree
  /\ bdb = "steering"
  /\ StartCommissioning("steering")
  /\ Schedule("steering")
  /\ OnlyCommissioning
  /\ UNCHANGED <<joined, factoryNew>>

(* The retry is scheduled on a shelf that is in its network, too.          *)
SteeringFailed ==
  /\ LockFree
  /\ bdb = "steering"
  /\ ScheduleRetry("steering")
  /\ OnlyCommissioning
  /\ UNCHANGED <<joined, factoryNew>>

(* The handler of the start signal is under way to StartSteering.          *)
Starting == zb \in {"initLed", "initPixel", "initRefresh", "steer"}

(* Timer task: esp_zigbee_alarm_bdb_commissioning.                         *)
RetryCommissioning(mode) ==
  /\ LockFree
  /\ alarms[mode] > 0
  /\ alarms' = [alarms EXCEPT ![mode] = @ - 1]
  /\ StartCommissioning(mode)
  /\ OnlyCommissioning
  /\ UNCHANGED <<joined, factoryNew>>

(* A leave of the shelf falls into the default case of the handler; the    *)
(* stack forgets the network.                                              *)
LeaveNetwork ==
  /\ Removals
  /\ LockFree
  /\ joined
  /\ joined' = FALSE
  /\ factoryNew' = TRUE
  /\ OnlyCommissioning
  /\ UNCHANGED <<bdb, alarms, refused>>

-----------------------------------------------------------------------------
(* A command from the network.  The stack sets the attribute and calls     *)
(* zcl_core_set_attr_value_handler with the value.                         *)
SetAttrValue(v) ==
  /\ LockFree
  /\ joined
  /\ attr' = v
  /\ arg' = v
  /\ zb' = "write"
  /\ clash' = ButtonLights
  /\ reported' = {}
  /\ UNCHANGED <<state, button, netVars, restarts, drvVars, ledVars>>

(* shelf_apply_local_state in the Zigbee task, one access after the other: *)
(* s_shelf_state is written,                                               *)
ApplyState ==
  /\ zb = "write"
  /\ state' = arg
  /\ zb' = "evaluate"
  /\ InsideHandler
  /\ UNCHANGED <<attr, arg, ledVars>>

(* read for the argument of status_led_set, which tests s_initialized,     *)
EvaluateState ==
  /\ zb = "evaluate"
  /\ arg' = state
  /\ zb' = IF ready THEN "pixel" ELSE "attr"
  /\ InsideHandler
  /\ UNCHANGED <<state, attr, ledVars>>

(* the LED changes,                                                        *)
SetPixel ==
  /\ zb = "pixel"
  /\ Led!Set(arg, "zigbee")
  /\ zb' = "refresh"
  /\ InsideHandler
  /\ UNCHANGED <<state, attr, arg>>

PixelRefreshed ==
  /\ zb = "refresh"
  /\ Led!Refreshed("zigbee")
  /\ zb' = "attr"
  /\ InsideHandler
  /\ UNCHANGED <<state, attr, arg>>

(* and s_shelf_state is read once more, by ezb_zcl_set_attr_value.         *)
PublishState ==
  /\ zb = "attr"
  /\ attr' = state
  /\ zb' = "idle"
  /\ InsideHandler
  /\ UNCHANGED <<state, arg, ledVars>>

-----------------------------------------------------------------------------
(* The button task: button_event_handler, shelf_toggle_local_state.        *)

(* The LED set from the old state, for a mutation test.                    *)
LedFirst ==
  /\ Drv!Receive
  /\ state' = 1 - state
  /\ IF ready THEN Led!Set(state, "button") /\ button' = "refresh"
              ELSE UNCHANGED ledVars /\ button' = "attr"
  /\ clash' = ZigbeeLights
  /\ reported' = {}
  /\ UNCHANGED <<attr, zbVars, netVars, restarts>>

(* The state counted up instead of toggled, for a mutation test.           *)
ToggleCounts ==
  /\ Drv!Receive
  /\ state' = state + 1
  /\ IF ready THEN Led!Set(state', "button") /\ button' = "refresh"
              ELSE UNCHANGED ledVars /\ button' = "attr"
  /\ clash' = ZigbeeLights
  /\ reported' = {}
  /\ UNCHANGED <<attr, zbVars, netVars, restarts>>

(* The event arrives, the state is toggled and the LED is set.             *)
Toggle ==
  /\ Drv!Receive
  /\ state' = 1 - state
  /\ IF ready THEN Led!Set(state', "button") /\ button' = "refresh"
              ELSE UNCHANGED ledVars /\ button' = "attr"
  /\ clash' = ZigbeeLights
  /\ reported' = {}
  /\ UNCHANGED <<attr, zbVars, netVars, restarts>>

ToggleRefreshed ==
  /\ button = "refresh"
  /\ Led!Refreshed("button")
  /\ button' = "attr"
  /\ reported' = {}
  /\ UNCHANGED <<state, attr, zbVars, netVars, clash, restarts, drvVars>>

(* The attribute not written, for a mutation test.                         *)
PublishNothing ==
  /\ button = "attr"
  /\ LockFree
  /\ button' = "report"
  /\ reported' = {}
  /\ UNCHANGED <<state, attr, zbVars, netVars, clash, restarts, drvVars, ledVars>>

(* The button task gets the lock and sets the attribute, to the state of   *)
(* this moment.                                                            *)
PublishToggle ==
  /\ button = "attr"
  /\ LockFree
  /\ attr' = state
  /\ button' = "report"
  /\ reported' = {}
  /\ UNCHANGED <<state, zbVars, netVars, clash, restarts, drvVars, ledVars>>

(* The report without the lock, for a mutation test.                       *)
ReportUnlocked ==
  /\ button = "report"
  /\ button' = "idle"
  /\ Drv!CallbackReturned
  /\ reported' \in {{}} \cup (IF joined THEN {{attr}} ELSE {})
  /\ UNCHANGED <<state, attr, zbVars, netVars, clash, restarts, ledVars>>

(* shelf_report_state_upstream gets the lock a second time; the stack      *)
(* reports the attribute.  A report that fails is logged and forgotten.    *)
ReportState ==
  /\ button = "report"
  /\ LockFree
  /\ button' = "idle"
  /\ Drv!CallbackReturned
  /\ reported' \in (IF joined THEN {{attr}} ELSE {{}})
                     \cup (IF RadioFaults THEN {{}} ELSE {})
  /\ UNCHANGED <<state, attr, zbVars, netVars, clash, restarts, ledVars>>

-----------------------------------------------------------------------------
(* Steps of the driver alone.                                              *)
ButtonDriver ==
  /\ Drv!GpioIsr \/ Drv!DelayOver \/ Drv!Press \/ Drv!Release
  /\ reported' = {}
  /\ UNCHANGED <<state, attr, zbVars, button, netVars, clash, restarts, ledVars>>

(* A failed ESP_ERROR_CHECK, a watchdog or the power supply.               *)
Restart ==
  /\ restarts < MaxRestarts
  /\ restarts' = restarts + 1
  /\ state' = 0
  /\ attr' = 0
  /\ zb' = "idle"
  /\ arg' = 0
  /\ button' = "idle"
  /\ bdb' = "off"
  /\ joined' = FALSE
  /\ alarms' = [m \in Mode |-> 0]
  /\ refused' = FALSE
  /\ reported' = {}
  /\ clash' = FALSE
  /\ Drv!PowerOff
  /\ Led!PowerOff
  /\ UNCHANGED factoryNew

-----------------------------------------------------------------------------
Commissioning ==
  \/ SkipStartup
  \/ StartSucceeded
  \/ StartFailed
  \/ StartSteering
  \/ SteeringSucceeded
  \/ SteeringFailed
  \/ \E mode \in Mode : RetryCommissioning(mode)
  \/ LeaveNetwork

LedInitialization == InitLed \/ InitPixel \/ InitRefreshed

Command ==
  \/ \E v \in {0, 1} : SetAttrValue(v)
  \/ ApplyState
  \/ EvaluateState
  \/ SetPixel
  \/ PixelRefreshed
  \/ PublishState

ButtonPress == Toggle \/ ToggleRefreshed \/ PublishToggle \/ ReportState

Next ==
  \/ Commissioning
  \/ LedInitialization
  \/ Command
  \/ ButtonPress
  \/ ButtonDriver
  \/ Restart

Spec == Init /\ [][Next]_vars

(***************************************************************************)
(* Fairness.  A handler that has begun goes on, a refresh ends, the delay  *)
(* ends.  The button task has the highest priority of those that wait for  *)
(* the lock, so it gets the lock although the Zigbee task takes it again   *)
(* and again: strong fairness.  The stack answers every procedure it has   *)
(* started, and not with a failure for ever.  Nothing is assumed of finger *)
(* and network.                                                            *)
(***************************************************************************)
TaskFairness ==
  /\ WF_vars(LedInitialization \/ StartSteering)
  /\ WF_vars(ApplyState \/ EvaluateState \/ SetPixel \/ PixelRefreshed
               \/ PublishState)
  /\ WF_vars(Toggle)
  /\ WF_vars(ToggleRefreshed)
  /\ SF_vars(PublishToggle)
  /\ SF_vars(ReportState)
  /\ WF_vars(ButtonDriver /\ Drv!DelayOver)

StackFairness ==
  /\ SF_vars(SkipStartup)
  /\ SF_vars(StartSucceeded)
  /\ SF_vars(SteeringSucceeded)
  /\ \A mode \in Mode : SF_vars(RetryCommissioning(mode))

FairSpec == Spec /\ TaskFairness /\ StackFairness

-----------------------------------------------------------------------------
(* Properties.                                                             *)

(* Type invariant of the shelf, its button and its LED.                    *)
TypeOK ==
  /\ state \in {0, 1}
  /\ attr \in {0, 1}
  /\ zb \in {"idle", "initLed", "initPixel", "initRefresh", "steer",
             "write", "evaluate", "pixel", "refresh", "attr"}
  /\ arg \in {0, 1}
  /\ button \in {"idle", "refresh", "attr", "report"}
  /\ bdb \in {"off", "none", "initialization", "steering"}
  /\ joined \in BOOLEAN
  /\ factoryNew \in BOOLEAN
  /\ alarms \in [Mode -> Nat]
  /\ refused \in BOOLEAN
  /\ reported \in SUBSET {0, 1}
  /\ clash \in BOOLEAN
  /\ restarts \in Nat
  /\ Drv!TypeOK
  /\ Led!TypeOK

(* s_shelf_state and the attribute are written by two tasks without a      *)
(* common lock.  They differ only while one of them is on its way to       *)
(* ezb_zcl_set_attr_value; in the end the network sees the shelf's state,  *)
(* however the two tasks interleaved.                                      *)
AttributeFollowsState ==
  attr # state => zb \in {"write", "evaluate", "pixel", "refresh", "attr"}
                    \/ button \in {"refresh", "attr"}

(* A report carries the state the shelf has when it is sent, although the  *)
(* button task gives up the lock between setting and reporting it.         *)
ReportIsState == [][reported' \subseteq {state}]_vars

(* At rest the LED shows the state of the shelf, unless two changes of the *)
(* LED overlapped: a press during a command or during the initialization   *)
(* of the LED.  The next change that is alone repairs it.                  *)
LedShowsState ==
  ready /\ ~ZigbeeLights /\ ~ButtonLights /\ ~clash => lit = state

(* The right to the next button event is in exactly one place (see         *)
(* SwitchDriver), with the callback of the shelf in the driver's loop.     *)
ButtonHandOver == Drv!HandOver

(* At most one commissioning procedure or retry is under way: no alarm is  *)
(* left over that would start a second one beside it or beside the handler *)
(* that starts steering.  Steering and its retries go on after a reboot    *)
(* although the shelf is back in its network, but the initialization of    *)
(* the stack is over by then: no late retry starts it under a shelf that   *)
(* has joined.                                                             *)
OneCommissioner ==
  /\ alarms["initialization"] + alarms["steering"] <= 1
  /\ alarms["initialization"] + alarms["steering"] = 1 => bdb = "none" /\ ~Starting
  /\ joined => bdb \notin {"off", "initialization"} /\ alarms["initialization"] = 0

(* The shelf is on its way into the network: a procedure runs, the drivers *)
(* are initialized in the handler that will start the next one, or a retry *)
(* alarm is set.                                                           *)
Joining ==
  \/ bdb # "none"
  \/ Starting
  \/ alarms["initialization"] + alarms["steering"] = 1

(* ... and it stays on its way until it is there, through failures of the  *)
(* drivers and of both procedures, presses, commands and restarts; only a  *)
(* procedure or an alarm that was refused, which nobody notices, ends it.  *)
JoiningGoesOn ==
  [][Joining => Joining' \/ joined' \/ refused']_vars

(* led_strip_refresh succeeds, says the assertion around it.  The driver   *)
(* has one channel and one pixel and no lock; it needs its callers to come *)
(* one after the other.                                                    *)
RefreshIsExclusive == ~(refreshing = {"zigbee", "button"})

(* One press, one interrupt (see SwitchDriver).                            *)
PressTogglesOnce == Drv!PressHandledOnce

(* The button works again after every press, whatever the Zigbee task does *)
(* with the lock.                                                          *)
ButtonComesBack == task = "callback" ~> (intr \/ task = "none")

(* Commissioning that is under way, or that a start begins, leads to the   *)
(* network, through failures and restarts, unless the stack refuses to go  *)
(* on.                                                                     *)
ShelfJoins == bdb # "none" ~> (joined \/ refused)
=============================================================================
