-------------------------- MODULE ShelfNodeProofs --------------------------
(***************************************************************************)
(* Theorems about ShelfNode, for every length of the button's queue and    *)
(* every number of restarts, with and without failures and removals.       *)
(***************************************************************************)
EXTENDS ShelfNode, TLAPS

-----------------------------------------------------------------------------
(* The button driver.  Its invariants are inductive for its own next-state *)
(* relation, and every step of the shelf is a step of the driver.          *)

LEMMA ShelfStepsDriver == [Next]_vars => [Drv!Next]_(Drv!vars)
<1> SUFFICES ASSUME [Next]_vars PROVE Drv!Next \/ UNCHANGED Drv!vars
  OBVIOUS
<1> USE DEF Drv!vars, drvVars, OnlyCommissioning, InsideHandler
<1>1. CASE StartSucceeded
  BY <1>1 DEF StartSucceeded, Drv!Next
<1>2. CASE Toggle
  BY <1>2 DEF Toggle, Drv!Next
<1>3. CASE ReportState
  BY <1>3 DEF ReportState, Drv!Next
<1>4. CASE ButtonDriver
  BY <1>4 DEF ButtonDriver, Drv!Next
<1>5. CASE Restart
  BY <1>5 DEF Restart, Drv!Next
<1>6. CASE Commissioning /\ ~StartSucceeded
  BY <1>6 DEF Commissioning, SkipStartup, StartFailed, StartSteering,
     SteeringSucceeded, SteeringFailed, RetryCommissioning, LeaveNetwork
<1>7. CASE LedInitialization
  BY <1>7 DEF LedInitialization, InitLed, InitPixel, InitRefreshed
<1>8. CASE Command
  BY <1>8 DEF Command, SetAttrValue, ApplyState, EvaluateState, SetPixel,
     PixelRefreshed, PublishState
<1>9. CASE ToggleRefreshed \/ PublishToggle
  BY <1>9 DEF ToggleRefreshed, PublishToggle
<1>10. CASE UNCHANGED vars
  BY <1>10 DEF vars
<1> QED
  BY <1>1, <1>2, <1>3, <1>4, <1>5, <1>6, <1>7, <1>8, <1>9, <1>10
     DEF Next, ButtonPress

(* The driver by itself keeps the right to the next event in one place.    *)
LEMMA DriverStep ==
  ASSUME Drv!TypeOK, Drv!HandOver, [Drv!Next]_(Drv!vars)
  PROVE  Drv!TypeOK' /\ Drv!HandOver'
<1>1. Drv!TypeOK'
  <2> USE DEF Drv!TypeOK
  <2>0. 0 \in 0 .. QueueLength
    BY ShelfNodeAssumption
  <2>1. CASE Drv!Attach \/ Drv!AttachFailed
    BY <2>1 DEF Drv!Attach, Drv!AttachFailed
  <2>2. CASE Drv!GpioIsr
    <3>1. queue' \in 0 .. QueueLength
      BY <2>2, ShelfNodeAssumption DEF Drv!GpioIsr
    <3> QED
      BY <2>2, <3>1 DEF Drv!GpioIsr
  <2>3. CASE Drv!Receive
    <3>1. queue' \in 0 .. QueueLength
      BY <2>3, ShelfNodeAssumption DEF Drv!Receive
    <3> QED
      BY <2>3, <3>1 DEF Drv!Receive
  <2>7. CASE Drv!CallbackReturned \/ Drv!DelayOver
    BY <2>7 DEF Drv!CallbackReturned, Drv!DelayOver
  <2>4. CASE Drv!Press \/ Drv!Release
    BY <2>4 DEF Drv!Press, Drv!Release
  <2>5. CASE Drv!PowerOff
    BY <2>0, <2>5 DEF Drv!PowerOff
  <2>6. CASE UNCHANGED Drv!vars
    BY <2>6 DEF Drv!vars
  <2> QED
    BY <2>1, <2>2, <2>3, <2>4, <2>5, <2>6, <2>7 DEF Drv!Next
<1>2. Drv!HandOver'
  <2> USE ShelfNodeAssumption DEF Drv!HandOver, Drv!Holders
  <2>0. queue \in Nat /\ attached \in BOOLEAN /\ intr \in BOOLEAN
    BY DEF Drv!TypeOK
  <2>1. CASE Drv!Attach
    BY <2>0, <2>1 DEF Drv!Attach
  <2>2. CASE Drv!AttachFailed
    BY <2>0, <2>2 DEF Drv!AttachFailed
  <2>3. CASE Drv!GpioIsr
    BY <2>0, <2>3 DEF Drv!GpioIsr
  <2>4. CASE Drv!Receive
    BY <2>0, <2>4 DEF Drv!Receive
  <2>5. CASE Drv!CallbackReturned
    BY <2>0, <2>5 DEF Drv!CallbackReturned
  <2>6. CASE Drv!DelayOver
    BY <2>0, <2>6 DEF Drv!DelayOver
  <2>7. CASE Drv!Press \/ Drv!Release
    BY <2>7 DEF Drv!Press, Drv!Release
  <2>8. CASE Drv!PowerOff
    BY <2>8 DEF Drv!PowerOff
  <2>9. CASE UNCHANGED Drv!vars
    BY <2>9 DEF Drv!vars
  <2> QED
    BY <2>1, <2>2, <2>3, <2>4, <2>5, <2>6, <2>7, <2>8, <2>9 DEF Drv!Next
<1> QED
  BY <1>1, <1>2

(* The event of the button has exactly one holder: it is never lost.       *)
THEOREM EventHasOneHolder == Spec => [](Drv!TypeOK /\ ButtonHandOver)
<1>1. Init => Drv!TypeOK /\ Drv!HandOver
  <2> SUFFICES ASSUME Init PROVE Drv!TypeOK /\ Drv!HandOver
    OBVIOUS
  <2>1. 0 \in 0 .. QueueLength
    BY ShelfNodeAssumption
  <2>2. Drv!TypeOK
    BY <2>1 DEF Init, Drv!Init, Drv!TypeOK
  <2>3. Drv!HandOver
    BY DEF Init, Drv!Init, Drv!HandOver, Drv!Holders
  <2> QED
    BY <2>2, <2>3
<1>2. Drv!TypeOK /\ Drv!HandOver /\ [Next]_vars
        => (Drv!TypeOK /\ Drv!HandOver)'
  BY ShelfStepsDriver, DriverStep
<1> QED
  BY <1>1, <1>2, PTL DEF Spec, ButtonHandOver

-----------------------------------------------------------------------------
(* The type invariant.                                                     *)

(* A retry is under way, or the history notes that it was refused.         *)
LEMMA ScheduleRetryFacts ==
  ASSUME alarms \in [Mode -> Nat], refused \in BOOLEAN, NEW mode \in Mode,
         ScheduleRetry(mode)
  PROVE  /\ bdb' = "none" /\ refused' \in BOOLEAN
         /\ alarms' \in [Mode -> Nat]
         /\ \A m \in Mode \ {mode} : alarms'[m] = alarms[m]
         /\ \/ alarms'[mode] = alarms[mode] + 1
            \/ alarms'[mode] = alarms[mode] /\ refused' = TRUE
<1>1. CASE alarms' = alarms
  BY <1>1 DEF ScheduleRetry
<1>2. CASE alarms' # alarms
  <2>1. alarms' = [alarms EXCEPT ![mode] = @ + 1] /\ refused' = refused
    BY <1>2 DEF ScheduleRetry, Schedule
  <2> QED
    BY <2>1 DEF ScheduleRetry
<1> QED
  BY <1>1, <1>2

(* A procedure runs, or the history notes that it was refused.             *)
LEMMA StartCommissioningFacts ==
  ASSUME refused \in BOOLEAN, NEW mode, StartCommissioning(mode)
  PROVE  /\ refused' \in BOOLEAN
         /\ \/ bdb' = mode
            \/ bdb' = "none" /\ refused' = TRUE
BY DEF StartCommissioning

LEMMA TypeStep ==
  ASSUME TypeOK, Drv!HandOver, [Next]_vars
  PROVE  TypeOK'
<1> USE DEF TypeOK, Led!TypeOK, zbVars, netVars, ledVars, OnlyCommissioning,
            InsideHandler
<1>0. Drv!TypeOK'
  BY ShelfStepsDriver, DriverStep
<1>1. CASE SkipStartup
  <2>1. bdb' \in {"initialization", "none"} /\ refused' \in BOOLEAN
    BY <1>1, StartCommissioningFacts DEF SkipStartup
  <2> QED
    BY <1>0, <1>1, <2>1 DEF SkipStartup
<1>2. CASE StartSteering
  BY <1>0, <1>2, StartCommissioningFacts DEF StartSteering
<1>3. CASE SteeringSucceeded
  <2>1. joined' \in BOOLEAN /\ factoryNew' \in BOOLEAN /\ refused' \in BOOLEAN
    BY <1>3 DEF SteeringSucceeded
  <2> QED
    BY <1>0, <1>3, <2>1 DEF SteeringSucceeded
<1>4. CASE LeaveNetwork
  <2>1. joined' \in BOOLEAN
    BY <1>4 DEF LeaveNetwork
  <2> QED
    BY <1>0, <1>4, <2>1 DEF LeaveNetwork
<1>5. CASE StartSucceeded
  BY <1>0, <1>5 DEF StartSucceeded
<1>6. CASE StartFailed
  <2>1. alarms' \in [Mode -> Nat] /\ bdb' = "none" /\ refused' \in BOOLEAN
    BY <1>6, ScheduleRetryFacts DEF StartFailed, Mode
  <2> QED
    BY <1>0, <1>6, <2>1 DEF StartFailed
<1>7. CASE SteeringFailed
  <2>1. alarms' \in [Mode -> Nat] /\ bdb' = "none" /\ refused' \in BOOLEAN
    BY <1>7, ScheduleRetryFacts DEF SteeringFailed, Mode
  <2> QED
    BY <1>0, <1>7, <2>1 DEF SteeringFailed
<1>8. ASSUME NEW mode \in Mode, RetryCommissioning(mode)
      PROVE  TypeOK'
  <2>1. alarms' \in [Mode -> Nat]
    BY <1>8 DEF RetryCommissioning
  <2> QED
    <3>1. bdb' \in {mode, "none"} /\ refused' \in BOOLEAN
      BY <1>8, StartCommissioningFacts DEF RetryCommissioning
    <3> QED
      BY <1>0, <1>8, <2>1, <3>1 DEF RetryCommissioning, Mode
<1>9. CASE InitLed
  <2>1. /\ ready' \in BOOLEAN /\ pixel' = pixel /\ lit' = lit
        /\ refreshing' = refreshing
    BY <1>9 DEF InitLed, Led!Prepare
  <2> QED
    BY <1>0, <1>9, <2>1 DEF InitLed
<1>10. CASE InitPixel \/ InitRefreshed
  <2>1. CASE InitPixel
    BY <1>0, <2>1 DEF InitPixel, Led!Set
  <2>2. CASE InitRefreshed
    BY <1>0, <2>2 DEF InitRefreshed, Led!Refreshed
  <2> QED
    BY <1>10, <2>1, <2>2
<1>11. ASSUME NEW v \in {0, 1}, SetAttrValue(v)
      PROVE  TypeOK'
  BY <1>0, <1>11 DEF SetAttrValue, ButtonLights
<1>12. CASE ApplyState
  BY <1>0, <1>12 DEF ApplyState
<1>13. CASE PublishState
  BY <1>0, <1>13 DEF PublishState
<1>14. CASE EvaluateState
  <2>1. zb' \in {"pixel", "attr"}
    BY <1>14 DEF EvaluateState
  <2> QED
    BY <1>0, <1>14, <2>1 DEF EvaluateState
<1>15. CASE SetPixel \/ PixelRefreshed
  <2>1. CASE SetPixel
    BY <1>0, <2>1 DEF SetPixel, Led!Set
  <2>2. CASE PixelRefreshed
    BY <1>0, <2>2 DEF PixelRefreshed, Led!Refreshed
  <2> QED
    BY <1>15, <2>1, <2>2
<1>16. CASE Toggle
  <2>1. /\ state' \in {0, 1}
        /\ clash' \in BOOLEAN
    BY <1>16 DEF Toggle, ZigbeeLights
  <2>2. button' \in {"refresh", "attr"}
    BY <1>16 DEF Toggle
  <2>3. Led!TypeOK'
    BY <1>16, <2>1 DEF Toggle, Led!Set
  <2> QED
    BY <1>0, <1>16, <2>1, <2>2, <2>3 DEF Toggle
<1>17. CASE ToggleRefreshed
  BY <1>0, <1>17 DEF ToggleRefreshed, Led!Refreshed
<1>18. CASE PublishToggle
  BY <1>0, <1>18 DEF PublishToggle
<1>19. CASE ReportState
  BY <1>0, <1>19 DEF ReportState
<1>20. CASE ButtonDriver
  BY <1>0, <1>20 DEF ButtonDriver
<1>21. CASE Restart
  <2>1. Led!TypeOK'
    BY <1>21 DEF Restart, Led!PowerOff
  <2>2. alarms' \in [Mode -> Nat] /\ restarts' \in Nat
    BY <1>21 DEF Restart
  <2> QED
    BY <1>0, <1>21, <2>1, <2>2 DEF Restart
<1>22. CASE UNCHANGED vars
  BY <1>0, <1>22 DEF vars
<1> QED
  BY <1>1, <1>2, <1>3, <1>4, <1>5, <1>6, <1>7, <1>8, <1>9, <1>10, <1>11,
     <1>12, <1>13, <1>14, <1>15, <1>16, <1>17, <1>18, <1>19, <1>20, <1>21,
     <1>22
     DEF Next, Commissioning, LedInitialization, Command, ButtonPress

(* TypeOK holds in every reachable state.                                  *)
THEOREM Typing == Spec => []TypeOK
<1>1. Init => TypeOK
  <2> SUFFICES ASSUME Init PROVE TypeOK
    OBVIOUS
  <2>1. Drv!TypeOK
    <3>1. 0 \in 0 .. QueueLength
      BY ShelfNodeAssumption
    <3> QED
      BY <3>1 DEF Init, Drv!Init, Drv!TypeOK
  <2>2. Led!TypeOK
    BY DEF Init, Led!Init, Led!TypeOK
  <2>3. alarms \in [Mode -> Nat]
    BY DEF Init
  <2> QED
    BY <2>1, <2>2, <2>3 DEF Init, TypeOK
<1>2. TypeOK /\ Drv!HandOver /\ [Next]_vars => TypeOK'
  BY TypeStep
<1> QED
  BY <1>1, <1>2, EventHasOneHolder, PTL DEF Spec, ButtonHandOver

-----------------------------------------------------------------------------
(* State, attribute and report.                                            *)

LEMMA AttributeStep ==
  ASSUME AttributeFollowsState, [Next]_vars
  PROVE  AttributeFollowsState'
<1> USE DEF AttributeFollowsState, zbVars, OnlyCommissioning, InsideHandler
<1>1. CASE Commissioning
  BY <1>1 DEF Commissioning, SkipStartup, StartSucceeded, StartFailed,
     StartSteering, SteeringSucceeded, SteeringFailed, RetryCommissioning,
     LeaveNetwork, LockFree
<1>2. CASE LedInitialization
  BY <1>2 DEF LedInitialization, InitLed, InitPixel, InitRefreshed
<1>3. CASE \E v \in {0, 1} : SetAttrValue(v)
  BY <1>3 DEF SetAttrValue
<1>4. CASE ApplyState \/ EvaluateState \/ SetPixel \/ PixelRefreshed
  BY <1>4 DEF ApplyState, EvaluateState, SetPixel, PixelRefreshed
<1>5. CASE PublishState
  BY <1>5 DEF PublishState
<1>6. CASE Toggle
  BY <1>6 DEF Toggle
<1>7. CASE ToggleRefreshed
  BY <1>7 DEF ToggleRefreshed
<1>8. CASE PublishToggle
  BY <1>8 DEF PublishToggle
<1>9. CASE ReportState
  BY <1>9 DEF ReportState
<1>10. CASE ButtonDriver
  BY <1>10 DEF ButtonDriver
<1>11. CASE Restart
  BY <1>11 DEF Restart
<1>12. CASE UNCHANGED vars
  BY <1>12 DEF vars
<1> QED
  BY <1>1, <1>2, <1>3, <1>4, <1>5, <1>6, <1>7, <1>8, <1>9, <1>10, <1>11, <1>12
     DEF Next, Command, ButtonPress

(* The attribute is the shelf's state whenever no task is on its way to    *)
(* set it.                                                                 *)
THEOREM AttributeIsState == Spec => []AttributeFollowsState
<1>1. Init => AttributeFollowsState
  BY DEF Init, AttributeFollowsState
<1> QED
  BY <1>1, AttributeStep, PTL DEF Spec

(* The only step that reports runs under the lock, with the button task    *)
(* past its own write: the attribute it sends is the state.                *)
LEMMA ReportStep ==
  ASSUME AttributeFollowsState, [Next]_vars
  PROVE  reported' \subseteq {state} \/ UNCHANGED vars
<1> USE DEF OnlyCommissioning, InsideHandler
<1>1. CASE ReportState
  BY <1>1 DEF ReportState, AttributeFollowsState, LockFree
<1>2. CASE Commissioning
  BY <1>2 DEF Commissioning, SkipStartup, StartSucceeded, StartFailed,
     StartSteering, SteeringSucceeded, SteeringFailed, RetryCommissioning,
     LeaveNetwork
<1>3. CASE LedInitialization
  BY <1>3 DEF LedInitialization, InitLed, InitPixel, InitRefreshed
<1>4. CASE Command
  BY <1>4 DEF Command, SetAttrValue, ApplyState, EvaluateState, SetPixel,
     PixelRefreshed, PublishState
<1>5. CASE Toggle \/ ToggleRefreshed \/ PublishToggle
  BY <1>5 DEF Toggle, ToggleRefreshed, PublishToggle
<1>6. CASE ButtonDriver \/ Restart
  BY <1>6 DEF ButtonDriver, Restart
<1> QED
  BY <1>1, <1>2, <1>3, <1>4, <1>5, <1>6 DEF Next, ButtonPress

(* Every report carries the state the shelf has at that moment.            *)
THEOREM ReportsAreCurrent == Spec => ReportIsState
<1>1. AttributeFollowsState /\ [Next]_vars => [reported' \subseteq {state}]_vars
  BY ReportStep
<1> QED
  BY <1>1, AttributeIsState, PTL DEF Spec, ReportIsState
-----------------------------------------------------------------------------
(* Commissioning.                                                          *)

(* While the drivers are initialized, between the success of the start and *)
(* the first steering, no procedure and no retry is under way.             *)
InitializationIsQuiet ==
  Starting => /\ bdb = "none"
              /\ alarms["initialization"] = 0 /\ alarms["steering"] = 0

CommissioningBooks == OneCommissioner /\ InitializationIsQuiet

LEMMA CommissioningStep ==
  ASSUME TypeOK, CommissioningBooks, [Next]_vars
  PROVE  CommissioningBooks'
<1> USE DEF CommissioningBooks, OneCommissioner, InitializationIsQuiet, Starting,
            OnlyCommissioning, InsideHandler
<1>1. /\ alarms["initialization"] \in Nat /\ alarms["steering"] \in Nat
      /\ alarms \in [Mode -> Nat] /\ refused \in BOOLEAN
  BY DEF TypeOK, Mode
<1>2. CASE SkipStartup
  BY <1>1, <1>2 DEF SkipStartup, StartCommissioning, LockFree, zbVars
<1>3. CASE StartSucceeded
  BY <1>1, <1>3 DEF StartSucceeded
<1>4. CASE LedInitialization
  BY <1>4 DEF LedInitialization, InitLed, InitPixel, InitRefreshed, netVars
<1>5. CASE StartSteering
  BY <1>1, <1>5 DEF StartSteering, StartCommissioning
<1>6. CASE StartFailed
  <2>1. /\ alarms'["initialization"]
             \in {alarms["initialization"], alarms["initialization"] + 1}
        /\ alarms'["steering"] = alarms["steering"]
    BY <1>1, <1>6, ScheduleRetryFacts DEF StartFailed, Mode
  <2> QED
    BY <1>1, <1>6, <2>1 DEF StartFailed, ScheduleRetry, LockFree, zbVars
<1>7. CASE SteeringSucceeded
  BY <1>1, <1>7 DEF SteeringSucceeded, LockFree, zbVars
<1>8. CASE SteeringFailed
  <2>1. /\ alarms'["steering"] \in {alarms["steering"], alarms["steering"] + 1}
        /\ alarms'["initialization"] = alarms["initialization"]
    BY <1>1, <1>8, ScheduleRetryFacts DEF SteeringFailed, Mode
  <2> QED
    BY <1>1, <1>8, <2>1 DEF SteeringFailed, ScheduleRetry, LockFree, zbVars
<1>9. ASSUME NEW mode \in Mode, RetryCommissioning(mode)
      PROVE  CommissioningBooks'
  <2>1. /\ alarms'[mode] = alarms[mode] - 1
        /\ \A m \in Mode \ {mode} : alarms'[m] = alarms[m]
    BY <1>9 DEF RetryCommissioning, TypeOK
  <2>2. /\ zb' = "idle" /\ joined' = joined /\ alarms[mode] > 0
        /\ bdb' \in {mode, "none"}
    BY <1>9 DEF RetryCommissioning, StartCommissioning, LockFree, zbVars
  <2> QED
    BY <1>1, <2>1, <2>2 DEF Mode
<1>10. CASE LeaveNetwork
  BY <1>10 DEF LeaveNetwork, LockFree, zbVars
<1>11. CASE Command
  BY <1>11 DEF Command, SetAttrValue, ApplyState, EvaluateState, SetPixel,
     PixelRefreshed, PublishState, netVars
<1>12. CASE ButtonPress
  BY <1>12 DEF ButtonPress, Toggle, ToggleRefreshed, PublishToggle, ReportState,
     netVars, zbVars
<1>13. CASE ButtonDriver
  BY <1>13 DEF ButtonDriver, netVars, zbVars
<1>14. CASE Restart
  BY <1>14 DEF Restart, Mode
<1>15. CASE UNCHANGED vars
  BY <1>15 DEF vars, netVars, zbVars
<1> QED
  BY <1>2, <1>3, <1>4, <1>5, <1>6, <1>7, <1>8, <1>9, <1>10, <1>11, <1>12,
     <1>13, <1>14, <1>15 DEF Next, Commissioning

LEMMA CommissioningInvariant == Spec => []CommissioningBooks
<1>1. Init => CommissioningBooks
  BY DEF Init, CommissioningBooks, OneCommissioner, InitializationIsQuiet, Starting, Mode
<1>2. TypeOK /\ CommissioningBooks /\ [Next]_vars => CommissioningBooks'
  BY CommissioningStep
<1> QED
  BY <1>1, <1>2, Typing, PTL DEF Spec

(* One procedure or retry at a time, and no initialization of the stack    *)
(* under a shelf that is in its network (OneCommissioner).                 *)
THEOREM CommissioningIsSingle == Spec => []OneCommissioner
BY CommissioningInvariant, PTL DEF CommissioningBooks

LEMMA JoiningStep ==
  ASSUME TypeOK, CommissioningBooks, [Next]_vars, Joining
  PROVE  Joining' \/ joined' \/ refused'
<1> USE DEF Joining, Starting, OnlyCommissioning, InsideHandler
<1>1. /\ alarms["initialization"] \in Nat /\ alarms["steering"] \in Nat
      /\ alarms \in [Mode -> Nat] /\ refused \in BOOLEAN
  BY DEF TypeOK, Mode
<1>2. CASE SkipStartup
  BY <1>2 DEF SkipStartup, StartCommissioning
<1>3. CASE StartSucceeded
  BY <1>3 DEF StartSucceeded
<1>4. CASE LedInitialization
  BY <1>4 DEF LedInitialization, InitLed, InitPixel, InitRefreshed, netVars
<1>5. CASE StartSteering
  BY <1>5 DEF StartSteering, StartCommissioning
<1>6. ASSUME NEW mode \in Mode, ScheduleRetry(mode), bdb # "none"
      PROVE  Joining' \/ joined' \/ refused'
  <2>1. alarms["initialization"] = 0 /\ alarms["steering"] = 0
    BY <1>1, <1>6 DEF CommissioningBooks, OneCommissioner
  <2>2. \A m \in Mode : m # mode => alarms'[m] = alarms[m]
    BY <1>1, <1>6, ScheduleRetryFacts
  <2>3. alarms'[mode] = alarms[mode] + 1 \/ refused' = TRUE
    BY <1>1, <1>6, ScheduleRetryFacts
  <2>4. CASE mode = "initialization"
    BY <2>1, <2>2, <2>3, <2>4 DEF Mode
  <2>5. CASE mode = "steering"
    BY <2>1, <2>2, <2>3, <2>5 DEF Mode
  <2> QED
    BY <2>4, <2>5 DEF Mode
<1>7. CASE SteeringSucceeded
  BY <1>7 DEF SteeringSucceeded
<1>8. CASE StartFailed \/ SteeringFailed
  BY <1>6, <1>8 DEF StartFailed, SteeringFailed, Mode
<1>9. CASE \E mode \in Mode : RetryCommissioning(mode)
  BY <1>9 DEF RetryCommissioning, StartCommissioning, Mode
<1>10. CASE LeaveNetwork
  \* Whatever was under way on a shelf that leaves its network goes on.
  <2>1. UNCHANGED <<bdb, zb, alarms>>
    BY <1>10 DEF LeaveNetwork, zbVars
  <2> QED
    BY <2>1
<1>11. CASE Command
  <2>1. UNCHANGED netVars
    BY <1>11 DEF Command, SetAttrValue, ApplyState, EvaluateState, SetPixel,
       PixelRefreshed, PublishState
  <2>2. ~Starting
    BY <1>11 DEF Command, SetAttrValue, LockFree, ApplyState, EvaluateState, SetPixel,
       PixelRefreshed, PublishState
  <2> QED
    BY <2>1, <2>2 DEF netVars
<1>12. CASE ButtonPress \/ ButtonDriver
  BY <1>12 DEF ButtonPress, Toggle, ToggleRefreshed, PublishToggle, ReportState,
     ButtonDriver, netVars, zbVars
<1>13. CASE Restart
  BY <1>13 DEF Restart
<1>14. CASE UNCHANGED vars
  BY <1>14 DEF vars, netVars, zbVars
<1> QED
  BY <1>2, <1>3, <1>4, <1>5, <1>7, <1>8, <1>9, <1>10, <1>11, <1>12,
     <1>13, <1>14 DEF Next, Commissioning

(* A shelf that is joining goes on until it has joined or the stack, or an *)
(* alarm, was refused (JoiningGoesOn).                                     *)
THEOREM JoiningContinues == Spec => JoiningGoesOn
<1>1. TypeOK /\ CommissioningBooks /\ [Next]_vars
        => [Joining => Joining' \/ joined' \/ refused']_vars
  BY JoiningStep
<1> QED
  BY <1>1, Typing, CommissioningInvariant, PTL DEF Spec, JoiningGoesOn

-----------------------------------------------------------------------------
(* The LED.                                                                *)

(* The start has not succeeded yet, or will be tried again.                *)
BeforeStart ==
  bdb \in {"off", "initialization"} \/ alarms["initialization"] > 0

(* Until then nothing can switch the shelf.                                *)
DarkUntilStart ==
  BeforeStart => /\ ~attached /\ ~ready
                 /\ state = 0
                 /\ zb = "idle" /\ button = "idle"

(* A change of the LED that does not overlap another brings the state of   *)
(* the shelf to the pixel and from there to the LED.                       *)
LedBooks ==
  /\ zb = "initLed" => ~ready
  /\ ~clash =>
       /\ ZigbeeLights => button # "refresh"
       /\ zb \in {"initLed", "initPixel", "initRefresh"} => state = 0
       /\ zb = "initRefresh" => pixel = 0
       /\ zb = "pixel" => arg = state
       /\ zb = "refresh" => pixel = state
       /\ button = "refresh" => pixel = state
  /\ LedShowsState

(* Before the start no press and no command gets through.                  *)
LEMMA DarkStep ==
  ASSUME TypeOK, ButtonHandOver, CommissioningBooks, DarkUntilStart, [Next]_vars
  PROVE  DarkUntilStart'
<1> USE DEF DarkUntilStart, BeforeStart, OnlyCommissioning, InsideHandler
<1>1. alarms["initialization"] \in Nat /\ alarms["steering"] \in Nat
  BY DEF TypeOK, Mode
<1>2. CASE SkipStartup
  BY <1>2 DEF SkipStartup, StartCommissioning, zbVars, drvVars, ledVars
<1>3. CASE StartSucceeded
  <2>1. alarms'["initialization"] = 0 /\ bdb' = "none"
    BY <1>1, <1>3 DEF StartSucceeded, CommissioningBooks, OneCommissioner
  <2> QED
    BY <2>1
<1>4. CASE StartFailed
  BY <1>4 DEF StartFailed, zbVars, drvVars, ledVars
<1>5. CASE StartSteering \/ LedInitialization
  <2>1. bdb' \in {"none", "steering"} /\ alarms'["initialization"] = 0
    BY <1>5 DEF StartSteering, StartCommissioning, LedInitialization, InitLed, InitPixel,
       InitRefreshed, netVars, CommissioningBooks, InitializationIsQuiet, Starting
  <2> QED
    BY <2>1
<1>6. CASE SteeringSucceeded
  BY <1>6 DEF SteeringSucceeded, zbVars, drvVars, ledVars
<1>7. CASE SteeringFailed
  <2>1. alarms'["initialization"] = alarms["initialization"]
    BY <1>7, ScheduleRetryFacts DEF SteeringFailed, TypeOK, Mode
  <2> QED
    BY <1>7, <2>1 DEF SteeringFailed, ScheduleRetry, zbVars, drvVars, ledVars
<1>8. ASSUME NEW mode \in Mode, RetryCommissioning(mode)
      PROVE  DarkUntilStart'
  <2>1. BeforeStart' => BeforeStart
    BY <1>1, <1>8 DEF RetryCommissioning, StartCommissioning, TypeOK, Mode
  <2> QED
    BY <1>8, <2>1 DEF RetryCommissioning, zbVars, drvVars, ledVars
<1>9. CASE LeaveNetwork
  BY <1>9 DEF LeaveNetwork, zbVars, drvVars, ledVars
<1>10. CASE Command
  <2>1. ~BeforeStart
    <3>1. CASE \E v \in {0, 1} : SetAttrValue(v)
      BY <1>1, <3>1 DEF SetAttrValue, CommissioningBooks, OneCommissioner
    <3> QED
      BY <1>10, <3>1 DEF Command, ApplyState, EvaluateState, SetPixel,
         PixelRefreshed, PublishState
  <2> QED
    BY <1>10, <2>1 DEF Command, SetAttrValue, ApplyState, EvaluateState,
       SetPixel, PixelRefreshed, PublishState, netVars
<1>11. CASE Toggle
  <2>1. attached
    <3>1. queue \in Nat /\ queue > 0
      BY <1>11 DEF Toggle, Drv!Receive, TypeOK, Drv!TypeOK
    <3> QED
      BY <3>1 DEF ButtonHandOver, Drv!HandOver, Drv!Holders
  <2> QED
    BY <1>11, <2>1 DEF Toggle, netVars
<1>12. CASE ToggleRefreshed \/ PublishToggle \/ ReportState
  BY <1>12 DEF ToggleRefreshed, PublishToggle, ReportState, netVars
<1>13. CASE ButtonDriver
  BY <1>13 DEF ButtonDriver, Drv!GpioIsr, Drv!DelayOver, Drv!Press, Drv!Release,
     netVars, zbVars, ledVars
<1>14. CASE Restart
  BY <1>14 DEF Restart, Drv!PowerOff, Led!PowerOff
<1>15. CASE UNCHANGED vars
  BY <1>15 DEF vars, netVars, zbVars, drvVars, ledVars
<1> QED
  BY <1>2, <1>3, <1>4, <1>5, <1>6, <1>7, <1>8, <1>9, <1>10, <1>11, <1>12,
     <1>13, <1>14, <1>15 DEF Next, Commissioning, ButtonPress

LEMMA LedStep ==
  ASSUME DarkUntilStart, LedBooks, [Next]_vars
  PROVE  LedBooks'
<1> USE DEF LedBooks, LedShowsState, ZigbeeLights, ButtonLights,
            OnlyCommissioning, InsideHandler
<1>1. CASE Commissioning /\ ~StartSucceeded /\ ~StartSteering
  BY <1>1 DEF Commissioning, SkipStartup, StartFailed, SteeringSucceeded,
     SteeringFailed, RetryCommissioning, LeaveNetwork, zbVars, ledVars
<1>2. CASE StartSucceeded
  <2>1. ~ready /\ state = 0 /\ button = "idle"
    BY <1>2 DEF StartSucceeded, DarkUntilStart, BeforeStart
  <2> QED
    BY <1>2, <2>1 DEF StartSucceeded, ledVars
<1>3. CASE InitLed
  BY <1>3 DEF InitLed, Led!Prepare, ledVars
<1>4. CASE InitPixel
  BY <1>4 DEF InitPixel, Led!Set
<1>5. CASE InitRefreshed
  BY <1>5 DEF InitRefreshed, Led!Refreshed
<1>6. CASE StartSteering
  BY <1>6 DEF StartSteering, ledVars
<1>7. CASE \E v \in {0, 1} : SetAttrValue(v)
  BY <1>7 DEF SetAttrValue, ledVars
<1>8. CASE ApplyState
  BY <1>8 DEF ApplyState, ledVars
<1>9. CASE EvaluateState
  BY <1>9 DEF EvaluateState, ledVars
<1>10. CASE SetPixel
  BY <1>10 DEF SetPixel, Led!Set
<1>11. CASE PixelRefreshed
  BY <1>11 DEF PixelRefreshed, Led!Refreshed
<1>12. CASE PublishState
  BY <1>12 DEF PublishState, ledVars
<1>13. CASE Toggle
  <2>1. CASE ZigbeeLights
    BY <1>13, <2>1 DEF Toggle, Led!Set, zbVars, ledVars
  <2>2. CASE ~ZigbeeLights
    <3>1. zb' = zb /\ ready' = ready
      BY <1>13 DEF Toggle, Led!Set, zbVars, ledVars
    <3>2. CASE ready
      BY <1>13, <2>2, <3>1, <3>2 DEF Toggle, Led!Set
    <3>3. CASE ~ready
      BY <1>13, <2>2, <3>1, <3>3 DEF Toggle
    <3> QED
      BY <3>2, <3>3
  <2> QED
    BY <2>1, <2>2
<1>14. CASE ToggleRefreshed
  BY <1>14 DEF ToggleRefreshed, Led!Refreshed, zbVars
<1>15. CASE PublishToggle \/ ReportState
  BY <1>15 DEF PublishToggle, ReportState, zbVars, ledVars
<1>16. CASE ButtonDriver
  BY <1>16 DEF ButtonDriver, zbVars, ledVars
<1>17. CASE Restart
  BY <1>17 DEF Restart, Led!PowerOff
<1>18. CASE UNCHANGED vars
  BY <1>18 DEF vars, zbVars, ledVars
<1> QED
  BY <1>1, <1>2, <1>3, <1>4, <1>5, <1>6, <1>7, <1>8, <1>9, <1>10, <1>11,
     <1>12, <1>13, <1>14, <1>15, <1>16, <1>17, <1>18
     DEF Next, LedInitialization, Command, ButtonPress

(* At rest the LED shows the state, unless two changes overlapped.         *)
THEOREM LedIsTruthful == Spec => []LedShowsState
<1>1. Init => DarkUntilStart /\ LedBooks
  BY DEF Init, DarkUntilStart, LedBooks, LedShowsState, ZigbeeLights,
     Drv!Init, Led!Init
<1>2. /\ TypeOK /\ ButtonHandOver /\ CommissioningBooks /\ DarkUntilStart
      /\ LedBooks /\ [Next]_vars
      => (DarkUntilStart /\ LedBooks)'
  BY DarkStep, LedStep
<1>3. LedBooks => LedShowsState
  BY DEF LedBooks
<1> QED
  BY <1>1, <1>2, <1>3, Typing, EventHasOneHolder, CommissioningInvariant, PTL
     DEF Spec
=============================================================================
