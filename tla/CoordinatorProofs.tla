------------------------- MODULE CoordinatorProofs -------------------------
(***************************************************************************)
(* Theorems about Coordinator, for every set of shelves, every capacity of *)
(* the registry and every number of rescans, with and without failures and *)
(* restarts.                                                               *)
(***************************************************************************)
EXTENDS Coordinator, SequenceTheorems, FiniteSetTheorems, TLAPS

-----------------------------------------------------------------------------
(* What the helpers of the handlers do.                                    *)

(* The lines the coordinator prints have the type of output lines.         *)
LEMMA LineTypes ==
  ASSUME NEW a \in Shelf
  PROVE  /\ Join(a) \in Line
         /\ Leave(a) \in Line
         /\ \A s \in {0, 1} : Recv(a, s) \in Line
BY DEF Join, Leave, Recv, Line

(* The messages have the type of messages.                                 *)
LEMMA MessageTypes ==
  ASSUME NEW a \in Shelf
  PROVE  /\ Ping(a) \in Message
         /\ Response(a) \in Message
         /\ AddGroup(a) \in Message
BY DEF Ping, Response, AddGroup, Message

(* alarm_timer_schedule starts at most one alarm, of the given kind, and   *)
(* exactly one when alarms can be started.                                 *)
LEMMA ScheduleFacts ==
  ASSUME alarms \in [AlarmKind -> Nat],
         NEW kind \in AlarmKind,
         Schedule(kind)
  PROVE  /\ alarms' \in [AlarmKind -> Nat]
         /\ alarms'[kind] \in {alarms[kind], alarms[kind] + 1}
         /\ ~AlarmFaults => alarms'[kind] = alarms[kind] + 1
         /\ \A k \in AlarmKind \ {kind} : alarms'[k] = alarms[k]
BY DEF Schedule

(* A retry is under way, or the history notes that it was refused.         *)
LEMMA ScheduleRetryFacts ==
  ASSUME alarms \in [AlarmKind -> Nat], refused \in BOOLEAN,
         NEW mode \in AlarmKind,
         ScheduleRetry(mode)
  PROVE  /\ bdb' = "none" /\ refused' \in BOOLEAN
         /\ alarms' \in [AlarmKind -> Nat]
         /\ \A k \in AlarmKind \ {mode} : alarms'[k] = alarms[k]
         /\ \/ alarms'[mode] = alarms[mode] + 1 /\ refused' = refused
            \/ alarms'[mode] = alarms[mode] /\ refused' = TRUE
<1>1. CASE alarms' = alarms
  BY <1>1 DEF ScheduleRetry
<1>2. CASE alarms' # alarms
  <2>1. alarms' = [alarms EXCEPT ![mode] = @ + 1] /\ refused' = refused
    BY <1>2 DEF ScheduleRetry, Schedule
  <2> QED
    BY <2>1 DEF ScheduleRetry
<1> QED
  BY <1>1, <1>2

(* A procedure runs, or the history notes that it was refused.             *)
LEMMA StartCommissioningFacts ==
  ASSUME refused \in BOOLEAN, NEW mode, StartCommissioning(mode)
  PROVE  /\ refused' \in BOOLEAN
         /\ \/ bdb' = mode /\ refused' = refused
            \/ bdb' = "none" /\ refused' = TRUE
BY DEF StartCommissioning

(* Taking an alarm that has come due.                                      *)
LEMMA FiredFacts ==
  ASSUME alarms \in [AlarmKind -> Nat],
         NEW kind \in AlarmKind,
         alarms[kind] > 0
  PROVE  /\ Fired(kind) \in [AlarmKind -> Nat]
         /\ Fired(kind)[kind] = alarms[kind] - 1
         /\ \A k \in AlarmKind \ {kind} : Fired(kind)[k] = alarms[k]
BY DEF Fired

(* coordinator_register_shelf only ever appends the new shelf, keeps the   *)
(* registry within its capacity and free of duplicates, and afterwards the *)
(* shelf is in the registry unless that is full.                           *)
LEMMA RegisterShelfFacts ==
  ASSUME TypeOK, NEW a \in Shelf, RegisterShelf(a)
  PROVE  /\ known' \in Seq(Shelf)
         /\ Len(known') <= MaxKnown
         /\ Len(known) <= Len(known')
         /\ \A i \in 1 .. Len(known) : known'[i] = known[i]
         /\ Range(known) \subseteq Range(known')
         /\ a \in Range(known') \/ Len(known') = MaxKnown
         /\ IsInjective(known) => IsInjective(known')
         /\ matchReq' \subseteq matchReq \cup {a}
         /\ out' = {Join(a)}
PROOF
<1>1. known \in Seq(Shelf) /\ Len(known) \in Nat /\ MaxKnown \in Nat /\ Len(known) <= MaxKnown
  BY LenProperties, CoordinatorAssumption DEF TypeOK
<1>2. CASE IsKnown(a) \/ Len(known) >= MaxKnown
  <2>1. known' = known
    BY <1>2 DEF RegisterShelf, MarkKnown
  <2>2. matchReq' \subseteq matchReq \cup {a} /\ out' = {Join(a)}
    BY DEF RegisterShelf, Requested
  <2>3. a \in Range(known) \/ Len(known) = MaxKnown
    BY <1>1, <1>2 DEF IsKnown
  <2> QED
    BY <1>1, <2>1, <2>2, <2>3
<1>3. CASE ~(IsKnown(a) \/ Len(known) >= MaxKnown)
  <2>1. known' = Append(known, a) /\ a \notin Range(known)
    BY <1>3 DEF RegisterShelf, MarkKnown, IsKnown
  <2>2. /\ known' \in Seq(Shelf)
        /\ Len(known') = Len(known) + 1
        /\ \A i \in 1 .. Len(known) : known'[i] = known[i]
        /\ known'[Len(known) + 1] = a
    BY <1>1, <2>1, AppendProperties
  <2>3. DOMAIN known = 1 .. Len(known) /\ DOMAIN known' = 1 .. Len(known) + 1
    BY <1>1, <2>2, LenProperties
  <2>4. Range(known) \subseteq Range(known') /\ a \in Range(known')
    BY <1>1, <2>2, <2>3 DEF Range
  <2>5. IsInjective(known) => IsInjective(known')
    BY <1>1, <2>1, <2>2, <2>3 DEF IsInjective, Range
  <2>6. matchReq' \subseteq matchReq \cup {a} /\ out' = {Join(a)}
    BY DEF RegisterShelf, Requested
  <2> QED
    BY <1>1, <1>3, <2>2, <2>4, <2>5, <2>6
<1> QED
  BY <1>2, <1>3

-----------------------------------------------------------------------------
(* Types.                                                                  *)

(* A rescan alarm that was started again by a signal handler.              *)
LEMMA StartPeriodicRescanTypes ==
  ASSUME TypeOK, StartPeriodicRescan
  PROVE  rescanRemaining' \in 0 .. RescanRepeats /\ alarms' \in [AlarmKind -> Nat]
<1>1. alarms' \in [AlarmKind -> Nat]
  BY ScheduleFacts DEF TypeOK, StartPeriodicRescan, AlarmKind
<1> QED
  BY <1>1, CoordinatorAssumption DEF StartPeriodicRescan

(* The registry holds addresses of shelves.                                *)
LEMMA KnownIsShelf == TypeOK => Range(known) \subseteq Shelf
<1> SUFFICES ASSUME TypeOK PROVE Range(known) \subseteq Shelf
  OBVIOUS
<1>1. DOMAIN known = 1 .. Len(known) /\ known \in [1 .. Len(known) -> Shelf]
  BY LenProperties DEF TypeOK
<1> QED
  BY <1>1 DEF Range

(* The lines of a rescan and of a concluded scan have the type of lines.   *)
LEMMA OutTypes ==
  ASSUME TypeOK
  PROVE  /\ {Leave(a) : a \in Range(known) \ rescan.found} \subseteq Line
         /\ Verdicts \subseteq Line
<1>1. Range(known) \subseteq Shelf
  BY KnownIsShelf
<1>2. \A i \in 1 .. Len(scanAddrs) : scanAddrs[i] \in Shelf
  BY ElementOfSeq DEF TypeOK
<1> QED
  BY <1>1, <1>2, LineTypes DEF Verdicts

(* The values of the variables after power on.                             *)
LEMMA PowerOnTypes ==
  /\ <<>> \in Seq(Shelf) /\ Len(<<>>) <= MaxKnown
  /\ NoResponses \in [1 .. MaxKnown -> BOOLEAN]
  /\ 0 \in 0 .. RescanRepeats
  /\ NoRescan \in [fresh : SUBSET Shelf, left : SUBSET Shelf, found : SUBSET Shelf]
  /\ NoAlarms \in [AlarmKind -> Nat]
<1>1. <<>> \in Seq(Shelf) /\ Len(<<>>) <= MaxKnown
  BY EmptySeq, CoordinatorAssumption
<1>2. NoResponses \in [1 .. MaxKnown -> BOOLEAN]
  BY DEF NoResponses
<1>3. NoRescan \in [fresh : SUBSET Shelf, left : SUBSET Shelf, found : SUBSET Shelf]
  BY DEF NoRescan
<1>4. NoAlarms \in [AlarmKind -> Nat]
  BY DEF NoAlarms
<1> QED
  BY <1>1, <1>2, <1>3, <1>4, CoordinatorAssumption

(* Every step preserves the type invariant.                                *)
LEMMA TypeStep == TypeOK /\ [Next]_vars => TypeOK'
<1> SUFFICES ASSUME TypeOK, [Next]_vars PROVE TypeOK'
  OBVIOUS
<1> USE DEF scanVars, rescanVars, bdbVars, shelfVars
<1>1. CASE SkipStartup
  BY <1>1, StartCommissioningFacts DEF TypeOK, SkipStartup
<1>2. CASE StartSucceeded
  BY <1>2, StartPeriodicRescanTypes, StartCommissioningFacts DEF TypeOK, StartSucceeded
<1>3. CASE StartFailed
  BY <1>3, ScheduleRetryFacts DEF TypeOK, StartFailed, AlarmKind
<1>4. CASE FormationSucceeded
  BY <1>4, StartPeriodicRescanTypes, StartCommissioningFacts DEF TypeOK, FormationSucceeded
<1>5. CASE FormationFailed
  BY <1>5, ScheduleRetryFacts DEF TypeOK, FormationFailed, AlarmKind
<1>6. CASE SteeringEnded
  BY <1>6 DEF TypeOK, SteeringEnded
<1>7. CASE RetryCommissioning("initialization")
  BY <1>7, FiredFacts, StartCommissioningFacts DEF TypeOK, RetryCommissioning, Fires, AlarmKind
<1>8. CASE RetryCommissioning("formation")
  BY <1>8, FiredFacts, StartCommissioningFacts DEF TypeOK, RetryCommissioning, Fires, AlarmKind
<1>9. CASE RescanAlarm
  BY <1>9, FiredFacts DEF TypeOK, RescanAlarm, BeginRescan, FreshRouters, Fires, AlarmKind
<1>10. ASSUME NEW a \in Shelf, RescanVisit(a) PROVE TypeOK'
  <2>1. rescan' \in [fresh : SUBSET Shelf, left : SUBSET Shelf, found : SUBSET Shelf]
    BY <1>10 DEF TypeOK, RescanVisit, AddFound
  <2>2. /\ known' \in Seq(Shelf) /\ Len(known') <= MaxKnown
        /\ matchReq' \in SUBSET Shelf /\ out' \in SUBSET Line
    BY <1>10, RegisterShelfFacts, LineTypes DEF TypeOK, RescanVisit
  <2> QED
    BY <1>10, <2>1, <2>2 DEF TypeOK, RescanVisit
<1>11. CASE RescanEnd
  BY <1>11, OutTypes DEF TypeOK, RescanEnd, NoRescan
<1>12. CASE RescanTail
  <2>1. alarms' \in [AlarmKind -> Nat]
    BY <1>12, ScheduleFacts DEF TypeOK, RescanTail, AlarmKind
  <2>2. rescanRemaining' \in 0 .. RescanRepeats
    BY <1>12, CoordinatorAssumption DEF TypeOK, RescanTail
  <2> QED
    BY <1>12, <2>1, <2>2 DEF TypeOK, RescanTail
<1>13. CASE StartLivenessScan
  <2>1. alarms' \in [AlarmKind -> Nat]
    BY <1>13, ScheduleFacts DEF TypeOK, StartLivenessScan, AlarmKind
  <2>2. scanResponded' \in [1 .. MaxKnown -> BOOLEAN]
    BY <1>13, PowerOnTypes DEF StartLivenessScan, ClearResponses
  <2>3. air' \in SUBSET Message
    BY <1>13, KnownIsShelf, MessageTypes DEF TypeOK, StartLivenessScan
  <2> QED
    BY <1>13, <2>1, <2>2, <2>3 DEF TypeOK, StartLivenessScan
<1>14. CASE ScanWithoutShelves
  BY <1>14, EmptySeq DEF TypeOK, ScanWithoutShelves, BeginRescan, FreshRouters, ClearResponses, NoResponses
<1>15. CASE FinalizeLivenessScan
  BY <1>15, FiredFacts, OutTypes DEF TypeOK, FinalizeLivenessScan, Fires, AlarmKind
<1>16. ASSUME NEW a \in Shelf, ReadAttrRsp(a) PROVE TypeOK'
  BY <1>16, LineTypes DEF TypeOK, ReadAttrRsp, MarkLivenessResponse
<1>17. ASSUME NEW a \in Shelf, DeviceAnnce(a) PROVE TypeOK'
  BY <1>17, RegisterShelfFacts, LineTypes DEF TypeOK, DeviceAnnce
<1>18. ASSUME NEW a \in Shelf, LeaveIndication(a) PROVE TypeOK'
  BY <1>18, LineTypes DEF TypeOK, LeaveIndication
<1>19. ASSUME NEW a \in Shelf, ReportAttr(a) PROVE TypeOK'
  BY <1>19, LineTypes DEF TypeOK, ReportAttr
<1>20. ASSUME NEW a \in Shelf, FindShelfDeviceResult(a) PROVE TypeOK'
  BY <1>20, MessageTypes DEF TypeOK, FindShelfDeviceResult, Requested
<1>21. ASSUME NEW a \in Shelf, FindShelfDeviceFailed(a) PROVE TypeOK'
  BY <1>21 DEF TypeOK, FindShelfDeviceFailed
<1>22. ASSUME NEW a \in Shelf, BindShelfDeviceResult(a) PROVE TypeOK'
  BY <1>22, LineTypes DEF TypeOK, BindShelfDeviceResult
<1>23. ASSUME NEW a \in Shelf, ShelfAnswersPing(a) PROVE TypeOK'
  BY <1>23, MessageTypes DEF TypeOK, ShelfAnswersPing
<1>24. ASSUME NEW a \in Shelf, ShelfJoinsGroup(a) PROVE TypeOK'
  BY <1>24 DEF TypeOK, ShelfJoinsGroup
<1>25. CASE Restart
  <2>1. /\ known' \in Seq(Shelf) /\ Len(known') <= MaxKnown
        /\ scanAddrs' \in Seq(Shelf)
    BY <1>25, PowerOnTypes DEF Restart
  <2>2. /\ scanResponded' \in [1 .. MaxKnown -> BOOLEAN]
        /\ rescanRemaining' \in 0 .. RescanRepeats
        /\ rescan' \in [fresh : SUBSET Shelf, left : SUBSET Shelf, found : SUBSET Shelf]
        /\ alarms' \in [AlarmKind -> Nat]
    BY <1>25, PowerOnTypes DEF Restart
  <2>3. /\ scanActive' \in BOOLEAN /\ lock' = "free" /\ rescanTail' \in BOOLEAN
        /\ bdb' = "off" /\ joined' \in BOOLEAN /\ refused' \in BOOLEAN /\ matchReq' = {} /\ bindReq' = {}
        /\ out' = {} /\ factoryNew' = factoryNew /\ air' = air /\ group' = group
    BY <1>25 DEF Restart
  <2>4. restarts \in Nat /\ restarts' = restarts + 1
    BY <1>25 DEF Restart, TypeOK
  <2> QED
    BY <2>1, <2>2, <2>3, <2>4 DEF TypeOK
<1>26. CASE UNCHANGED vars
  BY <1>26 DEF TypeOK, vars
<1> QED
  BY <1>1, <1>2, <1>3, <1>4, <1>5, <1>6, <1>7, <1>8, <1>9, <1>10, <1>11, <1>12, <1>13, <1>14, <1>15, <1>16, <1>17, <1>18, <1>19, <1>20, <1>21, <1>22, <1>23, <1>24, <1>25, <1>26
     DEF Next, Commissioning, Rescan, LivenessScan, ShelfEvent

(* TypeOK holds in every reachable state.                                  *)
THEOREM Typing == Spec => []TypeOK
<1>1. Init => TypeOK
  <2> SUFFICES ASSUME Init PROVE TypeOK
    OBVIOUS
  <2>1. /\ known \in Seq(Shelf) /\ Len(known) <= MaxKnown
        /\ scanAddrs \in Seq(Shelf)
    BY PowerOnTypes DEF Init
  <2>2. /\ scanResponded \in [1 .. MaxKnown -> BOOLEAN]
        /\ rescanRemaining \in 0 .. RescanRepeats
        /\ rescan \in [fresh : SUBSET Shelf, left : SUBSET Shelf, found : SUBSET Shelf]
        /\ alarms \in [AlarmKind -> Nat]
    BY PowerOnTypes DEF Init
  <2>3. /\ scanActive \in BOOLEAN /\ lock = "free" /\ rescanTail \in BOOLEAN
        /\ bdb = "off" /\ joined \in BOOLEAN /\ refused \in BOOLEAN /\ matchReq = {} /\ bindReq = {}
        /\ out = {} /\ restarts \in Nat
        /\ factoryNew \in BOOLEAN /\ air = {} /\ group = {}
    BY DEF Init
  <2> QED
    BY <2>1, <2>2, <2>3 DEF TypeOK
<1> QED
  BY <1>1, TypeStep, PTL DEF Spec

-----------------------------------------------------------------------------
(* What most steps leave alone.                                            *)

(* Only five actions touch the state of a scan or its alarm.               *)
LEMMA ScanFrame ==
  ASSUME TypeOK, [Next]_vars,
         ~StartLivenessScan, ~ScanWithoutShelves, ~FinalizeLivenessScan,
         ~(\E a \in Shelf : ReadAttrRsp(a)), ~Restart
  PROVE  /\ scanActive' = scanActive
         /\ scanAddrs' = scanAddrs
         /\ scanResponded' = scanResponded
         /\ alarms'["finalize"] = alarms["finalize"]
<1> USE DEF scanVars
<1>1. CASE Commissioning
  <2> USE DEF AlarmKind, TypeOK
  <2>1. CASE StartSucceeded
    BY <2>1, ScheduleFacts DEF StartSucceeded, StartPeriodicRescan
  <2>2. CASE FormationSucceeded
    BY <2>2, ScheduleFacts DEF FormationSucceeded, StartPeriodicRescan
  <2>3. CASE StartFailed
    BY <2>3, ScheduleRetryFacts DEF StartFailed
  <2>4. CASE FormationFailed
    BY <2>4, ScheduleRetryFacts DEF FormationFailed
  <2>5. CASE SkipStartup \/ SteeringEnded
    BY <2>5 DEF SkipStartup, SteeringEnded
  <2>6. CASE RetryCommissioning("initialization")
    BY <2>6, FiredFacts DEF RetryCommissioning, Fires
  <2>7. CASE RetryCommissioning("formation")
    BY <2>7, FiredFacts DEF RetryCommissioning, Fires
  <2> QED
    BY <1>1, <2>1, <2>2, <2>3, <2>4, <2>5, <2>6, <2>7 DEF Commissioning
<1>2. CASE Rescan
  <2> USE DEF AlarmKind, TypeOK
  <2>1. CASE RescanAlarm
    BY <2>1, FiredFacts DEF RescanAlarm, Fires
  <2>2. CASE RescanTail
    BY <2>2, ScheduleFacts DEF RescanTail
  <2>3. CASE RescanEnd \/ \E a \in Shelf : RescanVisit(a)
    BY <2>3 DEF RescanEnd, RescanVisit
  <2> QED
    BY <1>2, <2>1, <2>2, <2>3 DEF Rescan
<1>3. CASE \E a \in Shelf : ShelfEvent(a)
  BY <1>3 DEF ShelfEvent, DeviceAnnce, LeaveIndication, ReportAttr, FindShelfDeviceResult,
              FindShelfDeviceFailed, BindShelfDeviceResult, ShelfAnswersPing, ShelfJoinsGroup
<1>4. CASE UNCHANGED vars
  BY <1>4 DEF vars
<1> QED
  BY <1>1, <1>2, <1>3, <1>4 DEF Next, LivenessScan

(* Until a restart the registry only grows, at its end, and stays free of  *)
(* duplicates.                                                             *)
LEMMA RegistryGrows ==
  ASSUME TypeOK, [Next]_vars, ~Restart
  PROVE  /\ Len(known) <= Len(known')
         /\ \A i \in 1 .. Len(known) : known'[i] = known[i]
         /\ Range(known) \subseteq Range(known')
         /\ IsInjective(known) => IsInjective(known')
<1>1. CASE \E a \in Shelf : RescanVisit(a) \/ DeviceAnnce(a)
  BY <1>1, RegisterShelfFacts DEF RescanVisit, DeviceAnnce
<1>2. CASE ~\E a \in Shelf : RescanVisit(a) \/ DeviceAnnce(a)
  <2>1. known' = known
    BY <1>2 DEF Next, vars, Commissioning, Rescan, LivenessScan, ShelfEvent,
         SkipStartup, StartSucceeded, StartFailed, FormationSucceeded, FormationFailed,
         SteeringEnded, RetryCommissioning, RescanAlarm, RescanEnd, RescanTail,
         StartLivenessScan, ScanWithoutShelves, FinalizeLivenessScan, ReadAttrRsp,
         LeaveIndication, ReportAttr, FindShelfDeviceResult, FindShelfDeviceFailed,
         BindShelfDeviceResult, ShelfAnswersPing, ShelfJoinsGroup
  <2>2. Len(known) \in Nat
    BY LenProperties DEF TypeOK
  <2> QED
    BY <2>1, <2>2
<1> QED
  BY <1>1, <1>2

-----------------------------------------------------------------------------
(* The deadline of a scan.                                                 *)

LEMMA ScanDeadlineStep ==
  TypeOK /\ ScanDeadline /\ [Next]_vars => ScanDeadline'
<1> SUFFICES ASSUME TypeOK, ScanDeadline, [Next]_vars PROVE ScanDeadline'
  OBVIOUS
<1>1. alarms["finalize"] \in Nat /\ alarms \in [AlarmKind -> Nat] /\ "finalize" \in AlarmKind
  BY DEF TypeOK, AlarmKind
<1>2. CASE StartLivenessScan
  <2>1. alarms["finalize"] = 0
    BY <1>1, <1>2 DEF StartLivenessScan, MayScan, ScanDeadline
  <2>2. /\ alarms'["finalize"] \in {0, 1}
        /\ ~AlarmFaults => alarms'["finalize"] = 1
    BY <1>1, <1>2, <2>1, ScheduleFacts DEF StartLivenessScan
  <2> QED
    BY <1>2, <2>2 DEF StartLivenessScan, ScanDeadline
<1>3. CASE ScanWithoutShelves
  BY <1>3 DEF ScanWithoutShelves, ScanDeadline
<1>4. CASE FinalizeLivenessScan
  <2>1. alarms["finalize"] = 1 /\ scanActive
    BY <1>1, <1>4 DEF FinalizeLivenessScan, Fires, ScanDeadline
  <2>2. alarms'["finalize"] = 0 /\ scanActive' = FALSE
    BY <1>1, <1>4, <2>1, FiredFacts DEF FinalizeLivenessScan
  <2> QED
    BY <2>2 DEF ScanDeadline
<1>5. CASE \E a \in Shelf : ReadAttrRsp(a)
  BY <1>5 DEF ReadAttrRsp, ScanDeadline
<1>6. CASE Restart
  BY <1>6, <1>1 DEF Restart, ScanDeadline, NoAlarms
<1>7. CASE ~(\/ StartLivenessScan \/ ScanWithoutShelves \/ FinalizeLivenessScan
             \/ (\E a \in Shelf : ReadAttrRsp(a)) \/ Restart)
  BY <1>7, ScanFrame DEF ScanDeadline
<1> QED
  BY <1>2, <1>3, <1>4, <1>5, <1>6, <1>7

(* A finalize alarm belongs to the running scan (ScanDeadline): no alarm of*)
(* an earlier scan ends a later one.                                       *)
THEOREM DeadlineOfScan == Spec => []ScanDeadline
<1>1. Init => ScanDeadline
  BY DEF Init, ScanDeadline, NoAlarms, AlarmKind
<1> QED
  BY <1>1, Typing, ScanDeadlineStep, PTL DEF Spec

-----------------------------------------------------------------------------
(* Commissioning and the chain of rescans.                                 *)

(* Only commissioning touches the procedure that is running, the state of  *)
(* the network and the retry alarms.                                       *)
LEMMA CommissioningFrame ==
  ASSUME TypeOK, [Next]_vars, ~Commissioning, ~Restart
  PROVE  /\ bdb' = bdb
         /\ joined' = joined
         /\ refused' = refused
         /\ alarms'["initialization"] = alarms["initialization"]
         /\ alarms'["formation"] = alarms["formation"]
<1> USE DEF bdbVars, AlarmKind, TypeOK
<1>1. CASE StartLivenessScan
  BY <1>1, ScheduleFacts DEF StartLivenessScan
<1>2. CASE FinalizeLivenessScan
  BY <1>2, FiredFacts DEF FinalizeLivenessScan, Fires
<1>3. CASE RescanAlarm
  BY <1>3, FiredFacts DEF RescanAlarm, Fires
<1>4. CASE RescanTail
  BY <1>4, ScheduleFacts DEF RescanTail
<1>5. CASE ScanWithoutShelves \/ RescanEnd \/ \E a \in Shelf : RescanVisit(a) \/ ReadAttrRsp(a)
  BY <1>5 DEF ScanWithoutShelves, RescanEnd, RescanVisit, ReadAttrRsp
<1>6. CASE \E a \in Shelf : ShelfEvent(a)
  BY <1>6 DEF ShelfEvent, DeviceAnnce, LeaveIndication, ReportAttr, FindShelfDeviceResult,
              FindShelfDeviceFailed, BindShelfDeviceResult, ShelfAnswersPing, ShelfJoinsGroup
<1>7. CASE UNCHANGED vars
  BY <1>7 DEF vars
<1> QED
  BY <1>1, <1>2, <1>3, <1>4, <1>5, <1>6, <1>7 DEF Next, Rescan, LivenessScan

LEMMA OneCommissionerStep ==
  TypeOK /\ OneCommissioner /\ [Next]_vars => OneCommissioner'
<1> SUFFICES ASSUME TypeOK, OneCommissioner, [Next]_vars PROVE OneCommissioner'
  OBVIOUS
<1> DEFINE Retries == alarms["initialization"] + alarms["formation"]
<1>1. /\ alarms \in [AlarmKind -> Nat]
      /\ alarms["initialization"] \in Nat /\ alarms["formation"] \in Nat
      /\ {"initialization", "formation", "rescan"} \subseteq AlarmKind
  BY DEF TypeOK, AlarmKind
<1>2. CASE SkipStartup
  BY <1>1, <1>2 DEF SkipStartup, StartCommissioning, OneCommissioner
<1>3. CASE StartSucceeded
  <2>1. /\ alarms'["initialization"] = alarms["initialization"]
        /\ alarms'["formation"] = alarms["formation"]
    BY <1>1, <1>3, ScheduleFacts DEF StartSucceeded, StartPeriodicRescan
  <2> QED
    BY <1>1, <1>3, <2>1 DEF StartSucceeded, StartCommissioning, OneCommissioner
<1>4. CASE StartFailed
  <2>1. /\ alarms'["initialization"] \in {alarms["initialization"], alarms["initialization"] + 1}
        /\ alarms'["formation"] = alarms["formation"]
    BY <1>1, <1>4, ScheduleRetryFacts DEF TypeOK, StartFailed
  <2>2. Retries = 0 /\ ~joined
    BY <1>1, <1>4 DEF StartFailed, OneCommissioner
  <2> QED
    BY <1>1, <1>4, <2>1, <2>2 DEF StartFailed, ScheduleRetry, OneCommissioner
<1>5. CASE FormationSucceeded
  <2>1. /\ alarms'["initialization"] = alarms["initialization"]
        /\ alarms'["formation"] = alarms["formation"]
    BY <1>1, <1>5, ScheduleFacts DEF FormationSucceeded, StartPeriodicRescan
  <2> QED
    BY <1>1, <1>5, <2>1 DEF FormationSucceeded, StartCommissioning, OneCommissioner
<1>6. CASE FormationFailed
  <2>1. /\ alarms'["initialization"] = alarms["initialization"]
        /\ alarms'["formation"] \in {alarms["formation"], alarms["formation"] + 1}
    BY <1>1, <1>6, ScheduleRetryFacts DEF TypeOK, FormationFailed
  <2>2. Retries = 0 /\ ~joined
    BY <1>1, <1>6 DEF FormationFailed, OneCommissioner
  <2> QED
    BY <1>1, <1>6, <2>1, <2>2 DEF FormationFailed, ScheduleRetry, OneCommissioner
<1>7. CASE SteeringEnded
  BY <1>1, <1>7 DEF SteeringEnded, OneCommissioner
<1>8. CASE RetryCommissioning("initialization")
  <2>1. /\ alarms["initialization"] > 0
        /\ alarms'["initialization"] = alarms["initialization"] - 1
        /\ alarms'["formation"] = alarms["formation"]
    BY <1>1, <1>8, FiredFacts DEF RetryCommissioning, Fires
  <2>2. Retries = 1 /\ ~joined
    BY <1>1, <2>1 DEF OneCommissioner
  <2> QED
    BY <1>1, <1>8, <2>1, <2>2 DEF RetryCommissioning, StartCommissioning, OneCommissioner
<1>9. CASE RetryCommissioning("formation")
  <2>1. /\ alarms["formation"] > 0
        /\ alarms'["formation"] = alarms["formation"] - 1
        /\ alarms'["initialization"] = alarms["initialization"]
    BY <1>1, <1>9, FiredFacts DEF RetryCommissioning, Fires
  <2>2. Retries = 1 /\ ~joined
    BY <1>1, <2>1 DEF OneCommissioner
  <2> QED
    BY <1>1, <1>9, <2>1, <2>2 DEF RetryCommissioning, StartCommissioning, OneCommissioner
<1>10. CASE Restart
  BY <1>1, <1>10 DEF Restart, OneCommissioner, NoAlarms
<1>11. CASE ~Commissioning /\ ~Restart
  BY <1>11, CommissioningFrame DEF OneCommissioner
<1> QED
  BY <1>2, <1>3, <1>4, <1>5, <1>6, <1>7, <1>8, <1>9, <1>10, <1>11 DEF Commissioning

(* At most one commissioning procedure or retry exists, and none once the  *)
(* network is up (OneCommissioner).                                        *)
THEOREM CommissioningIsSingle == Spec => []OneCommissioner
<1>1. Init => OneCommissioner
  BY DEF Init, OneCommissioner, NoAlarms, AlarmKind
<1> QED
  BY <1>1, Typing, OneCommissionerStep, PTL DEF Spec

(* A step that ends a procedure without the network starts a retry or is   *)
(* noted as refused; a step that uses up a retry starts a procedure or is. *)
LEMMA CommissioningGoesOnStep ==
  TypeOK /\ OneCommissioner /\ CommissioningGoesOn /\ [Next]_vars => CommissioningGoesOn'
<1> DEFINE Retries == alarms["initialization"] + alarms["formation"]
           Runs    == bdb \in {"off", "initialization", "formation"}
<1> SUFFICES ASSUME TypeOK, OneCommissioner, CommissioningGoesOn, [Next]_vars, ~joined'
             PROVE  ~refused' <=> (Runs' \/ Retries' = 1)
  BY DEF CommissioningGoesOn
<1>1. /\ alarms \in [AlarmKind -> Nat]
      /\ alarms["initialization"] \in Nat /\ alarms["formation"] \in Nat
      /\ {"initialization", "formation"} \subseteq AlarmKind
      /\ refused \in BOOLEAN
  BY DEF TypeOK, AlarmKind
<1>2. \/ Retries = 0 /\ alarms["initialization"] = 0 /\ alarms["formation"] = 0
      \/ Retries = 1 /\ ~Runs /\ bdb = "none" /\ ~joined
  BY <1>1 DEF OneCommissioner
<1>3. ~joined => (~refused <=> (Runs \/ Retries = 1))
  BY DEF CommissioningGoesOn
<1>4. ASSUME Runs
      PROVE  ~joined /\ ~refused /\ alarms["initialization"] = 0 /\ alarms["formation"] = 0
  <2>1. ~joined
    BY <1>4 DEF OneCommissioner
  <2> QED
    BY <1>2, <1>3, <1>4, <2>1
<1>5. ASSUME NEW mode \in {"initialization", "formation"}, StartCommissioning(mode),
             ~refused, alarms'["initialization"] = 0, alarms'["formation"] = 0
      PROVE  ~refused' <=> (Runs' \/ Retries' = 1)
  BY <1>5 DEF StartCommissioning
<1>6. ASSUME NEW mode \in {"initialization", "formation"}, ScheduleRetry(mode), Runs
      PROVE  ~refused' <=> (Runs' \/ Retries' = 1)
  <2>1. mode \in AlarmKind
    BY <1>1
  <2>2. /\ bdb' = "none"
        /\ \A k \in AlarmKind \ {mode} : alarms'[k] = alarms[k]
        /\ \/ alarms'[mode] = alarms[mode] + 1 /\ refused' = refused
           \/ alarms'[mode] = alarms[mode] /\ refused' = TRUE
    BY <1>1, <1>6, <2>1, ScheduleRetryFacts
  <2>3. ~refused /\ alarms["initialization"] = 0 /\ alarms["formation"] = 0
    BY <1>4, <1>6
  <2>4. \/ Retries' = 1 /\ refused' = refused
        \/ Retries' = 0 /\ refused' = TRUE
    BY <1>1, <2>2, <2>3
  <2> QED
    BY <2>2, <2>3, <2>4
<1>7. CASE SkipStartup
  <2>1. Runs /\ alarms' = alarms /\ StartCommissioning("initialization")
    BY <1>7 DEF SkipStartup
  <2> QED
    BY <1>4, <1>5, <2>1
<1>8. CASE StartSucceeded
  <2>1. Runs /\ alarms' = alarms /\ StartCommissioning("formation")
    BY <1>8 DEF StartSucceeded
  <2> QED
    BY <1>4, <1>5, <2>1
<1>9. CASE StartFailed \/ FormationFailed
  <2>1. Runs /\ \E mode \in {"initialization", "formation"} : ScheduleRetry(mode)
    BY <1>9 DEF StartFailed, FormationFailed
  <2> QED
    BY <1>6, <2>1
<1>10. CASE FormationSucceeded
  BY <1>10 DEF FormationSucceeded
<1>11. CASE SteeringEnded
  \* Steering follows the formation of the network.
  <2>1. /\ bdb = "steering" /\ bdb' = "none" /\ alarms' = alarms
        /\ refused' = refused /\ joined' = joined
    BY <1>11 DEF SteeringEnded
  <2> QED
    BY <1>2, <1>3, <2>1
<1>12. ASSUME NEW mode \in {"initialization", "formation"}, RetryCommissioning(mode)
       PROVE  ~refused' <=> (Runs' \/ Retries' = 1)
  <2>1. /\ alarms[mode] > 0 /\ alarms'[mode] = alarms[mode] - 1
        /\ \A k \in AlarmKind \ {mode} : alarms'[k] = alarms[k]
    BY <1>1, <1>12, FiredFacts DEF RetryCommissioning, Fires
  <2>2. Retries = 1 /\ ~joined
    BY <1>1, <1>2, <2>1
  <2>3. alarms'["initialization"] = 0 /\ alarms'["formation"] = 0
    BY <1>1, <2>1, <2>2
  <2> QED
    BY <1>3, <1>5, <1>12, <2>2, <2>3 DEF RetryCommissioning
<1>13. CASE Restart
  BY <1>13 DEF Restart
<1>14. CASE ~Commissioning /\ ~Restart
  BY <1>3, <1>14, CommissioningFrame
<1> QED
  BY <1>7, <1>8, <1>9, <1>10, <1>11, <1>12, <1>13, <1>14 DEF Commissioning

(* Until the network is up a procedure or its retry is under way, exactly  *)
(* as long as the stack has refused none of them (CommissioningGoesOn).    *)
THEOREM CommissioningContinues == Spec => []CommissioningGoesOn
<1>1. Init => CommissioningGoesOn
  BY DEF Init, CommissioningGoesOn
<1> QED
  BY <1>1, Typing, CommissioningIsSingle, CommissioningGoesOnStep, PTL DEF Spec

(* Most steps leave the chain of rescans and its counter alone.            *)
LEMMA ChainFrame ==
  ASSUME TypeOK, [Next]_vars,
         ~StartSucceeded, ~FormationSucceeded, ~RescanAlarm, ~RescanEnd, ~RescanTail,
         ~ScanWithoutShelves, ~Restart
  PROVE  /\ RescanChain' = RescanChain
         /\ rescanRemaining' = rescanRemaining
<1> SUFFICES /\ alarms'["rescan"] = alarms["rescan"]
             /\ lock' = lock /\ rescanTail' = rescanTail
             /\ rescanRemaining' = rescanRemaining
  BY DEF RescanChain
<1> USE DEF rescanVars, AlarmKind, TypeOK
<1>1. CASE StartFailed
  BY <1>1, ScheduleRetryFacts DEF StartFailed
<1>2. CASE FormationFailed
  BY <1>2, ScheduleRetryFacts DEF FormationFailed
<1>3. CASE SkipStartup \/ SteeringEnded
  BY <1>3 DEF SkipStartup, SteeringEnded
<1>4. CASE RetryCommissioning("initialization")
  BY <1>4, FiredFacts DEF RetryCommissioning, Fires
<1>5. CASE RetryCommissioning("formation")
  BY <1>5, FiredFacts DEF RetryCommissioning, Fires
<1>6. CASE StartLivenessScan
  BY <1>6, ScheduleFacts DEF StartLivenessScan
<1>7. CASE FinalizeLivenessScan
  BY <1>7, FiredFacts DEF FinalizeLivenessScan, Fires
<1>8. CASE \E a \in Shelf : RescanVisit(a) \/ ReadAttrRsp(a)
  BY <1>8 DEF RescanVisit, ReadAttrRsp
<1>9. CASE \E a \in Shelf : ShelfEvent(a)
  BY <1>9 DEF ShelfEvent, DeviceAnnce, LeaveIndication, ReportAttr, FindShelfDeviceResult,
              FindShelfDeviceFailed, BindShelfDeviceResult, ShelfAnswersPing, ShelfJoinsGroup
<1>10. CASE UNCHANGED vars
  BY <1>10 DEF vars
<1> QED
  BY <1>1, <1>2, <1>3, <1>4, <1>5, <1>6, <1>7, <1>8, <1>9, <1>10
     DEF Next, Commissioning, Rescan, LivenessScan

(* The invariant needs OneCommissioner: a retry that started initialization*)
(* on a joined coordinator would start a second chain.                     *)
LEMMA SingleRescanChainStep ==
  TypeOK /\ OneCommissioner /\ SingleRescanChain /\ [Next]_vars => SingleRescanChain'
<1> SUFFICES ASSUME TypeOK, OneCommissioner, SingleRescanChain, [Next]_vars
             PROVE  SingleRescanChain'
  OBVIOUS
<1>1. /\ alarms \in [AlarmKind -> Nat]
      /\ alarms["rescan"] \in Nat /\ "rescan" \in AlarmKind
      /\ lock \in {"free", "uart", "timer"} /\ rescanTail \in BOOLEAN
      /\ rescanRemaining \in Nat
  BY CoordinatorAssumption DEF TypeOK, AlarmKind
<1>2. RescanChain \in {0, 1}
  BY <1>1 DEF SingleRescanChain, RescanChain
<1>3. CASE StartSucceeded \/ FormationSucceeded
  <2>1. RescanChain = 0
    <3>1. bdb \in {"initialization", "formation"}
      BY <1>3 DEF StartSucceeded, FormationSucceeded
    <3> QED
      BY <1>2, <3>1 DEF SingleRescanChain
  <2>2. lock' = lock /\ rescanTail' = rescanTail
    BY <1>3 DEF StartSucceeded, FormationSucceeded, rescanVars
  <2> USE DEF StartCommissioning
  <2>3. CASE StartPeriodicRescan /\ joined' /\ bdb' \in {"none", "steering"}
    <3>1. /\ alarms'["rescan"] \in {alarms["rescan"], alarms["rescan"] + 1}
          /\ ~AlarmFaults => alarms'["rescan"] = alarms["rescan"] + 1
      BY <1>1, <2>3, ScheduleFacts DEF StartPeriodicRescan
    <3>2. /\ RescanChain' \in {0, 1}
          /\ ~AlarmFaults => RescanChain' = 1
      BY <1>1, <2>1, <2>2, <3>1 DEF RescanChain
    <3> QED
      BY <2>3, <3>2 DEF SingleRescanChain
  <2>4. CASE UNCHANGED <<joined, rescanRemaining, alarms>> /\ bdb = "initialization"
    <3>1. RescanChain' = RescanChain /\ rescanRemaining' = rescanRemaining
      BY <2>2, <2>4 DEF RescanChain
    <3> QED
      BY <2>1, <2>4, <3>1 DEF SingleRescanChain
  <2> QED
    BY <1>3, <2>3, <2>4 DEF StartSucceeded, FormationSucceeded
<1>4. CASE RescanAlarm
  <2>1. /\ lock = "free" /\ lock' = "timer" /\ ~rescanTail /\ rescanTail' = rescanTail
        /\ alarms["rescan"] > 0 /\ alarms'["rescan"] = alarms["rescan"] - 1
    BY <1>1, <1>4, FiredFacts DEF RescanAlarm, Fires, BeginRescan
  <2>2. RescanChain = 1 /\ RescanChain' = 1
    BY <1>1, <1>2, <2>1 DEF RescanChain
  <2>3. joined' = joined /\ bdb' = bdb
    BY <1>4 DEF RescanAlarm, bdbVars
  <2> QED
    BY <2>2, <2>3 DEF SingleRescanChain
<1>5. CASE RescanEnd
  <2>1. RescanChain' = RescanChain
    <3>1. lock # "free" /\ lock' = "free" /\ alarms' = alarms
      BY <1>5 DEF RescanEnd
    <3>2. CASE lock = "timer"
      <4>1. rescanTail = FALSE
        BY <1>1, <1>2, <3>2 DEF RescanChain
      <4>2. rescanTail' = TRUE
        BY <1>5, <3>2 DEF RescanEnd
      <4> QED
        BY <1>1, <3>1, <3>2, <4>1, <4>2 DEF RescanChain
    <3>3. CASE lock # "timer"
      <4>1. rescanTail' = rescanTail
        BY <1>1, <1>5, <3>3 DEF RescanEnd
      <4> QED
        BY <1>1, <3>1, <3>3, <4>1 DEF RescanChain
    <3> QED
      BY <3>2, <3>3
  <2>2. joined' = joined /\ bdb' = bdb /\ rescanRemaining' = rescanRemaining
    BY <1>5 DEF RescanEnd, bdbVars
  <2> QED
    BY <2>1, <2>2 DEF SingleRescanChain
<1>6. CASE RescanTail
  <2>1. /\ RescanChain = 1 /\ alarms["rescan"] = 0 /\ lock # "timer"
        /\ lock' = lock /\ rescanTail' = FALSE
    BY <1>1, <1>2, <1>6 DEF RescanTail, RescanChain
  <2>2. joined' = joined /\ bdb' = bdb
    BY <1>6 DEF RescanTail, bdbVars
  <2>3. CASE rescanRemaining > 0
    <3>1. /\ alarms'["rescan"] \in {0, 1}
          /\ ~AlarmFaults => alarms'["rescan"] = 1
      BY <1>1, <1>6, <2>1, <2>3, ScheduleFacts DEF RescanTail
    <3>2. RescanChain' = alarms'["rescan"]
      BY <2>1, <3>1 DEF RescanChain
    <3> QED
      BY <2>1, <2>2, <3>1, <3>2 DEF SingleRescanChain
  <2>4. CASE ~(rescanRemaining > 0)
    <3>1. rescanRemaining' = rescanRemaining /\ alarms'["rescan"] = 0
      BY <1>6, <2>1, <2>4 DEF RescanTail
    <3>2. RescanChain' = 0
      BY <2>1, <3>1 DEF RescanChain
    <3> QED
      BY <2>4, <3>1, <3>2 DEF SingleRescanChain
  <2> QED
    BY <2>3, <2>4
<1>7. CASE ScanWithoutShelves
  <2>1. RescanChain' = RescanChain
    BY <1>7 DEF ScanWithoutShelves, MayScan, BeginRescan, RescanChain
  <2>2. joined' = joined /\ bdb' = bdb /\ rescanRemaining' = rescanRemaining
    BY <1>7 DEF ScanWithoutShelves, bdbVars
  <2> QED
    BY <2>1, <2>2 DEF SingleRescanChain
<1>8. CASE Restart
  BY <1>1, <1>8 DEF Restart, SingleRescanChain, RescanChain, NoAlarms
<1>9. CASE ~(\/ StartSucceeded \/ FormationSucceeded \/ RescanAlarm \/ RescanEnd
             \/ RescanTail \/ ScanWithoutShelves \/ Restart)
  <2>1. RescanChain' = RescanChain /\ rescanRemaining' = rescanRemaining
    BY <1>9, ChainFrame
  <2>2. CASE RescanChain = 0
    BY <2>1, <2>2 DEF SingleRescanChain
  <2>3. CASE RescanChain = 1
    <3>1. joined /\ bdb \in {"none", "steering"}
      BY <2>3 DEF SingleRescanChain
    <3>2. alarms["initialization"] = 0 /\ alarms["formation"] = 0
      <4>1. alarms["initialization"] \in Nat /\ alarms["formation"] \in Nat
        BY DEF TypeOK, AlarmKind
      <4> QED
        BY <3>1, <4>1 DEF OneCommissioner
    <3>3. CASE Commissioning
      <4>1. ~SkipStartup /\ ~StartFailed /\ ~FormationFailed
        BY <3>1 DEF SkipStartup, StartFailed, FormationFailed
      <4>2. ~RetryCommissioning("initialization") /\ ~RetryCommissioning("formation")
        BY <3>2 DEF RetryCommissioning, Fires
      <4>3. SteeringEnded
        BY <1>9, <3>3, <4>1, <4>2 DEF Commissioning
      <4> QED
        BY <2>1, <2>3, <3>1, <4>3 DEF SteeringEnded, SingleRescanChain
    <3>4. CASE ~Commissioning
      BY <1>9, <2>1, <3>1, <3>4, CommissioningFrame DEF SingleRescanChain
    <3> QED
      BY <3>3, <3>4
  <2> QED
    BY <1>2, <2>2, <2>3
<1> QED
  BY <1>3, <1>4, <1>5, <1>6, <1>7, <1>8, <1>9

(* At most one chain of rescans exists, on a joined coordinator only, and  *)
(* it lasts until its counter is used up (SingleRescanChain).              *)
THEOREM RescanChainIsSingle == Spec => []SingleRescanChain
<1>1. Init => OneCommissioner /\ SingleRescanChain
  BY DEF Init, OneCommissioner, SingleRescanChain, RescanChain, NoAlarms, AlarmKind
<1> QED
  BY <1>1, Typing, CommissioningIsSingle, SingleRescanChainStep, PTL DEF Spec

-----------------------------------------------------------------------------
(* The addresses of a scan and the registry.                               *)

(* A grown registry still has the addresses of the scan as its prefix.     *)
LEMMA SnapshotSurvivesGrowth ==
  ASSUME TypeOK, TypeOK', ScanIsSnapshot, [Next]_vars, ~Restart,
         scanAddrs' = scanAddrs, scanActive' => scanActive
  PROVE  ScanIsSnapshot'
<1>1. /\ Len(known) \in Nat /\ Len(known') \in Nat
      /\ Len(scanAddrs) \in Nat
  BY LenProperties DEF TypeOK
<1>2. IsInjective(known)'
  BY RegistryGrows DEF ScanIsSnapshot
<1>3. Len(scanAddrs) <= Len(known')
  BY <1>1, RegistryGrows DEF ScanIsSnapshot
<1>4. \A i \in 1 .. Len(scanAddrs) : scanAddrs[i] = known'[i]
  BY <1>1, RegistryGrows DEF ScanIsSnapshot
<1>5. scanActive' => scanAddrs # <<>>
  BY DEF ScanIsSnapshot
<1> QED
  BY <1>2, <1>3, <1>4, <1>5 DEF ScanIsSnapshot

LEMMA ScanIsSnapshotStep ==
  TypeOK /\ TypeOK' /\ ScanIsSnapshot /\ [Next]_vars => ScanIsSnapshot'
<1> SUFFICES ASSUME TypeOK, TypeOK', ScanIsSnapshot, [Next]_vars PROVE ScanIsSnapshot'
  OBVIOUS
<1>1. /\ Len(known) \in Nat /\ Len(<<>>) = 0
  BY LenProperties, EmptySeq DEF TypeOK
<1>2. CASE StartLivenessScan
  BY <1>1, <1>2 DEF StartLivenessScan, ScanIsSnapshot
<1>3. CASE ScanWithoutShelves
  <2>1. known' = known /\ scanAddrs' = <<>> /\ ~scanActive'
    BY <1>3 DEF ScanWithoutShelves, MayScan
  <2> QED
    BY <1>1, <2>1 DEF ScanIsSnapshot
<1>4. CASE FinalizeLivenessScan /\ ~Restart
  BY <1>4, SnapshotSurvivesGrowth DEF FinalizeLivenessScan
<1>5. CASE (\E a \in Shelf : ReadAttrRsp(a)) /\ ~Restart
  BY <1>5, SnapshotSurvivesGrowth DEF ReadAttrRsp
<1>6. CASE Restart
  <2>1. known' = <<>> /\ scanAddrs' = <<>> /\ ~scanActive'
    BY <1>6 DEF Restart
  <2>2. IsInjective(<<>>)
    BY DEF IsInjective
  <2> QED
    BY <1>1, <2>1, <2>2 DEF ScanIsSnapshot
<1>7. CASE ~(\/ StartLivenessScan \/ ScanWithoutShelves \/ FinalizeLivenessScan
             \/ (\E a \in Shelf : ReadAttrRsp(a)) \/ Restart)
  BY <1>7, ScanFrame, SnapshotSurvivesGrowth
<1> QED
  BY <1>2, <1>3, <1>4, <1>5, <1>6, <1>7

(* The registry has no duplicates and the addresses of a scan are a prefix *)
(* of it (ScanIsSnapshot).                                                 *)
THEOREM ScanSnapshots == Spec => []ScanIsSnapshot
<1>1. Init => ScanIsSnapshot
  <2> SUFFICES ASSUME Init PROVE ScanIsSnapshot
    OBVIOUS
  <2>1. known = <<>> /\ scanAddrs = <<>> /\ ~scanActive
    BY DEF Init
  <2>2. IsInjective(<<>>) /\ Len(<<>>) = 0
    BY EmptySeq DEF IsInjective
  <2> QED
    BY <2>1, <2>2 DEF ScanIsSnapshot
<1> QED
  BY <1>1, Typing, ScanIsSnapshotStep, PTL DEF Spec

-----------------------------------------------------------------------------
(* Shelves of the group are watched.                                       *)

(* GroupIsWatched is not inductive: a group request may still be in the    *)
(* air when nothing else is pending for the shelf.                         *)
Provisioning == Provisioned \cup (IF restarts = 0 THEN {a \in Shelf : AddGroup(a) \in air}
                                                  ELSE {})

WatchedOrFull == \A a \in Provisioning : IsKnown(a) \/ Len(known) = MaxKnown

LEMMA WatchedOrFullStep ==
  TypeOK /\ TypeOK' /\ WatchedOrFull /\ [Next]_vars => WatchedOrFull'
<1> SUFFICES ASSUME TypeOK, TypeOK', WatchedOrFull, [Next]_vars PROVE WatchedOrFull'
  OBVIOUS
<1>1. /\ Len(known) \in Nat /\ Len(known') \in Nat /\ MaxKnown \in Nat
      /\ Len(known) <= MaxKnown /\ Len(known') <= MaxKnown
  BY LenProperties, CoordinatorAssumption DEF TypeOK
<1>2. CASE Restart
  <2>1. Provisioning' = {}
    BY <1>2 DEF Provisioning, Provisioned, Restart, TypeOK
  <2> QED
    BY <2>1 DEF WatchedOrFull
<1>3. CASE ~Restart
  <2>1. \A a : IsKnown(a) \/ Len(known) = MaxKnown
                => IsKnown(a)' \/ Len(known') = MaxKnown
    <3>1. Len(known) <= Len(known') /\ Range(known) \subseteq Range(known')
      BY <1>3, RegistryGrows
    <3> QED
      BY <1>1, <3>1 DEF IsKnown
  <2>2. \A a \in Shelf : \A b :
          RegisterShelf(a) /\ UNCHANGED <<bindReq, air, group, restarts>>
            /\ b \in Provisioning'
          => b \in Provisioning \/ IsKnown(b)' \/ Len(known') = MaxKnown
    BY RegisterShelfFacts DEF Provisioning, Provisioned, IsKnown
  <2>3. \A b \in Provisioning' : \/ b \in Provisioning
                                \/ IsKnown(b)' \/ Len(known') = MaxKnown
    <3>1. CASE \E a \in Shelf : RescanVisit(a) \/ DeviceAnnce(a)
      BY <3>1, <2>2 DEF RescanVisit, DeviceAnnce
    <3>2. CASE \E a \in Shelf : FindShelfDeviceResult(a)
      BY <3>2 DEF FindShelfDeviceResult, Requested, Provisioning, Provisioned, AddGroup
    <3>3. CASE \E a \in Shelf : FindShelfDeviceFailed(a) \/ BindShelfDeviceResult(a)
      BY <3>3 DEF FindShelfDeviceFailed, BindShelfDeviceResult, Provisioning, Provisioned
    <3>4. CASE \E a \in Shelf : LeaveIndication(a)
      BY <3>4 DEF LeaveIndication, Provisioning, Provisioned
    <3>5. CASE \E a \in Shelf : ShelfJoinsGroup(a)
      BY <3>5 DEF ShelfJoinsGroup, Provisioning, Provisioned, AddGroup
    <3>6. CASE \E a \in Shelf : ShelfAnswersPing(a)
      BY <3>6 DEF ShelfAnswersPing, Provisioning, Provisioned, AddGroup, Ping, Response
    <3>7. CASE \E a \in Shelf : ReadAttrRsp(a)
      BY <3>7 DEF ReadAttrRsp, Provisioning, Provisioned
    <3>8. CASE StartLivenessScan
      BY <3>8 DEF StartLivenessScan, Provisioning, Provisioned, AddGroup, Ping
    <3>9. CASE UNCHANGED <<shelfVars, restarts>>
      BY <3>9 DEF shelfVars, Provisioning, Provisioned
    <3> QED
      <4>1. CASE Commissioning
        BY <3>9, <4>1 DEF Commissioning, SkipStartup, StartSucceeded, StartFailed,
           FormationSucceeded, FormationFailed, SteeringEnded, RetryCommissioning
      <4>2. CASE RescanAlarm \/ RescanEnd \/ RescanTail
        BY <3>9, <4>2 DEF RescanAlarm, RescanEnd, RescanTail
      <4>3. CASE ScanWithoutShelves \/ FinalizeLivenessScan \/ \E a \in Shelf : ReportAttr(a)
        BY <3>9, <4>3 DEF ScanWithoutShelves, FinalizeLivenessScan, ReportAttr
      <4>4. CASE UNCHANGED vars
        BY <3>9, <4>4 DEF vars
      <4> QED
        BY <1>3, <3>1, <3>2, <3>3, <3>4, <3>5, <3>6, <3>7, <3>8, <4>1, <4>2, <4>3, <4>4
           DEF Next, Rescan, LivenessScan, ShelfEvent
  <2> QED
    BY <2>1, <2>3 DEF WatchedOrFull
<1> QED
  BY <1>2, <1>3

(* A shelf that was put in the group since power on, or is being put there,*)
(* is in the registry unless that is full (GroupIsWatched).                *)
THEOREM GroupWatched == Spec => []GroupIsWatched
<1>1. Init => WatchedOrFull
  BY DEF Init, WatchedOrFull, Provisioning, Provisioned
<1>2. WatchedOrFull => GroupIsWatched
  BY DEF WatchedOrFull, Provisioning, GroupIsWatched
<1> QED
  BY <1>1, <1>2, Typing, WatchedOrFullStep, PTL DEF Spec

(* What coordinator_register_shelf adds to the registry is provisioned,    *)
(* unless the stack refuses the request.                                   *)
LEMMA RegisteredIsRequested ==
  ASSUME TypeOK, NEW a \in Shelf, RegisterShelf(a), ~RadioFaults
  PROVE  /\ \A b \in Range(known') : b \in Range(known) \/ b \in matchReq'
         /\ matchReq \subseteq matchReq'
<1>1. CASE IsKnown(a)
  BY <1>1 DEF RegisterShelf
<1>2. CASE ~IsKnown(a)
  <2>1. matchReq' = matchReq \cup {a} /\ MarkKnown(a)
    BY <1>2 DEF RegisterShelf, Requested
  <2>2. CASE known' = known
    BY <2>1, <2>2
  <2>3. CASE known' = Append(known, a)
    <3>1. /\ known \in Seq(Shelf) /\ Len(known) \in Nat
          /\ Len(known') = Len(known) + 1
          /\ \A i \in 1 .. Len(known) : known'[i] = known[i]
          /\ known'[Len(known) + 1] = a
      BY <2>3, AppendProperties, LenProperties DEF TypeOK
    <3>2. DOMAIN known = 1 .. Len(known) /\ DOMAIN known' = 1 .. Len(known) + 1
      BY <2>3, <3>1, AppendProperties, LenProperties
    <3>3. \A i \in DOMAIN known' : known'[i] = a \/ known'[i] \in Range(known)
      BY <3>1, <3>2 DEF Range
    <3> QED
      BY <2>1, <3>3 DEF Range
  <2> QED
    BY <2>1, <2>2, <2>3 DEF MarkKnown
<1> QED
  BY <1>1, <1>2

Underway(a) == a \in matchReq \/ AddGroup(a) \in air \/ a \in group

(* No step but a restart, which empties the registry, gives up a shelf:    *)
(* the request becomes the group command and that the membership.          *)
LEMMA RegisteredIsProvisionedStep ==
  TypeOK /\ RegisteredIsProvisioned /\ [Next]_vars => RegisteredIsProvisioned'
<1> SUFFICES ASSUME TypeOK, RegisteredIsProvisioned, [Next]_vars,
                    ~RadioFaults, ~ShelfResets,
                    NEW b \in Range(known')
             PROVE  Underway(b)'
  BY DEF RegisteredIsProvisioned, Underway
<1>1. \A c \in Range(known) : Underway(c)
  BY DEF RegisteredIsProvisioned, Underway
<1>2. CASE \E a \in Shelf : RescanVisit(a) \/ DeviceAnnce(a)
  <2>1. PICK a \in Shelf : RescanVisit(a) \/ DeviceAnnce(a)
    BY <1>2
  <2>2. RegisterShelf(a) /\ UNCHANGED <<air, group>>
    BY <2>1 DEF RescanVisit, DeviceAnnce
  <2>3. b \in Range(known) \/ b \in matchReq'
    BY <2>2, RegisteredIsRequested
  <2>4. matchReq \subseteq matchReq'
    BY <2>2, RegisteredIsRequested
  <2> QED
    BY <1>1, <2>2, <2>3, <2>4 DEF Underway
<1>3. CASE Restart
  BY <1>3 DEF Restart, Range
<1>4. ASSUME known' = known,
             \A c : c \in matchReq => c \in matchReq' \/ AddGroup(c) \in air',
             \A c : AddGroup(c) \in air => AddGroup(c) \in air' \/ c \in group',
             group \subseteq group'
      PROVE  Underway(b)'
  BY <1>1, <1>4 DEF Underway
<1>5. CASE \E a \in Shelf : FindShelfDeviceResult(a)
  BY <1>4, <1>5 DEF FindShelfDeviceResult, Requested
<1>6. CASE \E a \in Shelf : ShelfJoinsGroup(a)
  BY <1>4, <1>6 DEF ShelfJoinsGroup, AddGroup
<1>7. CASE \E a \in Shelf : ShelfAnswersPing(a)
  BY <1>4, <1>7 DEF ShelfAnswersPing, AddGroup, Ping
<1>8. CASE \E a \in Shelf : ReadAttrRsp(a)
  BY <1>4, <1>8 DEF ReadAttrRsp, AddGroup, Response
<1>9. CASE StartLivenessScan
  BY <1>4, <1>9 DEF StartLivenessScan
<1>10. CASE \E a \in Shelf : LeaveIndication(a)
  BY <1>4, <1>10 DEF LeaveIndication
<1>11. CASE UNCHANGED <<known, matchReq, air, group>>
  BY <1>4, <1>11
<1>12. CASE Commissioning
  BY <1>11, <1>12 DEF Commissioning, SkipStartup, StartSucceeded, StartFailed,
     FormationSucceeded, FormationFailed, SteeringEnded, RetryCommissioning, shelfVars
<1>13. CASE RescanAlarm \/ RescanEnd \/ RescanTail
  BY <1>11, <1>13 DEF RescanAlarm, RescanEnd, RescanTail, shelfVars
<1>14. CASE ScanWithoutShelves \/ FinalizeLivenessScan
  BY <1>11, <1>14 DEF ScanWithoutShelves, FinalizeLivenessScan, shelfVars
<1>15. CASE \E a \in Shelf : \/ ReportAttr(a) \/ BindShelfDeviceResult(a)
                            \/ FindShelfDeviceFailed(a)
  BY <1>11, <1>15 DEF ReportAttr, BindShelfDeviceResult, FindShelfDeviceFailed, shelfVars
<1>16. CASE UNCHANGED vars
  BY <1>11, <1>16 DEF vars, shelfVars
<1> QED
  BY <1>2, <1>3, <1>5, <1>6, <1>7, <1>8, <1>9, <1>10, <1>12, <1>13, <1>14, <1>15, <1>16
     DEF Next, Rescan, LivenessScan, ShelfEvent

(* A shelf in the registry is in the group or on its way there, as long as *)
(* no request is lost (RegisteredIsProvisioned).                           *)
THEOREM RegisteredShelves == Spec => []RegisteredIsProvisioned
<1>1. Init => RegisteredIsProvisioned
  BY DEF Init, RegisteredIsProvisioned, Range
<1> QED
  BY <1>1, Typing, RegisteredIsProvisionedStep, PTL DEF Spec

-----------------------------------------------------------------------------
(* The scan service.                                                       *)

(* The range of a sequence of shelves, by index.                           *)
LEMMA RangeByIndex ==
  ASSUME NEW s \in Seq(Shelf)
  PROVE  /\ Len(s) \in Nat
         /\ Range(s) = {s[i] : i \in 1 .. Len(s)}
         /\ Range(s) \subseteq Shelf
<1>1. Len(s) \in Nat /\ DOMAIN s = 1 .. Len(s)
  BY LenProperties
<1>2. \A i \in 1 .. Len(s) : s[i] \in Shelf
  BY ElementOfSeq
<1> QED
  BY <1>1, <1>2 DEF Range

(* The addresses of a scan fit into its arrays.                            *)
LEMMA ScanFits ==
  ASSUME TypeOK, ScanIsSnapshot
  PROVE  Len(scanAddrs) \in Nat /\ Len(scanAddrs) <= MaxKnown
BY RangeByIndex, CoordinatorAssumption DEF TypeOK, ScanIsSnapshot

(* A response is noted for the shelf that sent it, or for nobody.          *)
LEMMA ResponseIsHeard ==
  ASSUME TypeOK, ScanIsSnapshot, NEW a \in Shelf, ReadAttrRsp(a)
  PROVE  /\ scanActive' = scanActive /\ Asked' = Asked
         /\ \/ Heard' = Heard
            \/ scanActive /\ a \in Asked /\ Heard' = Heard \cup {a}
<1>1. scanActive' = scanActive /\ scanAddrs' = scanAddrs
  BY DEF ReadAttrRsp
<1>2. Asked' = Asked
  BY <1>1 DEF Asked
<1> DEFINE N == Len(scanAddrs)
<1>3. N \in Nat /\ N <= MaxKnown /\ MaxKnown \in Nat
  BY ScanFits, CoordinatorAssumption
<1>4. \A i \in 1 .. N : scanResponded'[i] <=> scanResponded[i] \/ (scanActive /\ scanAddrs[i] = a)
  BY <1>3 DEF ReadAttrRsp, MarkLivenessResponse
<1>5. Heard' = {scanAddrs[i] : i \in {j \in 1 .. N : scanResponded'[j]}}
  BY <1>1 DEF Heard
<1>6. Heard = {scanAddrs[i] : i \in {j \in 1 .. N : scanResponded[j]}}
  BY DEF Heard
<1>7. CASE scanActive /\ a \in Asked
  <2>1. PICK k \in 1 .. N : scanAddrs[k] = a
    BY <1>7, RangeByIndex DEF Asked, TypeOK
  <2>2. Heard' = Heard \cup {a}
    BY <1>4, <1>5, <1>6, <1>7, <2>1
  <2> QED
    BY <1>1, <1>2, <1>7, <2>2
<1>8. CASE ~(scanActive /\ a \in Asked)
  <2>1. \A i \in 1 .. N : scanActive => scanAddrs[i] # a
    BY <1>8, RangeByIndex DEF Asked, TypeOK
  <2>2. Heard' = Heard
    BY <1>4, <1>5, <1>6, <2>1
  <2> QED
    BY <1>1, <1>2, <2>2
<1> QED
  BY <1>7, <1>8

(* Every step of the coordinator is a step of the scan service or leaves   *)
(* it alone.                                                               *)
LEMMA ScanServiceStep ==
  TypeOK /\ TypeOK' /\ ScanIsSnapshot /\ ScanIsSnapshot' /\ [Next]_vars
    => [Svc!Next]_(Svc!vars)
<1> SUFFICES ASSUME TypeOK, TypeOK', ScanIsSnapshot, ScanIsSnapshot', [Next]_vars
             PROVE  Svc!Next \/ UNCHANGED <<scanActive, Asked, Heard>>
  BY DEF Svc!vars
<1> USE DEF Svc!Next
<1>1. CASE StartLivenessScan
  <2>1. ~scanActive /\ scanActive' = TRUE
    BY <1>1 DEF StartLivenessScan, MayScan
  <2>2. scanAddrs' \in Seq(Shelf) /\ Asked' = Range(scanAddrs')
    BY DEF TypeOK, Asked
  <2>3. Asked' # {}
    <3>1. scanAddrs' # <<>>
      BY <2>1 DEF ScanIsSnapshot
    <3>2. Len(scanAddrs') \in Nat \ {0}
      BY <2>2, <3>1, EmptySeq
    <3>3. Asked' = {scanAddrs'[i] : i \in 1 .. Len(scanAddrs')}
      BY <2>2, RangeByIndex
    <3>4. 1 \in 1 .. Len(scanAddrs')
      BY <3>2
    <3> QED
      BY <3>3, <3>4
  <2>4. Heard' = {}
    <3>1. Len(scanAddrs') \in Nat /\ Len(scanAddrs') <= MaxKnown /\ MaxKnown \in Nat
      <4>1. Len(known') \in Nat /\ Len(known') <= MaxKnown /\ Len(scanAddrs') <= Len(known')
        BY RangeByIndex DEF TypeOK, ScanIsSnapshot
      <4> QED
        BY <2>2, <4>1, RangeByIndex, CoordinatorAssumption
    <3>2. \A i \in 1 .. MaxKnown : scanResponded'[i] = FALSE
      BY <1>1 DEF StartLivenessScan, ClearResponses, NoResponses
    <3>3. \A i \in 1 .. Len(scanAddrs') : ~scanResponded'[i]
      BY <3>1, <3>2
    <3> QED
      BY <3>3 DEF Heard
  <2> QED
    BY <2>1, <2>2, <2>3, <2>4, RangeByIndex DEF Svc!Begin
<1>2. CASE ScanWithoutShelves
  <2>1. ~scanActive /\ known = <<>> /\ scanActive' = scanActive /\ scanAddrs' = <<>>
    BY <1>2 DEF ScanWithoutShelves, MayScan
  <2>2. scanAddrs = <<>>
    <3>1. Len(scanAddrs) <= Len(<<>>) /\ Len(<<>>) = 0 /\ Len(scanAddrs) \in Nat
      BY <2>1, EmptySeq, LenProperties DEF ScanIsSnapshot, TypeOK
    <3> QED
      BY <3>1, EmptySeq DEF TypeOK
  <2>3. Asked' = Asked
    BY <2>1, <2>2 DEF Asked
  <2>4. Heard = {} /\ Heard' = {}
    BY <2>1, <2>2, EmptySeq DEF Heard
  <2> QED
    BY <2>1, <2>3, <2>4
<1>3. CASE FinalizeLivenessScan
  <2>1. UNCHANGED <<Asked, Heard>>
    BY <1>3 DEF FinalizeLivenessScan, Asked, Heard
  <2>2. (scanActive /\ scanActive' = FALSE) \/ scanActive' = scanActive
    BY <1>3 DEF FinalizeLivenessScan
  <2> QED
    BY <2>1, <2>2 DEF Svc!Conclude
<1>4. CASE \E a \in Shelf : ReadAttrRsp(a)
  BY <1>4, ResponseIsHeard DEF Svc!Hear
<1>5. CASE Restart
  <2>1. scanActive' = FALSE /\ scanAddrs' = <<>>
    BY <1>5 DEF Restart
  <2>2. Asked' = {} /\ Heard' = {}
    BY <2>1, EmptySeq DEF Asked, Heard, Range
  <2> QED
    BY <2>1, <2>2 DEF Svc!Restart
<1>6. CASE ~(\/ StartLivenessScan \/ ScanWithoutShelves \/ FinalizeLivenessScan
             \/ (\E a \in Shelf : ReadAttrRsp(a)) \/ Restart)
  BY <1>6, ScanFrame DEF Asked, Heard
<1> QED
  BY <1>1, <1>2, <1>3, <1>4, <1>5, <1>6

(* The coordinator implements the safety part of the scan service: scans   *)
(* do not overlap, each starts with nothing heard, and only shelves it     *)
(* asked are heard (ImplementsScanService).                                *)
THEOREM ScanServiceImplemented == Spec => ImplementsScanService
<1>1. Init => Svc!Init
  <2> SUFFICES ASSUME Init PROVE scanActive = FALSE /\ Asked = {} /\ Heard = {}
    BY DEF Svc!Init
  <2>1. scanActive = FALSE /\ scanAddrs = <<>>
    BY DEF Init
  <2> QED
    BY <2>1, EmptySeq DEF Asked, Heard, Range
<1> QED
  BY <1>1, Typing, ScanSnapshots, ScanServiceStep, PTL
     DEF Spec, ImplementsScanService, Svc!SafeSpec

(* The lines of a concluded scan are one verdict per shelf, because no     *)
(* address occurs twice.                                                   *)
LEMMA VerdictsBySet ==
  ASSUME TypeOK, ScanIsSnapshot
  PROVE  Verdicts = {Join(a) : a \in Heard} \cup {Leave(a) : a \in Asked \ Heard}
<1> DEFINE N == Len(scanAddrs)
<1>1. Asked = {scanAddrs[i] : i \in 1 .. N}
  BY RangeByIndex DEF Asked, TypeOK
<1>2. Heard = {scanAddrs[i] : i \in {j \in 1 .. N : scanResponded[j]}}
  BY DEF Heard
<1>3. ASSUME NEW i \in 1 .. N, NEW j \in 1 .. N, scanAddrs[i] = scanAddrs[j]
      PROVE  i = j
  <2>1. known[i] = known[j]
    BY <1>3 DEF ScanIsSnapshot
  <2>2. i \in DOMAIN known /\ j \in DOMAIN known
    <3>1. Len(known) \in Nat /\ DOMAIN known = 1 .. Len(known) /\ N \in Nat /\ N <= Len(known)
      BY LenProperties DEF TypeOK, ScanIsSnapshot
    <3> QED
      BY <3>1
  <2> QED
    BY <2>1, <2>2 DEF ScanIsSnapshot, IsInjective
<1>4. \A i \in 1 .. N : scanAddrs[i] \in Heard <=> scanResponded[i]
  BY <1>2, <1>3
<1>5. Verdicts \subseteq {Join(a) : a \in Heard} \cup {Leave(a) : a \in Asked \ Heard}
  BY <1>1, <1>4 DEF Verdicts
<1>6. ASSUME NEW a \in Heard PROVE Join(a) \in Verdicts
  BY <1>2, <1>6 DEF Verdicts
<1>7. ASSUME NEW a \in Asked \ Heard PROVE Leave(a) \in Verdicts
  <2>1. PICK i \in 1 .. N : a = scanAddrs[i]
    BY <1>1, <1>7
  <2>2. ~scanResponded[i]
    BY <1>4, <1>7, <2>1
  <2> QED
    BY <2>1, <2>2 DEF Verdicts
<1> QED
  BY <1>5, <1>6, <1>7

(* When a scan concludes, the host gets exactly one verdict about every    *)
(* shelf that was asked (VerdictForEachAsked).                             *)
THEOREM ScanVerdicts == Spec => VerdictForEachAsked
<1> DEFINE V == Svc!Conclude => out' = {Join(a) : a \in Heard}
                                         \cup {Leave(a) : a \in Asked \ Heard}
<1>1. TypeOK /\ ScanIsSnapshot /\ [Next]_vars => [V]_vars
  <2> SUFFICES ASSUME TypeOK, ScanIsSnapshot, [Next]_vars, Svc!Conclude
               PROVE  out' = {Join(a) : a \in Heard} \cup {Leave(a) : a \in Asked \ Heard}
    OBVIOUS
  <2>1. scanActive /\ scanActive' = FALSE /\ Asked' = Asked
    BY DEF Svc!Conclude
  <2>2. CASE FinalizeLivenessScan
    BY <2>1, <2>2, VerdictsBySet DEF FinalizeLivenessScan
  <2>3. CASE StartLivenessScan \/ ScanWithoutShelves \/ \E a \in Shelf : ReadAttrRsp(a)
    BY <2>1, <2>3 DEF StartLivenessScan, ScanWithoutShelves, ReadAttrRsp
  <2>4. CASE Restart
    <3>1. scanAddrs' = <<>>
      BY <2>4 DEF Restart
    <3>2. Asked' = {}
      BY <3>1, EmptySeq DEF Asked, Range
    <3>3. scanAddrs # <<>> /\ scanAddrs \in Seq(Shelf)
      BY <2>1 DEF ScanIsSnapshot, TypeOK
    <3>4. 1 \in 1 .. Len(scanAddrs)
      BY <3>3, EmptySeq
    <3>5. Asked # {}
      BY <3>3, <3>4, RangeByIndex DEF Asked
    <3> QED
      BY <2>1, <3>2, <3>5
  <2>5. CASE ~(\/ StartLivenessScan \/ ScanWithoutShelves \/ FinalizeLivenessScan
               \/ (\E a \in Shelf : ReadAttrRsp(a)) \/ Restart)
    BY <2>1, <2>5, ScanFrame
  <2> QED
    BY <2>2, <2>3, <2>4, <2>5
<1> QED
  BY <1>1, Typing, ScanSnapshots, PTL DEF Spec, VerdictForEachAsked

-----------------------------------------------------------------------------
(* A rescan does not contradict itself.                                    *)

(* What the loop of a rescan has done: found[] holds fresh neighbours, as  *)
(* many as it has places, and one that was visited without finding a place *)
(* found them all taken.                                                   *)
RescanBooks ==
  /\ rescan.left \cup rescan.found \subseteq rescan.fresh
  /\ Cardinality(rescan.found) <= MaxKnown
  /\ \/ rescan.fresh \subseteq rescan.left \cup rescan.found
     \/ Cardinality(rescan.found) = MaxKnown

(* The bounded array takes a new address, or is full.                      *)
LEMMA AddFoundFacts ==
  ASSUME IsFiniteSet(Shelf), NEW found \in SUBSET Shelf, NEW a \in Shelf,
         Cardinality(found) <= MaxKnown
  PROVE  \/ /\ AddFound(found, a) = found \cup {a}
            /\ Cardinality(found \cup {a}) <= MaxKnown
         \/ AddFound(found, a) = found /\ Cardinality(found) = MaxKnown
<1>1. IsFiniteSet(found)
  BY FS_Subset
<1>2. Cardinality(found) \in Nat /\ MaxKnown \in Nat
  BY <1>1, FS_CardinalityType, CoordinatorAssumption
<1>3. Cardinality(found \cup {a}) = (IF a \in found THEN Cardinality(found) ELSE Cardinality(found) + 1)
  BY <1>1, FS_AddElement
<1>4. CASE Cardinality(found) < MaxKnown
  BY <1>2, <1>3, <1>4 DEF AddFound
<1>5. CASE ~(Cardinality(found) < MaxKnown)
  BY <1>2, <1>5 DEF AddFound
<1> QED
  BY <1>4, <1>5

LEMMA RescanBooksStep ==
  ASSUME IsFiniteSet(Shelf)
  PROVE  TypeOK /\ RescanBooks /\ [Next]_vars => RescanBooks'
<1> SUFFICES ASSUME TypeOK, RescanBooks, [Next]_vars PROVE RescanBooks'
  OBVIOUS
<1>1. Cardinality({}) <= MaxKnown
  BY FS_EmptySet, CoordinatorAssumption
<1>2. CASE RescanAlarm \/ ScanWithoutShelves
  <2>1. rescan'.found = {} /\ rescan'.left = rescan'.fresh
    BY <1>2 DEF RescanAlarm, ScanWithoutShelves, BeginRescan
  <2> QED
    BY <1>1, <2>1 DEF RescanBooks
<1>3. ASSUME NEW a \in Shelf, RescanVisit(a) PROVE RescanBooks'
  <2>1. rescan.found \in SUBSET Shelf /\ rescan \in [fresh : SUBSET Shelf, left : SUBSET Shelf, found : SUBSET Shelf]
    BY DEF TypeOK
  <2>2. /\ rescan'.fresh = rescan.fresh
        /\ rescan'.left = rescan.left \ {a}
        /\ rescan'.found = AddFound(rescan.found, a)
        /\ a \in rescan.left
    BY <1>3, <2>1 DEF RescanVisit
  <2>3. a \in rescan.fresh
    BY <2>2 DEF RescanBooks
  <2> DEFINE Found == rescan.found
  <2>4. \/ AddFound(Found, a) = Found \cup {a} /\ Cardinality(Found \cup {a}) <= MaxKnown
        \/ AddFound(Found, a) = Found /\ Cardinality(Found) = MaxKnown
    BY <2>1, AddFoundFacts DEF RescanBooks
  <2>5. CASE AddFound(Found, a) = Found \cup {a} /\ Cardinality(Found \cup {a}) <= MaxKnown
    <3>1. rescan'.found = Found \cup {a} /\ Cardinality(rescan'.found) <= MaxKnown
      BY <2>2, <2>5
    <3>2. \/ rescan.fresh \subseteq rescan'.left \cup rescan'.found
          \/ Cardinality(Found) = MaxKnown /\ ~(rescan.fresh \subseteq rescan.left \cup Found)
      BY <2>2, <3>1 DEF RescanBooks
    <3>3. CASE rescan.fresh \subseteq rescan'.left \cup rescan'.found
      BY <2>2, <2>3, <3>1, <3>3 DEF RescanBooks
    <3>4. CASE Cardinality(Found) = MaxKnown
      \* A full array has not grown: the address was in it.
      <4>1. IsFiniteSet(Found) /\ Cardinality(Found) \in Nat
        BY <2>1, FS_Subset, FS_CardinalityType
      <4>2. a \in Found
        <5>1. a \notin Found => Cardinality(Found \cup {a}) = Cardinality(Found) + 1
          BY <4>1, FS_AddElement
        <5>2. Cardinality(Found \cup {a}) <= Cardinality(Found)
          BY <2>5, <3>4
        <5> HIDE DEF Found
        <5> QED
          BY <4>1, <5>1, <5>2
      <4>3. rescan'.found = Found
        BY <3>1, <4>2
      <4> QED
        BY <2>2, <2>3, <3>4, <4>3 DEF RescanBooks
    <3> QED
      BY <3>2, <3>3, <3>4
  <2>6. CASE AddFound(Found, a) = Found /\ Cardinality(Found) = MaxKnown
    BY <2>2, <2>6 DEF RescanBooks
  <2> QED
    BY <2>4, <2>5, <2>6
<1>4. CASE RescanEnd \/ Restart
  <2>1. rescan' = [fresh |-> {}, left |-> {}, found |-> {}]
    BY <1>4 DEF RescanEnd, Restart, NoRescan
  <2> QED
    BY <1>1, <2>1 DEF RescanBooks
<1>5. CASE UNCHANGED rescan
  BY <1>5 DEF RescanBooks
<1>6. CASE Commissioning
  BY <1>5, <1>6 DEF Commissioning, SkipStartup, StartSucceeded, StartFailed, rescanVars,
     FormationSucceeded, FormationFailed, SteeringEnded, RetryCommissioning
<1>7. CASE RescanTail \/ StartLivenessScan \/ FinalizeLivenessScan \/ \E a \in Shelf : ReadAttrRsp(a)
  BY <1>5, <1>7 DEF RescanTail, StartLivenessScan, FinalizeLivenessScan, ReadAttrRsp, rescanVars
<1>8. CASE \E a \in Shelf : ShelfEvent(a)
  BY <1>5, <1>8 DEF ShelfEvent, DeviceAnnce, LeaveIndication, ReportAttr, FindShelfDeviceResult,
     FindShelfDeviceFailed, BindShelfDeviceResult, ShelfAnswersPing, ShelfJoinsGroup, rescanVars
<1>9. CASE UNCHANGED vars
  BY <1>5, <1>9 DEF vars, rescanVars
<1> QED
  BY <1>2, <1>3, <1>4, <1>6, <1>7, <1>8, <1>9 DEF Next, Rescan, LivenessScan

(* A rescan reports a fresh neighbour as gone only when there are more of  *)
(* them than found[] has places, and no more of them than found no place   *)
(* (FreshGoneOnlyWithoutRoom), whatever the size of the network.           *)
THEOREM RescanKeepsFreshNeighbors ==
  ASSUME IsFiniteSet(Shelf)
  PROVE  Spec => FreshGoneOnlyWithoutRoom
<1> DEFINE P == RescanEnd => \/ GoneButFresh = {}
                             \/ MaxKnown + Cardinality(GoneButFresh)
                                  <= Cardinality(rescan.fresh)
<1>1. Init => RescanBooks
  BY FS_EmptySet, CoordinatorAssumption DEF Init, NoRescan, RescanBooks
<1>2. TypeOK /\ RescanBooks /\ [Next]_vars => RescanBooks'
  BY RescanBooksStep
<1>3. TypeOK /\ RescanBooks => [P]_vars
  <2> SUFFICES ASSUME TypeOK, RescanBooks, RescanEnd, GoneButFresh # {}
               PROVE  MaxKnown + Cardinality(GoneButFresh) <= Cardinality(rescan.fresh)
    OBVIOUS
  <2> DEFINE Fresh == rescan.fresh
             Found == rescan.found
             NoRoom == Fresh \ Found
  <2>1. \A a \in GoneButFresh : a \in NoRoom
    <3>1. \A a, b : Leave(b) = Leave(a) => b = a
      BY DEF Leave
    <3> QED
      BY <3>1 DEF RescanEnd, GoneButFresh
  <2>2. ~(Fresh \subseteq rescan.left \cup Found)
    BY <2>1 DEF RescanEnd
  <2>3. Cardinality(Found) = MaxKnown /\ Found \subseteq Fresh
    BY <2>2 DEF RescanBooks
  <2>4. IsFiniteSet(Fresh) /\ IsFiniteSet(Found)
    BY <2>3, FS_Subset DEF TypeOK
  <2>5. Cardinality(NoRoom) = Cardinality(Fresh) - Cardinality(Fresh \cap Found)
    BY <2>4, FS_Difference
  <2>6. Fresh \cap Found = Found
    BY <2>3
  <2>7. IsFiniteSet(NoRoom) /\ GoneButFresh \subseteq NoRoom
    BY <2>1, <2>4, FS_Difference
  <2>8. Cardinality(GoneButFresh) <= Cardinality(NoRoom) /\ IsFiniteSet(GoneButFresh)
    BY <2>7, FS_Subset
  <2>9. /\ Cardinality(Fresh) \in Nat /\ Cardinality(NoRoom) \in Nat
        /\ Cardinality(GoneButFresh) \in Nat /\ MaxKnown \in Nat
    BY <2>4, <2>7, <2>8, FS_CardinalityType, CoordinatorAssumption
  <2> HIDE DEF Fresh, NoRoom, Found
  <2>10. Cardinality(NoRoom) = Cardinality(Fresh) - MaxKnown
    BY <2>3, <2>5, <2>6
  <2>11. MaxKnown + Cardinality(GoneButFresh) <= Cardinality(Fresh)
    BY <2>8, <2>9, <2>10
  <2> QED
    BY <2>11 DEF Fresh
<1> QED
  BY <1>1, <1>2, <1>3, Typing, PTL DEF Spec, FreshGoneOnlyWithoutRoom

=============================================================================
