# Verification of the shelf Zigbee system

TLA+ models of the shelf system in `src/`, TLC runs that check them on small
instances, and TLAPS proofs of their most important properties for every value
of the constants.

## 1. The system

Shelves are Zigbee routers with a button and a light. One coordinator forms the
network and talks to a host over USB serial in lines of text; the host runs a
web application that shows and switches the shelves.

    browser <- events/HTTP -> app.py <- lines over USB -> coordinator.c <- Zigbee -> shelf_node.c
                                                                                      | button, LED

### Inventory

| Component | Source | State it keeps | Operations |
|---|---|---|---|
| Coordinator: commissioning | `firmware/coordinator/main/coordinator.c` 338-343, 585-655 | procedure running in the stack, network joined or not, retry alarms | start signals, formation, steering, retry |
| Coordinator: registry and provisioning | same, 174-336 | known shelves (32 places), open requests, group membership of shelves | announce, leave, match descriptor result, bind result, add to group |
| Coordinator: rescan | same, 446-495 | rescans left, the rescan alarm | walk of the neighbour table, join and leave lines |
| Coordinator: liveness scan | same, 345-444, 497-516 | scan active, addresses asked, flags of answers, the deadline alarm | NODE_SCAN, read attribute response, end of the scan |
| Alarm timer | `components/alarm_timer` | alarms that were started | schedule, fire (cannot be cancelled) |
| Coordinator: UART task | `coordinator.c` 118-158 | the line buffer | assemble, parse and dispatch lines |
| Line protocol | `components/shelf_zigbee/shelf_zigbee.c`, `gateway/protocol.py` | none | parse and format, twice, in C and in Python |
| Shelf node | `firmware/shelf_node/main/shelf_node.c` | shelf state, On/Off attribute, commissioning | command, button callback, report, start and steering with retry |
| Button driver | `components/switch_driver` | interrupt enabled or not, event queue, task | initialization, interrupt, event, delay |
| Status LED | `components/status_led` | initialized or not, pixel | initialization, set |
| Web bridge | `gateway/web_app/app.py` 83-313 | serial port, table of nodes, scan in progress, addresses seen, listeners | reader, scan and reconnect threads, API calls |
| Web API, event stream, page | `app.py` 186-212, 308-397, `static/index.html` | listeners with their queues, the page's stream, what it shows | publish, subscribe, commands, scan, render |
| Port discovery | `app.py` 25-72 | none | opens ports and reads boot text |
| Console gateway | `gateway/serial_gateway.py` | none | sends a line, prints answers |
| Scripts | `scripts/` | none | build, flash, bench checklist |

### How they interact

* **Calls under a lock.** The Zigbee main loop runs the firmware's handlers while
  it holds the recursive Zigbee lock. UART, timer and button tasks take the same
  lock around their sections. What a task does outside the lock interleaves with
  everything.
* **Callbacks.** Match descriptor and bind requests are answered, if at all, by a
  callback much later. Alarms call back from the esp_timer task.
* **Messages.** Pings, commands, reports and group requests go over the air: they
  are lost, late and out of order. Lines between coordinator and host are ordered
  but the port comes and goes.
* **Shared state.** `s_rescan_remaining` (timer and Zigbee task), `s_shelf_state`,
  LED and attribute (button and Zigbee task), the serial port and the node table
  (four threads of the bridge).

### What is hard, and what makes each part correct

* *Commissioning*: a retry that comes late must not start a procedure on top of a
  network that is up; failures must be retried until it is.
* *Registry and provisioning*: steps of one shelf's provisioning fail one by one;
  what was put in the group must be watched; the array is full at some point.
* *Rescan*: it starts itself again outside the lock; there must be one chain, and
  it must end; it must not contradict itself when found[] or the registry is full.
* *Liveness scan*: shelves register and answer while it runs; its deadline can not
  be cancelled; it must give one verdict per shelf asked, from this scan's answers.
* *Shelf*: two tasks write state, LED and attribute without a common lock; in the
  end all three must agree, and what is reported must be current.
* *Button driver*: the interrupt is disabled and enabled by two parties; the event
  must neither be lost nor doubled, and the button must come back.
* *Web bridge*: threads check the port and use it later, scans overlap, a command's
  optimistic update races with the report; the table must follow the shelves. A
  write that breaks off must not become another command, and the port must come back.
* *Event stream*: a change may be published before, during or after a page
  subscribes; none may be missed, and the page must end up with the newest.

`PROJECT.json` lists every hazard at its line with the properties that cover it.

## 2. Modules

| Module | Models | Lines of the code |
|---|---|---|
| `Coordinator` | commissioning, registry, provisioning, rescan and liveness scan of the coordinator, with the alarm timer, the radio and the shelves as its environment | `coordinator.c`, `alarm_timer.c` |
| `ScanService` | abstract: what a NODE_SCAN promises | refined by `Coordinator` |
| `ShelfNode` | the shelf firmware; composes the next two (instances `Drv` and `Led`) | `shelf_node.c` |
| `SwitchDriver` | the button, its interrupt handler, queue and task | `switch_driver.c` |
| `StatusLed` | the LED and the blocking refresh | `status_led.c` |
| `GatewayProtocol` | the line protocol, as both ends write and read it; pure | `shelf_zigbee.c`, `protocol.py` |
| `UartGateway` | the coordinator's UART task and its buffer | `coordinator.c` 93-158 |
| `SerialLink` | the port of the bridge and its threads; composes `UartGateway` (instance `Uart`) | `app.py` 125-184, 213-227, 258-274 |
| `NodeTable` | the bridge's table and the threads at work on it | `app.py` 84-123, 229-249, 276-306 |
| `ShelfSystem` | the whole: composes `NodeTable` (`Table`), `ScanService` (`Svc`) and the protocol (`P`) with cable, coordinator, radio and shelves | all |
| `QuietScan` | `ShelfSystem` with a history variable that follows one undisturbed run of the scan loop | `app.py` 105-123, 251-256 |
| `EventStream` | how a change reaches the page | `app.py` 186-212, 308-377, `index.html` |
| `CoordinatorProofs`, `ShelfNodeProofs`, `GatewayProtocolProofs`, `SerialLinkProofs`, `NodeTableProofs`, `ShelfSystemProofs`, `QuietScanProofs`, `EventStreamProofs` | theorems | |
| `MCCoordinator`, `MCShelfNode`, `MCSerialLink`, `MCShelfSystem`, `MCQuietScan`, `MCEventStream` | instances for TLC | |

`ScanService` is used twice: `Coordinator` implements it, and `ShelfSystem` builds
on it instead of on the coordinator's detail. In the same way the shelf of
`ShelfSystem` is what `ShelfNode` establishes (the answer and the report carry the
state), and its cable what `SerialLink` establishes (lines arrive whole, in order,
or not at all).

### Coordinator

State: the static variables of `coordinator.c` under their names
(`known` is `s_known_shelves`, `scanActive`, `scanAddrs` and `scanResponded` are
`s_liveness_scan_*`, `rescanRemaining`), what the stack keeps for the firmware
(`bdb`, `joined`, `factoryNew`, `matchReq`, `bindReq`), the started `alarms` by
callback, the messages in `air`, the shelves' `group`, and `out`, the lines the
last step printed.

Each signal or ZCL handler keeps the Zigbee lock from beginning to end and is one
action of the same name: `StartSucceeded`/`StartFailed`,
`FormationSucceeded`/`FormationFailed`, `SteeringEnded`, `DeviceAnnce`,
`LeaveIndication`, `FindShelfDeviceResult`/`Failed`, `BindShelfDeviceResult`,
`ReadAttrRsp`, `ReportAttr`. A rescan takes time on the air and is split:
`RescanAlarm` or `ScanWithoutShelves` take the lock (`lock`), `RescanVisit`
handles one neighbour, `RescanEnd` compares registry and found[] and releases,
and `RescanTail` is what the alarm does after the release. `StartLivenessScan` and
`FinalizeLivenessScan` begin and end a scan.

There is no clock. An alarm fires at any moment after it was started, so an
answer can be late or early for every deadline. A message in `air` may stay there
for ever: loss, delay and reordering. Failures are switched on by constants
(`AlarmFaults`, `StartFaults`, `RadioFaults`, `ShelfResets`, `MaxRestarts`).

The code discards the result of `ezb_bdb_start_top_level_commissioning` and of
`alarm_timer_schedule`. So each start of a procedure (`StartCommissioning`) and of a
retry (`ScheduleRetry`) may be refused; no signal comes then, and nothing is tried
again until the board restarts. The history variable `refused` remembers it, so that
the properties can say that this is the only way commissioning ends.

### ShelfNode, SwitchDriver, StatusLed

`state` is `s_shelf_state`, `attr` the attribute in the stack, `zb` and `arg` the
place and the value of the handler the Zigbee task is in, `button` the place of
the button task in its callback. The lock is free exactly when `zb = "idle"`.

The chip has one core and the button task the higher priority: the button task
runs from one blocking call to the next in one action (`Toggle`,
`ToggleRefreshed`, `PublishToggle`, `ReportState`). The Zigbee task can be
preempted anywhere, so each of its accesses to shared state is an action:
`SetAttrValue` (the stack sets the attribute and calls the handler), `ApplyState`
(line 57), `EvaluateState` (the argument in line 58), `SetPixel`,
`PixelRefreshed`, `PublishState` (line 62). The initialization of the drivers is
split in the same way, because the button is live before the LED is.

`SwitchDriver` is a specification of its own: who holds the right to the next
event. The shelf's actions conjoin the driver's (`Toggle` includes `Drv!Receive`,
`ReportState` includes `Drv!CallbackReturned`), and every step of the shelf is a
step or a stutter of the driver (`ShelfStepsDriver`).

A shelf that was in a network when it restarted is back in it as soon as the start
has succeeded (`joined' = ~factoryNew` in `StartSucceeded`), and the code starts
steering on top of that, with its retry. A start or retry that is refused is
treated as in the coordinator.

Three history variables are not in the code: `clash` (the last two changes of the
LED overlapped), `served` (this press raised an interrupt) and `refused`.

### GatewayProtocol, UartGateway, SerialLink

A line is a sequence of tokens: words of the protocol, numerals, and *stumps*, the
first bytes of a token whose rest was lost. `Bytes` keeps the lengths, so the
buffer's limit (`Cut`) falls where it falls in the code. `ParseLine` and
`ParseEvent` are the two parsers: `sscanf` ignores what follows the state; the regular
expressions find a line anywhere in the text. `Address` is what becomes of a number
that `sscanf` reads with `%x`: its conversion to 32 bits and the cut to 16. C leaves
the conversion of a larger number undefined; the model takes the value of newlib, the
library of the build, which is the largest one.

In `SerialLink`, `ser` is `_ser` (none, open, closed, or open to a device that is
gone), `connected` is `serial_connected`, `lock` the owner of `_lock`. `pc` says what
each thread does next; every access to the port is an action, named after what it
does, for any thread: the test for none and the test for closed (`Ensure`, `IsOpen`),
the two tests and the call of a close (`Close`, `Closing`, `Forget`; `Fail`,
`FailClosing`, `FailForget`), `Open` and `Mark`. Another thread can set `_ser`
to None between a test and its use: the AttributeError (`Raise`) ends the reader,
the reconnect thread or the scan loop, and a request of the API with an error. `ReaderUse`, `ReaderReturns`; `SleepOver`, `Check`, `Discover`; and `Acquire`,
`Write`, `WriteFails` and two more are the three loops. `Discover` may find nothing
although the coordinator is there. A write that fails either breaks off anywhere in
the line (`WriteBreaksOff`) or raises after the whole line has arrived
(`WriteFailsLate`); the command is carried out then and sent again. `stale` says that
the port the reader is blocked in is no longer the one in `_ser`. The cable is pulled
by `Unplug` and comes back with `Plug`. Two variables are history: `owner`, the number
of the command with which the coordinator's buffer began, and `done`, the number of
the last command carried out; so two commands that look the same are told apart.

### NodeTable and ShelfSystem

`nodes`, `inProgress` and `seen` are `_nodes`, `_scan_in_progress` and
`_scan_seen_addrs`; `at` is the place of each thread that scans (`Begin`, `Ask`,
`Finalize`, then `Visit` and `MarkOffline` for each entry, `SweepOver`). The test of
an address and its mark are two actions; a line of the coordinator (`ApplyEvent`)
and the update after a command (`NodeStateSet`, `GroupStateSet`) are one each, though
no lock is held: the module's header says why their parts in another order leave the
same table. The exception, the reader's new entry on top of a command's, is the
action `EntryReplaced` of `ShelfSystem`. The order in which the table is visited is
left open. `TableGrew` is the RuntimeError of an iteration over a table that has grown.
`heardBy` is history: whose join line was handled since the last scan of any thread
began.

`ShelfSystem` adds the port (`connected`, and `reading`: the reader thread lives), the
cable (`toCoordinator`, `toHost`), whether the network is `up`, the registry with its
`MaxKnown` places, rescans and the scan service, messages in the `air` and the shelves
(`alive`, `light`). A handler of a command is split where it can be interrupted:
`SendCommand` sends the line, `UpdateTable` changes the table. A command that comes
before the network is up is ignored (`IgnoreCommand`). A shelf that is announced or
found by a rescan is registered while there is `Room` and asked (`match`); its answer
(`matched`) lets the coordinator print a second NODE_JOIN. A rescan reports all
neighbours but lists at most `MaxKnown`, and reports the ones it knows and did not list
as gone. `Near` is the set of shelves that the coordinator has in its neighbour table;
the others are reached over other shelves. A leave indication from the network is
only in `Coordinator`. `Disconnect` pulls the cable: what travels on it is lost, the
coordinator may restart, and the reader may die of finding 4. `Reconnect` stands for
`PortRecovers`. `Incidents` and `MaxIncidents` bound presses, commands, scans of the
page and faults.

`QuietScan` adds `calm`: the thread whose scan began when nothing was under way
(`AtRest`: no request, no line on the cable, no message in the air, no scan) and at
least one shelf was registered. It stays set through every step that a scan consists of
(`GoOn`) and is cleared by every button, page, power supply, loss or failure
(`Disturb`). `WatchedNext` is `Next` with this variable; it forbids nothing. So
`QuietScanTellsTruth` can say what one scan achieves, and not only what holds in the end.

### EventStream

A change, its snapshot and the hand-over to the event loop are three actions of a
publisher; the event loop puts the snapshot into the queue (`RunCall`), and
`api_events` subscribes (`Subscribe`) before it sends its first snapshot
(`FirstEvent`). A handler of commands runs in the event loop and keeps it from
everything else (`LoopFree`). A snapshot is the number of changes it shows. The history
variable `afterRest` says that nothing was under way when the last change was made. A
change whose publication is prevented by an exception (`TableGrew`) is not covered.

## 3. Runs

| Run | Shows | Bounds |
|---|---|---|
| `coordinator_refinement` | no failures, deadlock checked: a running scan has its deadline and it is its own (`ScanDeadline`); the scan's addresses stay a prefix of the growing registry (`ScanIsSnapshot`); one chain of rescans, alive until it is used up (`SingleRescanChain`); a scan gives one verdict per shelf asked (`VerdictForEachAsked`); the scan service is implemented | 2 shelves, registry of 2, 1 repetition |
| `coordinator_faults` | alarms, starts, requests and shelves fail: types, `OneCommissioner`; commissioning goes on before the network is up unless something was refused (`CommissioningGoesOn`); shelves in the group are watched unless the registry was full; a rescan reports a fresh neighbour as gone only for want of room (`FreshGoneOnlyWithoutRoom`) | 2 shelves, registry and found[] of 1 (both overflow), 1 restart |
| `coordinator_liveness` | a registered shelf is in the group or on its way there (`RegisteredIsProvisioned`); the network comes up unless a start was refused, rescans end, every scan concludes (fair refinement of the scan service), a shelf reported as joined ends up in the group | 1 shelf, alarms start, procedures may be refused, no request is lost, 1 restart |
| `coordinator_lost_request` | finding 1 | 1 shelf, requests may fail |
| `shelf_safety` | attribute and report agree with the state under every interleaving, and so does the LED at rest, unless its last two changes overlapped (finding 3); the button's event has one holder; one commissioner; the button comes back; unless something was refused, a shelf on its way into the network stays on it (`JoiningGoesOn`) and arrives | queue of 2, 1 restart of a new or a commissioned shelf, removal, failing drivers, reports, alarms and starts |
| `shelf_held_button` | finding 2 | |
| `shelf_led_overlap` | finding 3 | |
| `serial_commands` | only commands that were handed over are carried out, and none again after a later one, though a write may fail after its line has arrived; `_lock` belongs to the one thread inside `send_line`, on every way out (`LockMeansSending`), and is released; the port recovers | 2 senders, 2 commands (an address of more than 16 bits; a scan), buffer of 30 bytes, 1 fault |
| `serial_reader` | finding 4 | same |
| `system_view` | in the end the table shows a live shelf as online in its state and a dead one as offline; a sweep spares whoever was heard since the last scan of any thread began; one scan that begins at rest and is not disturbed leaves the table exactly true, whatever was wrong in it before (`QuietScanTellsTruth`) | 1 shelf, registry of 1, scan loop and a page that scans, 1 rescan; two of press, command, scan of the page and fault, in any combination; 1 line each way on the cable |
| `system_overlap` | finding 5 | 1 shelf, scan loop and one scan from the page, no fault |
| `stream_order` | finding 6 | 2 publishers, 2 changes, 1 broken stream, no answer of `/api/scan` |

**Why the bounds are enough.** Shelves interact only through the registry, its
capacity and the scan's array. Two shelves give a first and a last place, a shelf
that is in a scan and one that registers during it; a registry of one gives the
overflow, one of two the array filled exactly. One repetition gives a first and a
last rescan. A second restart finds what the first one found: flash, the group and
messages in the air. The queue of the button never holds more than one event
(`ButtonHandOver`, proved for every length), so two places show a full queue to a
driver that would break this. The safety properties are proved without
any bound (section 5).

The serial run has one sender that an unexpected exception ends and one that it does
not; the reader and the reconnect thread are always there. With a buffer of 30 bytes
one line of 24 fits, but not with the rest of a broken one before it, so the buffer
is cut everywhere that matters; the real one has 128. One fault is one failing write
or one missing cable; the safety properties are proved for any number. In the system
run shelves do not influence each other's entries except through the length of a
sweep, the exception of a growing table, which one shelf causes as well (the table
begins empty), and the registry's places. One shelf never wants for those: that a
shelf without a place is excepted (`NoPlaceFor`) only matters for more, and the
safety properties are proved for any number of shelves and places. A fault is a lost
message, a refused report, a failed request, a power failure or a pulled cable, at any
moment; what comes after the last fault is what the properties are about. With one
line each way on the cable a second one has to wait. Lines keep their order, so this
hides nothing but two lines lost at one blow; the proofs have no such bound.

**Deadlock.** `coordinator_faults` and `coordinator_liveness` do not check it: when the
stack refuses a procedure or the alarm of a retry cannot be started (the results are
ignored), the coordinator really stops with nothing to do. In the shelf's runs the
finger can always move. In `serial_commands`
the reader may be dead, every command sent and the reconnect thread content; in
`system_view` the scan loop may be dead and all bounds used up; in `stream_order`
everything has arrived.

**Mutants.** Each property of a passing run is paired in `PROJECT.json` with a
plausible bug (a dropped guard, a missing memset, a swapped order, a lock not
taken), defined next to the operator it replaces; TLC finds the property
violated with it.

## 4. Fairness

* *Timer task*: an alarm that was started fires, although other tasks take the lock
  in between (strong fairness). FreeRTOS gives a lock to the waiting task with the
  highest priority, and that is the timer task. In the shelf the button task has a
  higher priority than the Zigbee task, hence strong fairness of its two sections
  under the lock.
* *A task inside a function goes on* (weak fairness): the rescan loop, its tail, the
  steps of a handler, the refresh, the 200 ms delay.
* *The stack* answers every commissioning procedure that it has started, and not with a
  failure for ever (strong fairness of the success). Without this a network or a shelf with a dead
  radio could fail for ever and nothing could be promised.
* *Threads of the bridge* go on (weak fairness). Nothing is assumed of the cable.
  `ReaderSettled` stands for the only clock: the reconnect thread sleeps for 5 s, in
  which the reader, after at most 0.7 s, has opened a port that is there. Without it
  the two could close each other's ports for ever.
* *The system*: threads and coordinator go on, the messages to and from each shelf that
  are not lost arrive (`Deliver`), a pulled cable comes back (`Reconnect`; all weak
  fairness), and the scan loop scans again and again. The properties except an ended
  scan loop, and `LiveShelfIsShown` an ended reader and a shelf that finds no place in
  the registry. `Punctual` stands for two
  times: a ping and its answer take less than the 2.5 s after which a scan
  concludes, and its verdicts reach the table within the 1.5 s that the bridge waits
  longer. With it answers are late only across a restart of the coordinator; the
  coordinator alone is checked and proved without it. Of the theorems only
  `QuietScanRepairsTable` assumes it. `Fairness` of
  `ShelfSystem` is conjoined to the watched system in `FairWatchedSpec`.
* *Shelves* (provisioning only): one that is asked again and again answers. Nothing
  is assumed of hosts, fingers and commands.

## 5. Proofs

The theorems hold for every set of shelves, threads and commands, every capacity,
length of a queue or buffer, number of rescans, restarts and faults, and for every
setting of the failures, under the assumptions named in the modules (types of the
constants; capacities are not zero; threads have different names).

| Theorem | Argument |
|---|---|
| `Typing` (of five modules) | inductive as it stands; the shelf's needs `HandOver` for the range of the queue |
| `DeadlineOfScan` | inductive: only three actions touch the scan or its alarm |
| `CommissioningIsSingle` (both) | inductive; the shelf's is strengthened by `InitializationIsQuiet`: nothing is under way while the drivers are initialized. A shelf that is back in its network steers once more after a reboot, so there the theorem says that at most one procedure or retry is under way, joined or not, and that the stack is never initialized under a joined shelf |
| `CommissioningContinues`, `JoiningContinues` | of the coordinator and of the shelf: every failure leads to a retry alarm, and every alarm to a procedure, unless one of them is refused. The coordinator's is an equivalence: before the network is up a procedure or retry is under way exactly if none was refused. It needs `OneCommissioner`, without which a retry could be counted twice; the coordinator steers only after it has formed its network |
| `RescanChainIsSingle` | needs `OneCommissioner`: the chain is started by signals that come once, because no second procedure can be running |
| `ScanSnapshots` | the registry only grows and a scan copies it |
| `GroupWatched` | strengthened by `WatchedOrFull`, which also covers shelves on their way to the group |
| `RegisteredShelves` | by the way of a shelf from request to group, if no request fails and no shelf is reset (otherwise finding 1). A restart empties the registry; a leave line from a rescan does not |
| `ScanServiceImplemented` | step by step: the refinement maps registry indices to sets, which needs `ScanIsSnapshot` (an address has one index) |
| `ScanVerdicts` | from `ScanIsSnapshot` and the refinement mapping |
| `RescanKeepsFreshNeighbors` | for any finite number of shelves: a fresh neighbour is reported as gone only if there are more of them than found[] has places, and no more of them than that. Strengthened by the books of the loop (`RescanBooks`): found[] is full or holds every visited neighbour |
| `EventHasOneHolder` | inductive for the driver alone; every step of the shelf is one of the driver |
| `AttributeIsState`, `ReportsAreCurrent` | `AttributeFollowsState` is inductive; a report is sent under the lock, by a task past its own write |
| `LedIsTruthful` | strengthened by `LedBooks` (the state reaches the pixel and the pixel the LED) and `DarkUntilStart` (nothing can switch the shelf before its drivers are attached), which needs the button's invariant and the single commissioner |
| `CommandsArrive`, `EventsArrive` | case by case over the kinds of lines; the arithmetic is what the conversion to 32 bits and the cut to 16 do to an address: nothing to one of 16 bits |
| `OneSender`, `Faithful` | `OneSender` states `LockMeansSending`. The inductive invariant `IInv` is `TypeOK`, `Exclusion` (whoever is in `send_line` holds the lock and sends the command handed over last) and `Buffer` (what is in the coordinator's buffer began with a command that was handed over). The lemmas follow the buffer: appended to, cut or parsed, it still agrees with that beginning, so a line that is accepted is that command |
| `InOrder` | the same invariant: the command whose text is in the buffer (`owner`) is not older than the last one carried out. A repeated command whose line had arrived is carried out twice, but before any later one. Nothing is assumed of the commands: they may be equal |
| `NodeTable!SweepsSpareHeard` | for any number of scanning threads. Strengthened by `HeardIsSeen`: whom a thread heard since the last scan of any thread began is in the set by which it sweeps, only one thread sweeps at a time, and the set does not grow or shrink meanwhile. A scan that begins while another one waits takes away what was heard before: this is finding 5, and not promised |
| `ScanServiceKept` | step by step: the coordinator inside `ShelfSystem` is a `ScanService`, so with `ScanServiceImplemented` the system assumes nothing of the firmware's scan that the firmware does not do |
| `QuietScanRepairsTable` | under `Punctual`. The invariant `CalmInv` follows the undisturbed scan through five phases, each with what has been lost, delivered or still travels: `Asking` (the flag is set, the set empty), `Sent` (the command is on the cable), `Running` (every shelf asked is pinged, answers, or has its answer in flight; the state of each one heard is on the cable or in the table), `Reported` (the verdicts are on the cable, the last line ends the request; whoever is alive is in the set or its join line is still to come, nobody else is in the set), `Settled` (cable and air are empty and the entries that the sweep has still to visit are the only ones that can be wrong). In each phase a line that arrives changes an entry to the shelf's present state (`TrueEvent`), because nothing older is left in the cable. Holds for any number of shelves and any state of the table |
| `TableImplemented`, `SweepsSpareHeard` | step by step: the bridge's actions are steps of `NodeTable`, everything else leaves the table alone; so the theorem about the table is one about the system |
| `MissesNothing` | inductive invariant: while the page is subscribed and has not shown the newest change, some publisher still has to take or hand over its snapshot, or it is in a call, in the queue or on the wire |
| `ShowsQuietChange` | a change made when nothing was under way is what the page shows at rest, for any number of threads, answers and broken streams. Strengthened by `Newest`: until the next change nothing but snapshots of this one is on its way, so that whatever arrives is the newest. The page is behind only after changes that overlap, the one way in which `PageIsCurrent` fails (finding 6) |

What the proofs needed beyond the checked properties (`IInv`, `CalmInv`, `Newest`,
`RescanBooks`, ...) is defined in the proof modules.

Only model-checked: all liveness properties and the fair refinement
(`NetworkComesUp`, `RescansEnd`, `AnnouncedShelfIsGrouped`,
`ImplementsFairScanService`, `ButtonComesBack`, `ShelfJoins`, `LockIsReleased`,
`PortRecovers`, `LiveShelfIsShown`, `DeadShelfIsOffline`), since fairness is
outside the prover's reach. `MissesNothing` and `ShowsQuietChange` state properties
that no listed run passes; `EventStream` satisfies them in TLC for two publishers,
three changes, one break and one answer to a scan.

Open: that `ShelfNode` implements the shelf of `ShelfSystem` is shown by its
properties (`AttributeIsState`, `ReportsAreCurrent`) and not yet by a refinement.

## 6. Findings

1. **A lost request leaves a shelf out of its group.** The checklist
   (`scripts/bench_checklist.sh:21`) expects every joined shelf to be bound and
   added to the group. `coordinator_register_shelf` marks the shelf as known before
   it sends the match descriptor request (`coordinator.c:206`); if that request is
   refused or times out, every later announcement returns early and provisioning is
   not tried again until the coordinator restarts.
2. **A held button toggles repeatedly.** The checklist
   (`scripts/bench_checklist.sh:24`) expects one report of state 1 for a press. The
   pin has a level interrupt that is enabled again after 200 ms whether or not the
   button is up (`switch_driver.c:39-42`, `64`).
3. **Two tasks refresh the LED at the same time.** `status_led_set` asserts that the
   refresh succeeds (`status_led.c:42`) and is called by button and Zigbee task
   without a lock. LED driver and channel are one; an error there restarts the board.

4. **The reader thread can die of its assertion.** `app.py:263` asserts that `_ser` is
   not None; another thread can close the port after `_ensure_serial` (`app.py:262`),
   since the reader does not take `_lock`. The exception is not caught: events are not
   read any more until the bridge is started again. The same race makes `_ser.is_open`
   and `_ser.close()` (`app.py:143-144`, `170`) raise an AttributeError, which can end
   the reconnect thread as well. `PortRecovers` holds except then.
5. **Overlapping scans mark a shelf that answered.** The page calls every shelf that is
   not online "Offline — not on network" (`static/index.html:160`). A scan that begins
   while another one waits empties the set both use (`app.py:107`), and the first one
   to end marks whoever was heard before (`app.py:119-122`). In TLC's trace a scan of
   the page waits, the shelf has been reported (the registry was empty, so the scan was
   answered by a rescan), the scan loop begins and empties the set, and the sweep of the
   page's scan marks the shelf.
6. **The page can go back to an older state.** The page promises that presses "update
   here automatically" (`static/index.html:107`). `_publish` takes a snapshot and hands it
   over later, without a lock (`app.py:311-313`): the hand-overs of two threads can
   come in the opposite order, and the older snapshot stays on the page until the next
   change. Nothing is ever missed, though (`MissesNothing`), and only changes that
   overlap leave the page behind (`ShowsQuietChange`). An answer to `/api/scan` can also
   come after a newer event; that is in the model and not in this run.

## 7. Not modelled

Abstracted in what is modelled: the text of lines and logs, radio frames, timer
values, memory management of the alarm records, `last_seen`. A handler of the stack
that the firmware does not use is not modelled. External code (the Zigbee stack, the
LED strip driver, FreeRTOS, asyncio, the USB driver, the board) is modelled from how
the code uses it and marked so in the map. `switch_driver_deinit` has no caller.

* *Half lines from the coordinator*: a reader that reconnects in the middle of a line
  keeps the first half in its buffer (`app.py:259`).
* *Addresses that are no numerals*: the API passes on any text that begins with 0x
  (`app.py:230`); the protocol's model knows numerals only.
* *Keys of the table*: an address in capitals or with more than four digits, as only a
  hand-written request has it, makes an entry of its own (`app.py:230`).
* *`set_group_state`* iterates without a lock (`app.py:245`); the model does it in one
  step.
* *Shelves behind another router* (not in `Near`) are unknown to a coordinator that
  restarted until they restart too (`coordinator.c:433-436`), and a shelf that comes
  back with the same address after a factory reset is not provisioned again
  (`coordinator.c:203`). A coordinator or shelf of which the stack refused a procedure
  waits for its next power cycle. A shelf beyond the 32 places of the registry is never
  asked by a scan, so it is shown as its last messages and the sweeps left it. All of
  this is in the models; no document promises otherwise, so no
  property is stated.
* *Port discovery* is modelled by its effect; which of several ports is a coordinator's,
  the console gateway, the memory configuration of the stacks, start and stop of the web
  server and the scripts are input and output or constants.
