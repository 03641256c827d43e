----------------------------- MODULE SerialLink -----------------------------
(***************************************************************************)
(* The serial port of the web bridge (class SerialBridge in                *)
(* src/gateway/web_app/app.py) with its threads, and the UART task of the  *)
(* coordinator at the other end of the cable (instance Uart).  Bytes       *)
(* arrive in the order in which they were written and only this task reads *)
(* them, so they are read in the action that writes them; what is on its   *)
(* way when the cable is pulled is lost as in a write that breaks off.     *)
(*                                                                         *)
(* The reader thread, the reconnect thread and the threads that send       *)
(* commands all open and close the port.  Only send_line takes _lock, so   *)
(* two senders exclude each other and nobody else.  A thread can lose the  *)
(* processor at every access to the port, so each of them is an action;    *)
(* only the status and the test at the start of _close_serial are one, and *)
(* is_open with close.  A thread that finds None where its own test had    *)
(* found a port raises an exception that nobody handles.  Threads are      *)
(* numbered by name, "reader" and "reconnect" among them; pc says what a   *)
(* thread does next:                                                       *)
(*                                                                         *)
(*   ensure, isOpen     _ensure_serial tests _ser, then _ser.is_open       *)
(*   close, closing, forget, open, mark     _open_serial, _close_serial in *)
(*                      its beginning                                      *)
(*   use                assert _ser is not None, then read or write        *)
(*   reading            the reader waits for bytes                         *)
(*   fail, failClosing, failForget   _close_serial in an exception handler *)
(*   sleep, check, discover         _reconnect_loop                        *)
(***************************************************************************)
EXTENDS Naturals, Sequences, FiniteSets

CONSTANTS
  Sender,          \* threads that call send_line
  Scanner,         \* those of them that an unexpected exception ends
  Request,         \* the commands they will send, in the order in which
                   \* send_line gets the lock (bound: each of them once)
  MaxFaults,       \* bound: missing cables and failed writes
  LineMax          \* of the coordinator's buffer

Thread == Sender \cup {"reader", "reconnect"}

VARIABLES
  plugged,         \* is the coordinator on the bus (does the path exist)?
  ser,             \* _ser: None, open, open to a device that is gone, closed
  connected,       \* serial_connected
  lock,            \* owner of _lock
  pc,              \* what each thread does next
  stale,           \* is the reader's port no longer the one in _ser?
  tries,           \* attempts the owner of _lock has made
  sent,            \* number of commands handed to send_line
  job,             \* number of the command each sender is sending, or 0
  owner,           \* history: number of the command with which the
                   \* contents of the coordinator's buffer began, or 0
  done,            \* history: such number of the last command carried out
  faults,          \* faults so far (bounded by MaxFaults)
  line, ready, executed                          \* of the UART task

Uart == INSTANCE UartGateway

ASSUME SerialLinkAssumption ==
  /\ Request \in Seq(Uart!HostCommand)
  /\ Sender \cap {"reader", "reconnect", "free"} = {}
  /\ MaxFaults \in Nat
  /\ LineMax \in Nat \ {0}

portVars == <<plugged, ser, connected, stale>>
sendVars == <<lock, tries, sent, job>>
uartVars == <<line, ready, owner>>
vars == <<portVars, pc, sendVars, done, faults, uartVars, executed>>

(* start calls _try_connect before it starts the threads.  A coordinator   *)
(* that is missing then is one of the faults.                              *)
Init ==
  /\ plugged \in BOOLEAN
  /\ faults \in IF plugged THEN {0} ELSE {1} \cap 0 .. MaxFaults
  /\ ser = IF plugged THEN "open" ELSE "none"
  /\ connected = plugged
  /\ stale = FALSE
  /\ pc = [t \in Thread |-> CASE t = "reader"    -> "ensure"
                              [] t = "reconnect" -> "check"
                              [] OTHER           -> "idle"]
  /\ lock = "free"
  /\ tries = 0
  /\ sent = 0
  /\ job = [t \in Sender |-> 0]
  /\ owner = 0
  /\ done = 0
  /\ Uart!Init

-----------------------------------------------------------------------------
Goto(t, place) == pc' = [pc EXCEPT ![t] = place]

(* Frames: a step of a thread on the port, and one that leaves it alone.   *)
OnlyPort ==
  /\ executed' = Uart!NoCommand
  /\ UNCHANGED <<plugged, sendVars, done, faults, uartVars>>

OnlyThread ==
  /\ executed' = Uart!NoCommand
  /\ UNCHANGED <<portVars, done, faults, uartVars>>

(* The port in _ser is closed or replaced: the reader may still be in it.  *)
Abandons == stale' = (stale \/ pc["reader"] = "reading")

CloseThePort == ser' = "closed" /\ Abandons

(* Where a thread goes on when _try_connect has failed or succeeded.       *)
AfterFailure(t) == IF t = "reconnect" THEN "sleep" ELSE "fail"
AfterSuccess(t) == IF t = "reconnect" THEN "sleep" ELSE "use"

(* send_line ends: the lock is released.                                   *)
Finish(t, place) ==
  /\ Goto(t, place)
  /\ lock' = "free"
  /\ job' = [job EXCEPT ![t] = 0]
  /\ tries' = 0
  /\ UNCHANGED sent

(* An exception that nobody handles ends the thread; the thread of a       *)
(* request of the API answers an error and is free for another.            *)
Raise(t) ==
  IF t \in Sender THEN Finish(t, IF t \in Scanner THEN "dead" ELSE "idle")
                  ELSE Goto(t, "dead") /\ UNCHANGED sendVars

(* The coordinator restarts: its buffer is empty.                          *)
Restart == Uart!Reset /\ owner' = 0

(* A sender that does not count its attempts, for a mutation test.         *)
RetryForEver(t) == Goto(t, "ensure") /\ UNCHANGED sendVars

(* A sender that tries four times, for a mutation test.                    *)
RetryThreeTimes(t) ==
  IF t = "reader"
    THEN Goto(t, "ensure") /\ UNCHANGED sendVars
    ELSE IF tries <= 2
      THEN Goto(t, "ensure") /\ tries' = tries + 1 /\ UNCHANGED <<lock, sent, job>>
      ELSE Finish(t, "idle")

(* After the exception handler: the reader tries again for ever, a sender  *)
(* three times.                                                            *)
Retry(t) ==
  IF t = "reader"
    THEN Goto(t, "ensure") /\ UNCHANGED sendVars
    ELSE IF tries < 2
      THEN Goto(t, "ensure") /\ tries' = tries + 1 /\ UNCHANGED <<lock, sent, job>>
      ELSE Finish(t, "idle")

-----------------------------------------------------------------------------
(* _ensure_serial                                                          *)
Ensure(t) ==
  /\ pc[t] = "ensure"
  /\ Goto(t, IF ser = "none" THEN "close" ELSE "isOpen")
  /\ OnlyPort
  /\ UNCHANGED <<ser, connected, stale>>

IsOpen(t) ==
  /\ pc[t] = "isOpen"
  /\ \/ ser = "none" /\ Raise(t)
     \/ ser \in {"open", "gone"} /\ Goto(t, "use") /\ UNCHANGED sendVars
     \/ ser = "closed" /\ Goto(t, "close") /\ UNCHANGED sendVars
  /\ OnlyThread

(* _close_serial at the beginning of _open_serial.                         *)
Close(t) ==
  /\ pc[t] = "close"
  /\ connected' = FALSE
  /\ Goto(t, IF ser = "none" THEN "open" ELSE "closing")
  /\ OnlyPort
  /\ UNCHANGED <<ser, stale>>

Closing(t) ==
  /\ pc[t] = "closing"
  /\ IF ser = "none"
       THEN Raise(t) /\ OnlyThread
       ELSE Goto(t, "forget") /\ CloseThePort /\ OnlyPort /\ UNCHANGED connected

Forget(t) ==
  /\ pc[t] = "forget"
  /\ Goto(t, "open")
  /\ ser' = "none"
  /\ Abandons
  /\ OnlyPort
  /\ UNCHANGED connected

(* The path does not exist, or the port is opened.                         *)
Open(t) ==
  /\ pc[t] = "open"
  /\ IF plugged
       THEN Goto(t, "mark") /\ ser' = "open" /\ Abandons
       ELSE Goto(t, AfterFailure(t)) /\ UNCHANGED <<ser, stale>>
  /\ OnlyPort
  /\ UNCHANGED connected

(* The status is not set, for a mutation test.                             *)
MarkNothing(t) ==
  /\ pc[t] = "mark"
  /\ Goto(t, AfterSuccess(t))
  /\ OnlyPort
  /\ UNCHANGED <<ser, connected, stale>>

Mark(t) ==
  /\ pc[t] = "mark"
  /\ Goto(t, AfterSuccess(t))
  /\ connected' = TRUE
  /\ OnlyPort
  /\ UNCHANGED <<ser, stale>>

(* _close_serial in the exception handler of the reader and of send_line.  *)
Fail(t) ==
  /\ pc[t] = "fail"
  /\ connected' = FALSE
  /\ executed' = Uart!NoCommand
  /\ IF ser = "none" THEN Retry(t)
                     ELSE Goto(t, "failClosing") /\ UNCHANGED sendVars
  /\ UNCHANGED <<plugged, ser, stale, done, faults, uartVars>>

FailClosing(t) ==
  /\ pc[t] = "failClosing"
  /\ IF ser = "none"
       THEN Raise(t) /\ OnlyThread
       ELSE Goto(t, "failForget") /\ CloseThePort /\ OnlyPort /\ UNCHANGED connected

FailForget(t) ==
  /\ pc[t] = "failForget"
  /\ ser' = "none"
  /\ Abandons
  /\ executed' = Uart!NoCommand
  /\ Retry(t)
  /\ UNCHANGED <<plugged, connected, done, faults, uartVars>>

-----------------------------------------------------------------------------
(* _reader_loop: an assertion that fails, or None that has no read, ends   *)
(* the thread; a port that is closed or gone is an exception it handles.   *)
ReaderUse ==
  /\ pc["reader"] = "use"
  /\ Goto("reader", CASE ser = "none" -> "dead"
                      [] ser = "open" -> "reading"
                      [] OTHER        -> "fail")
  /\ stale' = FALSE
  /\ OnlyPort
  /\ UNCHANGED <<ser, connected>>

(* The read returns, with bytes or after its timeout.  When the port was   *)
(* closed meanwhile, it may also raise an exception, a handled or another. *)
ReaderReturns ==
  /\ pc["reader"] = "reading"
  /\ \/ ser = "open" /\ ~stale /\ Goto("reader", "ensure")
     \/ ser = "gone" /\ ~stale /\ Goto("reader", "fail")
     \/ stale /\ \E place \in {"ensure", "fail", "dead"} : Goto("reader", place)
  /\ stale' = FALSE
  /\ OnlyPort
  /\ UNCHANGED <<ser, connected>>

(* _reconnect_loop.  Its five seconds of sleep are longer than the half    *)
(* second after which the reader opens a port that is there.               *)
ReaderSettled ==
  \/ ~plugged
  \/ pc["reader"] = "dead"
  \/ pc["reader"] \in {"ensure", "isOpen", "use", "reading"} /\ ser = "open" /\ ~stale

SleepOver ==
  /\ pc["reconnect"] = "sleep"
  /\ ReaderSettled
  /\ Goto("reconnect", "check")
  /\ OnlyPort
  /\ UNCHANGED <<ser, connected, stale>>

Check ==
  /\ pc["reconnect"] = "check"
  /\ ~connected
  /\ Goto("reconnect", "discover")
  /\ OnlyPort
  /\ UNCHANGED <<ser, connected, stale>>

(* discover_coordinator_port: a coordinator that does not show its boot    *)
(* text at once is reset by the control lines of the port.  It is found    *)
(* when the text comes in time and another thread does not read it away.   *)
Discover ==
  /\ pc["reconnect"] = "discover"
  /\ \/ plugged /\ Goto("reconnect", "close")
     \/ Goto("reconnect", "sleep")
  /\ \/ plugged /\ Restart
     \/ UNCHANGED uartVars /\ executed' = Uart!NoCommand
  /\ UNCHANGED <<portVars, sendVars, done, faults>>

-----------------------------------------------------------------------------
(* send_line                                                               *)

(* Without the lock, for a mutation test.                                  *)
AcquireAnyway(t) ==
  /\ t \in Sender
  /\ pc[t] = "idle"
  /\ sent < Len(Request)
  /\ sent' = sent + 1
  /\ job' = [job EXCEPT ![t] = sent + 1]
  /\ lock' = t
  /\ tries' = 0
  /\ Goto(t, "ensure")
  /\ OnlyThread

Acquire(t) ==
  /\ t \in Sender
  /\ pc[t] = "idle"
  /\ lock = "free"
  /\ sent < Len(Request)
  /\ sent' = sent + 1
  /\ job' = [job EXCEPT ![t] = sent + 1]
  /\ lock' = t
  /\ tries' = 0
  /\ Goto(t, "ensure")
  /\ OnlyThread

Text(t) == Uart!FormatCommand(Request[job[t]])

(* What may have arrived of a write that breaks off: whole tokens, perhaps *)
(* half of the next one, but not the end of the line.                      *)
Beginnings(text) ==
  {SubSeq(text, 1, n) : n \in 0 .. Len(text)}
    \cup {Append(SubSeq(text, 1, n), Uart!Stump(Uart!Bytes(text[n + 1]) \div 2))
            : n \in {m \in 0 .. Len(text) - 1 : Uart!Bytes(text[m + 1]) > 1}}

(* Whose the contents of the buffer are when t has written.                *)
Owner(t) == IF line = <<>> THEN job[t] ELSE owner

AtOpenPort(t) == t \in Sender /\ pc[t] = "use" /\ ser = "open"

(* The whole line arrives.                                                 *)
Deliver(t) ==
  /\ Uart!ReadLine(Text(t))
  /\ done' = IF executed' = Uart!NoCommand THEN done ELSE Owner(t)
  /\ owner' = 0
  /\ UNCHANGED portVars

Write(t) ==
  /\ AtOpenPort(t)
  /\ Finish(t, "idle")
  /\ Deliver(t)
  /\ UNCHANGED faults

(* The line arrives, but write or flush raises an exception after that, so *)
(* that the command is sent again.                                         *)
WriteFailsLate(t) ==
  /\ AtOpenPort(t)
  /\ faults < MaxFaults
  /\ faults' = faults + 1
  /\ Goto(t, "fail") /\ UNCHANGED sendVars
  /\ Deliver(t)

(* Either the write fails, or the bytes are lost after it.                 *)
WriteBreaksOff(t) ==
  /\ AtOpenPort(t)
  /\ faults < MaxFaults
  /\ faults' = faults + 1
  /\ \/ Goto(t, "fail") /\ UNCHANGED sendVars
     \/ Finish(t, "idle")
  /\ \E begun \in Beginnings(Text(t)) : Uart!ReadBytes(begun)
  /\ owner' = IF line' = <<>> THEN 0 ELSE Owner(t)
  /\ UNCHANGED <<portVars, done>>

(* The lock not released by the exception, for a mutation test.            *)
WriteFailsLocked(t) ==
  /\ t \in Sender
  /\ pc[t] = "use"
  /\ ser # "open"
  /\ Goto(t, IF ser # "none" THEN "fail" ELSE IF t \in Scanner THEN "dead" ELSE "idle")
  /\ UNCHANGED sendVars
  /\ OnlyThread

(* The port was closed or taken away between the test and the write.  Only *)
(* None is not handled.                                                    *)
WriteFails(t) ==
  /\ t \in Sender
  /\ pc[t] = "use"
  /\ ser # "open"
  /\ IF ser = "none" THEN Raise(t)
                     ELSE Goto(t, "fail") /\ UNCHANGED sendVars
  /\ OnlyThread

-----------------------------------------------------------------------------
(* The other end.                                                          *)
CoordinatorUp ==
  /\ Uart!NetworkUp
  /\ UNCHANGED <<portVars, pc, sendVars, owner, done, faults>>

(* The coordinator loses its power with the cable, or only the connection  *)
(* breaks.                                                                 *)
Unplug ==
  /\ plugged
  /\ faults < MaxFaults
  /\ faults' = faults + 1
  /\ plugged' = FALSE
  /\ ser' = IF ser = "open" THEN "gone" ELSE ser
  /\ \/ Restart
     \/ UNCHANGED uartVars /\ executed' = Uart!NoCommand
  /\ UNCHANGED <<connected, stale, pc, sendVars, done>>

Plug ==
  /\ ~plugged
  /\ plugged' = TRUE
  /\ executed' = Uart!NoCommand
  /\ UNCHANGED <<ser, connected, stale, pc, sendVars, done, faults, uartVars>>

-----------------------------------------------------------------------------
PortStep(t) ==
  \/ Ensure(t) \/ IsOpen(t)
  \/ Close(t) \/ Closing(t) \/ Forget(t) \/ Open(t) \/ Mark(t)
  \/ Fail(t) \/ FailClosing(t) \/ FailForget(t)

SenderStep(t) ==
  \/ PortStep(t)
  \/ Write(t) \/ WriteFails(t)

Reader    == PortStep("reader") \/ ReaderUse \/ ReaderReturns
Reconnect == PortStep("reconnect") \/ SleepOver \/ Check \/ Discover

Next ==
  \/ Reader
  \/ Reconnect
  \/ \E t \in Sender : \/ Acquire(t) \/ SenderStep(t)
                       \/ WriteFailsLate(t) \/ WriteBreaksOff(t)
  \/ CoordinatorUp
  \/ Unplug
  \/ Plug

Spec == Init /\ [][Next]_vars

(* Threads that can go on do so.  Nothing is assumed of the cable, and     *)
(* nobody needs to send.                                                   *)
FairSpec ==
  /\ Spec
  /\ WF_vars(Reader)
  /\ WF_vars(Reconnect)
  /\ \A t \in Sender : WF_vars(SenderStep(t))

-----------------------------------------------------------------------------
(* Properties.                                                             *)

Place == {"idle", "sleep", "check", "discover", "ensure", "isOpen", "close", "closing",
          "forget", "open", "mark", "use", "reading", "fail", "failClosing",
          "failForget", "dead"}

(* Type invariant of the bridge's port, its threads and the UART task.     *)
TypeOK ==
  /\ plugged \in BOOLEAN
  /\ ser \in {"none", "open", "gone", "closed"}
  /\ connected \in BOOLEAN
  /\ lock \in Sender \cup {"free"}
  /\ pc \in [Thread -> Place]
  /\ stale \in BOOLEAN
  /\ tries \in 0 .. 2
  /\ sent \in 0 .. Len(Request)
  /\ job \in [Sender -> 0 .. sent]
  /\ owner \in 0 .. sent
  /\ done \in 0 .. sent
  /\ faults \in 0 .. MaxFaults
  /\ Uart!TypeOK

(* What the coordinator carries out is the command with which the contents *)
(* of its buffer began, the address cut to 16 bits: the rests of writes    *)
(* that broke off, in a buffer that nobody empties, never combine with the *)
(* next line into a command to another shelf or with another state.        *)
OnlySentCommands ==
  executed # Uart!NoCommand => done > 0 /\ executed = Uart!Received(Request[done])

(* A command that was repeated after a failed write, or that lay in the    *)
(* buffer, is not carried out again after a later one: that would switch   *)
(* the shelf back.                                                         *)
CommandsInOrder == [][done' >= done]_vars

(* _lock belongs to the one thread that is inside send_line, from its      *)
(* first test of the port to the end of its last attempt: on none of the   *)
(* ways out, by success, by the third failure or by an exception nobody    *)
(* handles, does it stay behind, and no other sender gets in between.      *)
LockMeansSending ==
  \A t \in Sender : lock = t <=> pc[t] \notin {"idle", "dead"}

(* send_line comes to an end, whatever happens to the cable, so that the   *)
(* threads that wait for _lock go on.                                      *)
LockIsReleased == []<>(lock = "free")

(* "will auto-reconnect": once the coordinator stays on the bus, the port  *)
(* is open for good, and the status shown says so.                         *)
PortRecovers ==
  <>[]plugged => <>[](pc["reader"] = "dead" \/ (ser = "open" /\ connected))

(* "assert self._ser is not None" in the reader, after _ensure_serial.     *)
ReaderAssertion == pc["reader"] = "use" => ser # "none"
=============================================================================
