---------------------------- MODULE SwitchDriver ----------------------------
(***************************************************************************)
(* The BOOT button and its driver                                          *)
(* (src/components/switch_driver/src/switch_driver.c).                     *)
(*                                                                         *)
(* The button pulls its pin low and the pin has a level interrupt.  The    *)
(* interrupt handler disables the interrupt and hands the event to the     *)
(* task button_detected; the task calls the owner's callback, waits 200 ms *)
(* and enables the interrupt again.  The callback belongs to the module    *)
(* that composes this one (ShelfNode), which adds its own effects to       *)
(* Receive and CallbackReturned.                                           *)
(***************************************************************************)
EXTENDS Naturals

CONSTANTS
  QueueLength,     \* places in gpio_event_queue, 10 in the code; at least 1
  InitFaults       \* may memory, tasks or GPIO resources run out?

VARIABLES
  down,            \* is the button pressed?
  attached,        \* is gpio_isr_handler on the pin?
  intr,            \* is the interrupt of the pin enabled?
  queue,           \* events in gpio_event_queue
  task,            \* what the task button_detected does; "none": not created
  served           \* history: has this press raised an interrupt already?

vars == <<down, attached, intr, queue, task, served>>

Init ==
  /\ down = FALSE
  /\ attached = FALSE
  /\ intr = FALSE
  /\ queue = 0
  /\ task = "none"
  /\ served = FALSE

(* switch_driver_init.  Nobody looks at the result of xTaskCreate.         *)
Attach ==
  /\ ~attached
  /\ attached' = TRUE
  /\ intr' = TRUE
  /\ task' \in {"receive"} \cup (IF InitFaults THEN {"none"} ELSE {})
  /\ UNCHANGED <<down, queue, served>>

(* It returns NULL, before or after it has created the task.               *)
AttachFailed ==
  /\ InitFaults
  /\ ~attached
  /\ task' \in {"none", "receive"}
  /\ UNCHANGED <<down, attached, intr, queue, served>>

(* The interrupt left enabled, for a mutation test.                        *)
IsrKeepsInterrupt ==
  /\ attached /\ intr /\ down
  /\ queue' = IF queue < QueueLength THEN queue + 1 ELSE queue
  /\ served' = TRUE
  /\ UNCHANGED <<down, attached, intr, task>>

(* gpio_isr_handler.  An event that finds the queue full is lost.          *)
GpioIsr ==
  /\ attached /\ intr /\ down
  /\ intr' = FALSE
  /\ queue' = IF queue < QueueLength THEN queue + 1 ELSE queue
  /\ served' = TRUE
  /\ UNCHANGED <<down, attached, task>>

(* switch_driver_button_detected: xQueueReceive, the call of event_cb ...  *)
Receive ==
  /\ task = "receive"
  /\ queue > 0
  /\ queue' = queue - 1
  /\ task' = "callback"
  /\ UNCHANGED <<down, attached, intr, served>>

(* ... its return, and the delay that follows ...                          *)
CallbackReturned ==
  /\ task = "callback"
  /\ task' = "delay"
  /\ UNCHANGED <<down, attached, intr, queue, served>>

(* The interrupt left disabled, for a mutation test.                       *)
DelayKeepsDisabled ==
  /\ task = "delay"
  /\ task' = "receive"
  /\ UNCHANGED <<down, attached, intr, queue, served>>

(* ... and the interrupt enabled again, whether or not the button is up.   *)
DelayOver ==
  /\ task = "delay"
  /\ task' = "receive"
  /\ intr' = TRUE
  /\ UNCHANGED <<down, attached, queue, served>>

(* The finger.                                                             *)
Press ==
  /\ ~down
  /\ down' = TRUE
  /\ served' = FALSE
  /\ UNCHANGED <<attached, intr, queue, task>>

Release ==
  /\ down
  /\ down' = FALSE
  /\ UNCHANGED <<attached, intr, queue, task, served>>

(* The board restarts; a finger stays where it is.                         *)
PowerOff ==
  /\ attached' = FALSE
  /\ intr' = FALSE
  /\ queue' = 0
  /\ task' = "none"
  /\ UNCHANGED <<down, served>>

Next ==
  \/ Attach \/ AttachFailed
  \/ GpioIsr \/ Receive \/ CallbackReturned \/ DelayOver
  \/ Press \/ Release
  \/ PowerOff

Spec == Init /\ [][Next]_vars

-----------------------------------------------------------------------------
TypeOK ==
  /\ down \in BOOLEAN
  /\ attached \in BOOLEAN
  /\ intr \in BOOLEAN
  /\ queue \in 0 .. QueueLength
  /\ task \in {"none", "receive", "callback", "delay"}
  /\ served \in BOOLEAN

(* Who has the right to the next event of the button: the enabled          *)
(* interrupt, the queue, or the task between receiving and enabling.       *)
Holders ==
  (IF intr THEN 1 ELSE 0) + queue
    + (IF task \in {"callback", "delay"} THEN 1 ELSE 0)

(* Of a button that is attached there is exactly one holder.  With two,    *)
(* the queue could fill up and an event be lost with the interrupt         *)
(* disabled; with none, the button would be dead until the next restart.   *)
HandOver == Holders = IF attached THEN 1 ELSE 0

(* Pressing the button once raises one interrupt, as "press BOOT on a      *)
(* shelf; coordinator prints NODE_RECV:0xXXXX:STATE:1" has it.             *)
PressHandledOnce == [][GpioIsr => ~served]_vars
=============================================================================
