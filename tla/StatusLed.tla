----------------------------- MODULE StatusLed -----------------------------
(***************************************************************************)
(* The status LED of a shelf (src/components/status_led/status_led.c) on   *)
(* the led_strip driver.  The driver keeps one pixel in memory;            *)
(* led_strip_refresh sends it to the LED and blocks until it is sent.      *)
(* Transmissions go out one after the other, so that the one that ends     *)
(* last has sent the last pixel that was set.                              *)
(*                                                                         *)
(* The caller of status_led_set is a task of the shelf: between the pixel  *)
(* and the end of its refresh other tasks run.  A call that fails ends in  *)
(* abort(), which is the restart of the module that composes this one.     *)
(***************************************************************************)
CONSTANT Task      \* tasks that set the LED

VARIABLES
  ready,           \* s_initialized
  pixel,           \* the pixel in the memory of s_led_strip
  lit,             \* what the LED shows
  refreshing       \* tasks inside led_strip_refresh

vars == <<ready, pixel, lit, refreshing>>

Init ==
  /\ ready = FALSE
  /\ pixel = 0
  /\ lit \in {0, 1}
  /\ refreshing = {}

(* status_led_init up to its call of status_led_set(false).                *)
Prepare ==
  /\ ~ready
  /\ ready' = TRUE
  /\ UNCHANGED <<pixel, lit, refreshing>>

(* status_led_set(on) on an initialized LED, until it blocks ...           *)
Set(on, t) ==
  /\ ready
  /\ pixel' = on
  /\ refreshing' = refreshing \cup {t}
  /\ UNCHANGED <<ready, lit>>

(* ... and until it returns.                                               *)
Refreshed(t) ==
  /\ t \in refreshing
  /\ refreshing' = refreshing \ {t}
  /\ lit' = pixel
  /\ UNCHANGED <<ready, pixel>>

(* The LED keeps its colour when the board restarts.                       *)
PowerOff ==
  /\ ready' = FALSE
  /\ pixel' = 0
  /\ refreshing' = {}
  /\ UNCHANGED lit

TypeOK ==
  /\ ready \in BOOLEAN
  /\ pixel \in {0, 1}
  /\ lit \in {0, 1}
  /\ refreshing \in SUBSET Task
=============================================================================
