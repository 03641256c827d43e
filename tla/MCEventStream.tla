--------------------------- MODULE MCEventStream ---------------------------
(* A small instance of EventStream for TLC: the thread that reads the      *)
(* serial port and a handler of commands.                                  *)
EXTENDS EventStream

ReaderAndHandler == {"reader", "handler"}
=============================================================================
