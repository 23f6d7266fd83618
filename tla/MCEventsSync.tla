---------------------------- MODULE MCEventsSync ----------------------------
(* TLC instances of EventsSync. *)
EXTENDS EventsSync, TLC

CONSTANTS f1, f2
=============================================================================
