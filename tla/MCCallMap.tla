----------------------------- MODULE MCCallMap ------------------------------
(* The call map and the event dispatcher with two calls and two timers of  *)
(* the calls.                                                              *)
EXTENDS CallMap
=============================================================================
