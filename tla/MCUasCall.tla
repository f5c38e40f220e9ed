----------------------------- MODULE MCUasCall ------------------------------
(* UasCall with all combinations of the leg's times. *)
EXTENDS UasCall
=============================================================================
