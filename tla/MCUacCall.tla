----------------------------- MODULE MCUacCall ------------------------------
(* UacCall with all combinations of the leg's times. *)
EXTENDS UacCall
=============================================================================
