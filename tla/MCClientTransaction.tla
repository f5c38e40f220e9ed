----------------------- MODULE MCClientTransaction ------------------------
(* ClientTransaction on a small set of responses. *)
EXTENDS ClientTransaction, TLC
=============================================================================
