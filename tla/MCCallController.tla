-------------------------- MODULE MCCallController --------------------------
(* CallController with a few routes, some of which have no record. *)
EXTENDS CallController
=============================================================================
