----------------------------- MODULE MCDialog -------------------------------
(* An established call with two session descriptions.                      *)
EXTENDS Dialog
=============================================================================
