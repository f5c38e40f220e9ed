---------------------------- MODULE CommandQueue ----------------------------
(***************************************************************************)
(* What a sequencer of commands promises: the commands it has taken are    *)
(* carried out one at a time, in the order in which it was given them, and *)
(* none is lost.                                                           *)
(***************************************************************************)
EXTENDS Naturals, Sequences, SequencesExt

VARIABLES todo,      \* commands taken and not carried out yet, oldest first
          working    \* the commands that somebody carries out now

vars == <<todo, working>>

First(s) == SubSeq(s, 1, IF s = <<>> THEN 0 ELSE 1)

Init == todo = <<>> /\ working = <<>>

\* Commands come at the end; the oldest one may be done.
Step ==
    /\ \/ IsPrefix(todo, todo')
       \/ todo # <<>> /\ IsPrefix(Tail(todo), todo')
    /\ working' = First(todo')

Spec == Init /\ [][Step]_vars
=============================================================================
