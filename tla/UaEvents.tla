------------------------------ MODULE UaEvents ------------------------------
(***************************************************************************)
(* The event queue of a UA (UA.equeue, UA.elast_seq) as operators on its   *)
(* contents, shared by the two kinds of call leg.                          *)
(*                                                                         *)
(* Every CCEvent takes the next number of one counter when it is created.  *)
(* A leg hands its queue to the call controller in order, and leaves out   *)
(* what was created before something it has handed over already: an event  *)
(* that had to wait for the RTP proxy may come too late.  Ring stands for  *)
(* CCEventRing, Connect for CCEventConnect and CCEventPreConnect, End for  *)
(* CCEventFail, CCEventRedirect and CCEventDisconnect.                     *)
(***************************************************************************)
EXTENDS Naturals, Sequences, SequencesExt

Kinds == {"Try", "Ring", "Connect", "Info", "End"}

Event(k, n) == [kind |-> k, seq |-> n]

NoFilter(e, last) == TRUE

\* The test of emitEvent() and emitPendingEvents(); 0 is "nothing emitted".
InOrder(e, last) == e.seq > last

\* What the call controller knows: the number of the last event it was given,
\* the kinds of event, and the kinds it was given after an End.
Nothing == [last |-> 0, kinds |-> {}, late |-> {}]

\* One turn of the loop of emitPendingEvents().
Given(cc, e) ==
    IF InOrder(e, cc.last)
    THEN [last  |-> e.seq,
          kinds |-> cc.kinds \cup {e.kind},
          late  |-> cc.late \cup (IF "End" \in cc.kinds THEN {e.kind} ELSE {})]
    ELSE cc

\* The places in the queue q of what emitPendingEvents() hands over: nothing that
\* is older than an event before it.
Passed(cc, q) ==
    {i \in DOMAIN q : /\ InOrder(q[i], cc.last)
                      /\ \A j \in 1 .. i - 1 : InOrder(q[i], q[j].seq)}

\* The controller after emitPendingEvents() of the queue q, turn by turn as Given
\* says.
GivenAll(cc, q) ==
    LET given      == Passed(cc, q)
        Follows(i) == "End" \in cc.kinds \/ \E j \in given : j < i /\ q[j].kind = "End"
    IN  [last  |-> IF given = {} THEN cc.last ELSE q[Max(given)].seq,
         kinds |-> cc.kinds \cup {q[i].kind : i \in given},
         late  |-> cc.late \cup {q[i].kind : i \in {j \in given : Follows(j)}}]
=============================================================================
