------------------------------ MODULE UasCall -------------------------------
(***************************************************************************)
(* An incoming call leg: a UA in the UAS states, from the INVITE that      *)
(* creates it to its death, with the transaction manager below it, the     *)
(* call controller above it and the RTP proxy beside it.                   *)
(*                                                                         *)
(* Of the transaction manager this module uses what ServerTransaction      *)
(* shows: a CANCEL or the expiry of the INVITE answers it by 487 and calls *)
(* the UA back while it has no final response, and the final response is   *)
(* acknowledged or, 32 s later, reported as not acknowledged.  re-INVITEs  *)
(* and keep alives of the connected state are not part of it.              *)
(***************************************************************************)
EXTENDS UaEvents

CONSTANTS
    MaxTime,       \* bound on no_progress_time and expire_time
    MaxSeq         \* events after which no INFO comes any more

ASSUME UasAssumption == MaxTime \in Nat \ {0} /\ MaxSeq \in Nat

VARIABLES
    st,         \* ua.state; "None" before the INVITE
    times,      \* ua.no_progress_time, expire_time, credit_time
    timers,     \* the timers of the UA that the dispatcher holds
    tx,         \* the INVITE's transaction: "open", "final" once answered, "over"
    ackWait,    \* the final response was sent with ack_wait
    delayed,    \* events that wait for the RTP proxy
    held,       \* events of the call controller that wait for the RTP proxy
    equeue,     \* ua.equeue
    seq,        \* number of the last event created by this UA
    cc,         \* what the call controller was given
    hup         \* somebody has asked for the end of the call

evq  == <<equeue, seq, cc>>
vars == <<st, times, timers, tx, ackWait, delayed, held, evq, hup>>

Which      == {"no_progress", "expire", "credit"}
SetupTimer == {"no_progress", "expire"}
Setup      == {"Trying", "Ringing"}

TypeOK ==
    /\ st \in {"None", "Idle", "Trying", "Ringing", "Connected", "Disconnected",
               "Failed", "Dead"}
    /\ times \in [Which -> 0 .. MaxTime]
    /\ timers \in SUBSET (Which \cup {"goDead"})
    /\ tx \in {"none", "open", "final", "over"} /\ ackWait \in BOOLEAN
    /\ \A e \in delayed : e.kind \in {"Try", "Connect"} /\ e.seq \in 1 .. seq
    /\ held \in SUBSET {"Ring", "Connect", "PreConnect"}
    /\ \A i \in DOMAIN equeue : equeue[i].kind \in Kinds /\ equeue[i].seq \in 1 .. seq
    /\ seq \in Nat /\ cc.last \in 0 .. seq
    /\ cc.kinds \in SUBSET Kinds /\ cc.late \in SUBSET Kinds
    /\ hup \in BOOLEAN

Init ==
    /\ st = "None"
    /\ times \in [Which -> 0 .. MaxTime] /\ times["credit"] <= 1
    /\ timers = {} /\ tx = "none" /\ ackWait = FALSE
    /\ delayed = {} /\ held = {}
    /\ equeue = <<>> /\ seq = 0 /\ cc = Nothing /\ hup = FALSE

-----------------------------------------------------------------------------
(* Events on their way to the call controller.                             *)

\* The events ks are created, queued, and handed over unless the UA is dead.
Created(ks) == [i \in DOMAIN ks |-> Event(ks[i], seq + i)]

Queue(ks) ==
    /\ seq' = seq + Len(ks)
    /\ equeue' = equeue \o Created(ks)
    /\ cc' = cc

QueueAndEmit(ks) ==
    IF st = "Dead" THEN Queue(ks)
    ELSE /\ seq' = seq + Len(ks)
         /\ equeue' = <<>>
         /\ cc' = GivenAll(cc, equeue \o Created(ks))

\* An event is created and waits for the RTP proxy.
Delay(k) ==
    /\ seq' = seq + 1
    /\ delayed' = delayed \cup {Event(k, seq + 1)}
    /\ UNCHANGED <<equeue, cc>>

\* emitEvent(): past the queue.
Emit(k) ==
    /\ seq' = seq + 1
    /\ cc' = Given(cc, Event(k, seq + 1))
    /\ UNCHANGED equeue

-----------------------------------------------------------------------------
(* The INVITE: UA.recvRequest and UasStateIdle.                            *)

\* A no_progress_time that could not run out first is dropped.
Effective ==
    IF times["expire"] # 0 /\ times["no_progress"] >= times["expire"]
    THEN [times EXCEPT !["no_progress"] = 0] ELSE times

FirstTimer(t) ==
    IF t["no_progress"] # 0 THEN {"no_progress"}
    ELSE IF t["expire"] # 0 THEN {"expire"} ELSE {}

\* 100 is sent, the timers start, the call controller gets a CCEventTry.  A body
\* that cannot be handled raises: the transaction manager answers the INVITE and
\* the UA stays in its idle state.
InviteArrives(body) ==
    /\ st = "None"
    /\ times' = Effective
    /\ timers' = FirstTimer(Effective)
    /\ \/ /\ body = "now"
          /\ st' = "Trying" /\ tx' = "open"
          /\ QueueAndEmit(<<"Try">>)
          /\ UNCHANGED delayed
       \/ /\ body = "later"
          /\ st' = "Trying" /\ tx' = "open"
          /\ Delay("Try")
       \/ /\ body = "error"
          /\ st' = "Idle" /\ tx' = "final"
          /\ UNCHANGED <<delayed, evq>>
    /\ UNCHANGED <<ackWait, held, hup>>

-----------------------------------------------------------------------------
(* Events of the call controller: UasStateTrying, Ringing, Progressing.    *)

NotRearmed(a) == a

ThenExpire(a) == IF times["expire"] # 0 THEN a \cup {"expire"} ELSE a

WithCredit(a) == IF times["credit"] # 0 THEN a \cup {"credit"} ELSE a

\* A provisional response.
Rings ==
    /\ st \in Setup
    /\ st' = "Ringing"
    /\ timers' = IF "no_progress" \in timers THEN ThenExpire(timers \ {"no_progress"})
                 ELSE timers
    /\ UNCHANGED <<tx, ackWait>>

\* 200; the setup is over.
Connects ==
    /\ st \in Setup
    /\ st' = "Connected" /\ tx' = "final" /\ ackWait' = FALSE
    /\ timers' = WithCredit(timers \ SetupTimer)

\* 200; the setup is over when the ACK brings the body (the expire timer stays).
PreConnects ==
    /\ st \in Setup
    /\ st' = "Connected" /\ tx' = "final" /\ ackWait' = TRUE
    /\ timers' = timers \ {"no_progress"}

\* What an event does that need not wait (any more); nothing after the setup.
Handled(k) ==
    IF st \in Setup
    THEN CASE k = "Ring" -> Rings [] k = "Connect" -> Connects [] k = "PreConnect" -> PreConnects
    ELSE UNCHANGED <<st, timers, tx, ackWait>>

\* Ring, Connect and PreConnect: their body may have to see the RTP proxy first
\* (one of each kind at a time).
recvEvent(k) ==
    /\ st \in Setup
    /\ \/ Handled(k) /\ UNCHANGED held
       \/ k \notin held /\ held' = held \cup {k} /\ UNCHANGED <<st, timers, tx, ackWait>>
    /\ UNCHANGED <<times, delayed, evq, hup>>

NoTimer == {}

\* The timer the states Disconnected and Failed start (godead_timeout).
LastTimer == {"goDead"}

\* Fail and Redirect: their response, or BYE.  Disconnect: 500, or BYE.
Ended(ts, last) ==
    \/ /\ st \in Setup
       /\ st' = last
       /\ timers' = (ts \ SetupTimer) \cup LastTimer
    \/ /\ st = "Connected"
       /\ st' = "Disconnected"
       /\ timers' = (ts \ {"credit", "expire"}) \cup LastTimer
    \/ /\ st \notin Setup \cup {"Connected"}
       /\ timers' = ts
       /\ UNCHANGED st

\* The INVITE that is still to be answered is answered by that.
Closed == IF st \in Setup THEN "final" ELSE tx

\* The call controller ends the call.
recvEnd(last) ==
    /\ st \in Setup \cup {"Connected"}
    /\ Ended(timers, last)
    /\ tx' = Closed /\ hup' = TRUE
    /\ UNCHANGED <<times, ackWait, delayed, held, evq>>

\* disconnect(): the UA ends it itself, and tells the call controller so.
disconnect(ts) ==
    /\ Ended(ts, "Disconnected")
    /\ QueueAndEmit(<<"End">>)
    /\ hup' = TRUE

\* The RTP proxy has refused a body: a CCEventFail for the call controller and
\* for the UA.
Refused ==
    /\ Ended(timers, "Failed")
    /\ tx' = Closed /\ hup' = TRUE
    /\ QueueAndEmit(<<"End">>)

\* delayed_local_sdp_update(): the event is received again, or fails the call.
LocalSdpDone(k, ok) ==
    /\ k \in held /\ held' = held \ {k}
    /\ IF ok THEN Handled(k) /\ UNCHANGED <<evq, hup>>
       ELSE Refused /\ UNCHANGED ackWait
    /\ UNCHANGED <<times, delayed>>

\* delayed_remote_sdp_update().
RemoteSdpDone(e, ok) ==
    /\ e \in delayed /\ delayed' = delayed \ {e}
    /\ IF ok
       THEN /\ IF st = "Dead" THEN equeue' = Append(equeue, e) /\ cc' = cc
               ELSE equeue' = <<>> /\ cc' = GivenAll(cc, Append(equeue, e))
            /\ UNCHANGED <<st, timers, tx, seq, hup>>
       ELSE Refused
    /\ UNCHANGED <<times, ackWait, held>>

-----------------------------------------------------------------------------
(* The caller and the transaction manager.                                 *)

\* UasStateProgressing.cancel(); it stops no timer.
Moved == st' = "Disconnected" /\ timers' = timers \cup LastTimer

\* A CANCEL, or the expiry of the INVITE: 487 has been sent.
cancel ==
    /\ tx = "open" /\ st \in Setup
    /\ tx' = "final"
    /\ Moved
    /\ Emit("End")
    /\ hup' = TRUE
    /\ UNCHANGED <<times, ackWait, delayed, held>>

\* The ACK of the final response, whose body the RTP proxy may have to see.
AckArrives(body) ==
    /\ tx = "final" /\ tx' = "over"
    /\ IF ackWait /\ st = "Connected"
       THEN /\ timers' = WithCredit(timers \ {"expire", "credit"})
            /\ \/ body = "now" /\ QueueAndEmit(<<"Connect">>) /\ UNCHANGED delayed
               \/ body = "later" /\ Delay("Connect")
               \/ body = "error" /\ UNCHANGED <<delayed, evq>>
       ELSE UNCHANGED <<timers, delayed, evq>>
    /\ UNCHANGED <<st, times, ackWait, held, hup>>

\* No ACK came: noack_cb is disconnect(), if recvRequest() has returned it.
NoAck ==
    /\ tx = "final" /\ tx' = "over"
    /\ IF st = "Idle" THEN UNCHANGED <<st, timers, evq, hup>> ELSE disconnect(timers)
    /\ UNCHANGED <<times, ackWait, delayed, held>>

\* BYE in Ringing (487 for the INVITE) and in Connected.
ByeArrives ==
    /\ st \in {"Ringing", "Connected"}
    /\ st' = "Disconnected"
    /\ tx' = IF st = "Ringing" THEN "final" ELSE tx
    /\ timers' = (timers \ (IF st = "Ringing" THEN {"expire"} ELSE {"credit", "expire"}))
                 \cup LastTimer
    /\ QueueAndEmit(<<"End">>)
    /\ hup' = TRUE
    /\ UNCHANGED <<times, ackWait, delayed, held>>

InfoArrives ==
    /\ st = "Connected" /\ seq < MaxSeq
    /\ QueueAndEmit(<<"Info">>)
    /\ UNCHANGED <<st, times, timers, tx, ackWait, delayed, held, hup>>

-----------------------------------------------------------------------------
(* Timers.                                                                 *)

TimerExpires(x) ==
    /\ x \in timers \cap Which
    /\ disconnect(timers \ {x}) /\ tx' = Closed
    /\ UNCHANGED <<times, ackWait, delayed, held>>

goDead ==
    /\ "goDead" \in timers
    /\ st' = "Dead" /\ timers' = timers \ {"goDead"}
    /\ UNCHANGED <<times, tx, ackWait, delayed, held, evq, hup>>

Next ==
    \/ \E body \in {"now", "later", "error"} : InviteArrives(body) \/ AckArrives(body)
    \/ \E k \in {"Ring", "Connect", "PreConnect"} :
          recvEvent(k) \/ \E ok \in BOOLEAN : LocalSdpDone(k, ok)
    \/ \E last \in {"Failed", "Disconnected"} : recvEnd(last)
    \/ \E e \in delayed, ok \in BOOLEAN : RemoteSdpDone(e, ok)
    \/ cancel \/ NoAck \/ ByeArrives \/ InfoArrives
    \/ goDead \/ \E x \in Which : TimerExpires(x)

Spec == Init /\ [][Next]_vars

\* The dispatcher runs the timer of the last states.
Fairness == WF_vars(goDead)

FairSpec == Spec /\ Fairness

-----------------------------------------------------------------------------
(* Properties.                                                             *)

\* The UA's state and the transaction's agree: while the UA means to answer, the
\* INVITE has no final response yet, so that sendUasResponse() never meets "BUG:
\* attempt to send reply on already finished transaction!!!", whatever order the
\* CANCEL, the BYE, the timers, the RTP proxy and the other leg come in.
AnswerTaken == (st \in Setup) = (tx = "open")

\* At most one setup timer runs, one does if there is an expire time, and none
\* once the call is connected and acknowledged (UasStateIdle, UasStateTrying).
SetupTimed ==
    LET running == timers \cap SetupTimer IN
    /\ \A a, b \in running : a = b
    /\ st \in Setup /\ times["expire"] # 0 => running # {}
    /\ st = "Connected" /\ (~ackWait \/ tx = "over") => running = {}

\* A connected call that is billed has its credit timer, also if the caller's
\* body comes only with the ACK.
CreditEnforced ==
    st = "Connected" /\ times["credit"] # 0 /\ (~ackWait \/ tx = "over")
        => "credit" \in timers

\* The call controller does not start or connect a call it knows to have ended,
\* however late the RTP proxy returns the body of the INVITE or of the ACK.
NoCallAfterEnd == cc.late \cap {"Try", "Connect"} = {}

\* However the call ends, the leg dies.  (A leg whose INVITE was refused for its
\* body stays idle for ever.)
EndsDead == (hup /\ st # "Idle") ~> st = "Dead"

\* A leg that is being set up can be answered and is watched by a timer, and the
\* credit timer takes over when the call is connected.
LegGuarded == AnswerTaken /\ SetupTimed /\ CreditEnforced

\* The event queue hands over nothing that starts a call again, and every variable
\* keeps its type.
EndsLast == TypeOK /\ NoCallAfterEnd
=============================================================================
