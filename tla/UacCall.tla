------------------------------ MODULE UacCall -------------------------------
(***************************************************************************)
(* An outgoing call leg: a UA in the UAC states, from the CCEventTry that  *)
(* starts it to its death, with the transaction manager below it, the call *)
(* controller above it and the RTP proxy beside it.                        *)
(*                                                                         *)
(* Of the transaction manager this module uses what ClientTransaction      *)
(* shows: any number of provisional responses and one final answer for     *)
(* each INVITE, a CANCEL that waits for the first provisional response,    *)
(* and an ACK that has gone, with its transaction, when the UA wants to    *)
(* send it itself.  re-INVITEs and keep alives of the connected state are  *)
(* not part of it.                                                         *)
(***************************************************************************)
EXTENDS UaEvents

CONSTANTS
    CanAuth,       \* does the UA have credentials to answer a challenge?
    LateMedia,     \* may the call be offered without an SDP body?
    NoReplyLimit,  \* stands for the 32 s a no_reply_time has to be below
    MaxSeq,        \* events after which no 1xx, INFO or CCEventConnect comes any more
    MaxInvites     \* bound on the INVITEs challenges lead to

ASSUME UacAssumption ==
    /\ CanAuth \in BOOLEAN /\ LateMedia \in BOOLEAN
    /\ NoReplyLimit \in Nat /\ MaxSeq \in Nat /\ MaxInvites \in Nat \ {0}

VARIABLES
    st,         \* ua.state; "None" before the first event
    times,      \* ua.no_reply_time, no_progress_time, expire_time, credit_time
    timers,     \* the timers of the UA that the dispatcher holds
    tr,         \* ua.tr: the INVITE in progress, as the transaction manager sees it
    tryHeld,    \* the CCEventTry waits for the RTP proxy
    delayed,    \* events that wait for the RTP proxy
    late_media, \* ua.late_media
    pending_tr, \* ua.pending_tr is set: the UA believes it owes the ACK
    equeue,     \* ua.equeue
    seq,        \* number of the last event created by this UA
    cc,         \* what the call controller was given
    dialog,     \* the callee's view: "none", "up" after its 2xx, "over" after a
                \* BYE; "unheard" after a 2xx the UA did not react to
    hup         \* somebody has asked for the end of the call

sdp  == <<tryHeld, delayed, late_media>>
evq  == <<equeue, seq, cc>>
vars == <<st, times, timers, tr, sdp, pending_tr, evq, dialog, hup>>

Which      == {"no_reply", "no_progress", "expire", "credit"}
SetupTimer == {"no_reply", "no_progress", "expire"}
States     == {"None", "Idle", "Trying", "Ringing", "Cancelling", "Connected",
               "Disconnected", "Failed", "Dead"}

TypeOK ==
    /\ st \in States
    /\ times \in [Which -> 0 .. NoReplyLimit]
    /\ timers \in SUBSET (Which \cup {"te", "goDead"})
    /\ tr \in [n : 0 .. MaxInvites, state : {"none", "calling", "proceeding", "done"},
               auth : {"none", "www", "proxy"}, cancel : {"no", "pending", "sent"}]
    /\ tryHeld \in BOOLEAN /\ late_media \in BOOLEAN /\ pending_tr \in BOOLEAN
    /\ \A e \in delayed : e.kind \in {"Ring", "Connect"} /\ e.seq \in 1 .. seq
    /\ \A i \in DOMAIN equeue : equeue[i].kind \in Kinds /\ equeue[i].seq \in 1 .. seq
    /\ seq \in Nat /\ cc.last \in 0 .. seq
    /\ cc.kinds \in SUBSET Kinds /\ cc.late \in SUBSET Kinds
    /\ dialog \in {"none", "up", "over", "unheard"} /\ hup \in BOOLEAN

\* A UA with any combination of times set; 0 stands for None.
Init ==
    /\ st = "None"
    /\ times \in [Which -> 0 .. NoReplyLimit] /\ times["credit"] <= 1
    /\ timers = {}
    /\ tr = [n |-> 0, state |-> "none", auth |-> "none", cancel |-> "no"]
    /\ tryHeld = FALSE /\ delayed = {} /\ late_media = FALSE /\ pending_tr = FALSE
    /\ equeue = <<>> /\ seq = 0 /\ cc = Nothing
    /\ dialog = "none" /\ hup = FALSE

-----------------------------------------------------------------------------
(* Events on their way to the call controller.                             *)

\* The events ks are created and put on the queue.
Created(ks) == [i \in DOMAIN ks |-> Event(ks[i], seq + i)]

Queue(ks) ==
    /\ seq' = seq + Len(ks)
    /\ equeue' = equeue \o Created(ks)
    /\ cc' = cc

\* ... and handed over, unless the UA is dead (event_cb is None).
QueueAndEmit(ks) ==
    IF st = "Dead" THEN Queue(ks)
    ELSE /\ seq' = seq + Len(ks)
         /\ equeue' = <<>>
         /\ cc' = GivenAll(cc, equeue \o Created(ks))

\* An event is created and waits for the RTP proxy; nothing is on the queue.
Delay(k) ==
    /\ seq' = seq + 1
    /\ delayed' = delayed \cup {Event(k, seq + 1)}
    /\ equeue' = <<>> /\ cc' = GivenAll(cc, equeue)

-----------------------------------------------------------------------------
(* The transaction manager as the UA sees it.                              *)

InProgress == tr.state \in {"calling", "proceeding"}

\* A provisional response; a CANCEL that has waited for one goes out.
Progressed == [tr EXCEPT !.state = "proceeding",
                         !.cancel = IF @ = "pending" THEN "sent" ELSE @]

\* cancelTransaction().
Cancelled(t) == [t EXCEPT !.cancel = IF t.state = "proceeding" THEN "sent" ELSE "pending"]

Done == [tr EXCEPT !.state = "done"]

NewInvite(auth) == [n |-> tr.n + 1, state |-> "calling", auth |-> auth, cancel |-> "no"]

-----------------------------------------------------------------------------
(* Starting the call: UacStateIdle.                                        *)

\* Times that could not run out first are dropped.
Effective ==
    LET ex == times["expire"]
        np == IF ex # 0 /\ times["no_progress"] >= ex THEN 0 ELSE times["no_progress"]
        nr == IF \/ times["no_reply"] >= NoReplyLimit
                 \/ ex # 0 /\ times["no_reply"] >= ex
                 \/ np # 0 /\ times["no_reply"] >= np
              THEN 0 ELSE times["no_reply"]
    IN  [times EXCEPT !["no_progress"] = np, !["no_reply"] = nr]

FirstTimer(t) ==
    IF t["no_reply"] # 0 THEN {"no_reply"}
    ELSE IF t["no_progress"] # 0 THEN {"no_progress"}
    ELSE IF t["expire"] # 0 THEN {"expire"} ELSE {}

\* The INVITE goes out.
StartsCall ==
    /\ st' = "Trying"
    /\ times' = Effective
    /\ timers' = timers \cup FirstTimer(Effective)
    /\ tr' = NewInvite("none")

\* CCEventTry, with a body the RTP proxy has to see first or without one.
recvTry ==
    /\ st = "None"
    /\ \/ StartsCall /\ late_media' \in {FALSE, LateMedia} /\ UNCHANGED tryHeld
       \/ st' = "Idle" /\ tryHeld' = TRUE /\ UNCHANGED <<times, timers, tr, late_media>>
    /\ UNCHANGED <<delayed, pending_tr, evq, dialog, hup>>

\* delayed_local_sdp_update(): the RTP proxy is done with the offer, or has
\* refused it.  A leg that was given up meanwhile is dead and stays so.
LocalSdpDone(ok) ==
    /\ tryHeld /\ tryHeld' = FALSE
    /\ IF st = "Dead" THEN UNCHANGED <<st, times, timers, tr, evq>>
       ELSE IF ok THEN StartsCall /\ UNCHANGED evq
       ELSE /\ st' = "Dead"
            /\ seq' = seq + 1 /\ equeue' = <<>> /\ cc' = GivenAll(cc, Created(<<"End">>))
            /\ UNCHANGED <<times, timers, tr>>
    /\ UNCHANGED <<delayed, late_media, pending_tr, dialog, hup>>

-----------------------------------------------------------------------------
(* The end of the call: a Fail, Redirect or Disconnect event in each state. *)

NoTimer == {}

\* The timer the states Disconnected and Failed start (godead_timeout).
LastTimer == {"goDead"}

\* The timers the states Trying and Ringing stop when the call is given up.
StoppedByEnd == IF st = "Trying" THEN SetupTimer ELSE {"expire"}

\* onStateChange() of the connected state wants to send the ACK it believes
\* pending, from a transaction that is gone: an exception, and no new state.
Raises == st = "Connected" /\ pending_tr

\* What the event does to the UA; ts are the timers that still run.
Ended(ts) ==
    \/ /\ st \in {"None", "Idle"}
       /\ st' = "Dead" /\ timers' = ts
       /\ UNCHANGED <<tr, dialog>>
    \/ /\ st \in {"Trying", "Ringing"}
       /\ st' = "Cancelling"
       /\ tr' = Cancelled(tr)
       /\ timers' = (ts \ StoppedByEnd) \cup {"te"}
       /\ UNCHANGED dialog
    \/ /\ st = "Connected"               \* BYE
       /\ st' = IF Raises THEN st ELSE "Disconnected"
       /\ timers' = (ts \ {"credit"}) \cup (IF Raises THEN {} ELSE LastTimer)
       /\ dialog' = "over"
       /\ UNCHANGED tr
    \/ /\ st \in {"Cancelling", "Disconnected", "Failed", "Dead"}
       /\ timers' = ts
       /\ UNCHANGED <<st, tr, dialog>>

\* The call controller ends the call.
recvEnd ==
    /\ st \in {"None", "Idle", "Trying", "Ringing", "Connected"}
    /\ Ended(timers)
    /\ IF Raises THEN Queue(<<>>) ELSE QueueAndEmit(<<>>)
    /\ hup' = TRUE
    /\ UNCHANGED <<times, sdp, pending_tr>>

\* disconnect(): the UA ends it itself, and tells the call controller so.
disconnect(ts) ==
    /\ Ended(ts)
    /\ IF Raises THEN Queue(<<"End">>) ELSE QueueAndEmit(<<"End">>)
    /\ hup' = TRUE

\* expires(), no_progress_expires(), no_reply_expires(), credit_expires().
TimerExpires(x) ==
    /\ x \in timers \cap Which
    /\ disconnect(timers \ {x})
    /\ UNCHANGED <<times, sdp, pending_tr>>

\* delayed_remote_sdp_update(): the RTP proxy is done with a body of the
\* callee, or has refused it, which ends the call with an event of its own.
RemoteSdpDone(e, ok) ==
    /\ e \in delayed /\ delayed' = delayed \ {e}
    /\ IF ok
       THEN /\ IF st = "Dead" THEN equeue' = Append(equeue, e) /\ cc' = cc
               ELSE equeue' = <<>> /\ cc' = GivenAll(cc, Append(equeue, e))
            /\ UNCHANGED <<st, timers, tr, dialog, seq, hup>>
       ELSE /\ Ended(timers)
            /\ IF st = "Dead" THEN Queue(<<"End">>)
               ELSE /\ seq' = seq + 1 /\ equeue' = <<>>
                    /\ cc' = GivenAll(cc, equeue \o Created(<<"End">>))
            /\ hup' = TRUE
    /\ UNCHANGED <<times, tryHeld, late_media, pending_tr>>

-----------------------------------------------------------------------------
(* Responses to the INVITE: UacStateTrying, Ringing, Cancelling.           *)

NotRearmed(a) == a

\* The timer that follows no_progress (or no_reply) when the call progresses.
ThenExpire(a) == IF times["expire"] # 0 THEN a \cup {"expire"} ELSE a

After100 ==
    IF "no_reply" \notin timers THEN timers
    ELSE IF times["no_progress"] # 0 THEN (timers \ {"no_reply"}) \cup {"no_progress"}
    ELSE ThenExpire(timers \ {"no_reply"})

After1xx ==
    IF timers \cap {"no_reply", "no_progress"} = {} THEN timers
    ELSE ThenExpire(timers \ {"no_reply", "no_progress"})

AfterFinal == IF st = "Trying" THEN timers \ SetupTimer ELSE timers \ {"expire"}

WithCredit(a) == IF times["credit"] # 0 THEN a \cup {"credit"} ELSE a

\* 100 Trying, in the state of that name.
Response100 ==
    /\ InProgress /\ seq < MaxSeq
    /\ st = "Trying"
    /\ tr' = Progressed
    /\ timers' = After100
    /\ QueueAndEmit(<<"Ring">>)
    /\ UNCHANGED <<st, times, sdp, pending_tr, dialog, hup>>

\* Any other provisional response (in Ringing: any), whose body the RTP proxy
\* takes at once, later, or not at all.
Response1xx(body) ==
    /\ InProgress /\ seq < MaxSeq
    /\ \/ /\ st \in {"Trying", "Ringing"} /\ body # "error"
          /\ st' = "Ringing"
          /\ tr' = Progressed
          /\ timers' = IF st = "Trying" THEN After1xx ELSE timers
          /\ IF body = "later" THEN Delay("Ring")
             ELSE QueueAndEmit(<<"Ring">>) /\ UNCHANGED delayed
       \/ /\ st \in {"Trying", "Ringing"} /\ body = "error"
          /\ st' = "Failed"
          /\ tr' = Cancelled(Progressed)
          /\ timers' = (IF st = "Trying" THEN After1xx ELSE timers) \cup LastTimer
          /\ QueueAndEmit(<<"End">>)
          /\ UNCHANGED delayed
       \/ /\ st \in {"Cancelling", "Failed", "Dead"}
          /\ tr' = Progressed
          /\ UNCHANGED <<st, timers, delayed, evq>>
    /\ UNCHANGED <<times, tryHeld, late_media, pending_tr, dialog, hup>>

\* 2xx while the call is being set up.
Answered(body) ==
    LET late == late_media /\ body # "none"       \* CCEventPreConnect
        ts   == IF late THEN AfterFinal ELSE WithCredit(AfterFinal)
    IN  /\ st \in {"Trying", "Ringing"}
        /\ late_media' = late
        /\ pending_tr' = late
        /\ \/ /\ body \in {"none", "now", "later"}
              /\ st' = "Connected" /\ timers' = ts /\ dialog' = "up"
              /\ IF body = "later" THEN Delay("Connect")
                 ELSE QueueAndEmit(<<"Connect">>) /\ UNCHANGED delayed
           \/ /\ body = "error"          \* BYE
              /\ st' = "Failed" /\ timers' = ts \cup LastTimer /\ dialog' = "over"
              /\ QueueAndEmit(<<"End">>) /\ UNCHANGED delayed

\* A 2xx without a tag cannot be a dialog: BYE.
AnsweredWithoutTag ==
    /\ st \in {"Trying", "Ringing"}
    /\ st' = "Failed" /\ timers' = AfterFinal \cup LastTimer /\ dialog' = "over"
    /\ QueueAndEmit(<<"End">>)
    /\ UNCHANGED <<delayed, late_media, pending_tr>>

NoByeSent == dialog' = "up"

ByeSent == dialog' = "over"

\* The callee had answered before it saw the CANCEL: BYE.
AnsweredTooLate ==
    /\ st = "Cancelling"
    /\ st' = "Disconnected"
    /\ timers' = (timers \ {"te"}) \cup LastTimer
    /\ ByeSent
    /\ UNCHANGED <<delayed, late_media, pending_tr, evq>>

\* Nobody listens any more (ua.recvResponse, UaStateGeneric.recvResponse).
AnsweredUnheard ==
    /\ st \in {"Failed", "Dead"}
    /\ dialog' = "unheard"
    /\ UNCHANGED <<st, timers, delayed, late_media, pending_tr, evq>>

Response2xx ==
    /\ InProgress /\ tr' = Done
    /\ \/ \E body \in {"none", "now", "later", "error"} : Answered(body)
       \/ AnsweredWithoutTag \/ AnsweredTooLate \/ AnsweredUnheard
    /\ UNCHANGED <<times, tryHeld, hup>>

\* Any other final response, or the 408 of the transaction manager.
ResponseFail ==
    /\ InProgress /\ tr' = Done
    /\ \/ /\ st \in {"Trying", "Ringing"}
          /\ st' = "Failed" /\ timers' = AfterFinal \cup LastTimer
          /\ QueueAndEmit(<<"End">>)
       \/ /\ st = "Cancelling"
          /\ st' = "Dead" /\ timers' = timers \ {"te"}
          /\ UNCHANGED evq
       \/ /\ st \in {"Failed", "Dead"}
          /\ UNCHANGED <<st, timers, evq>>
    /\ UNCHANGED <<times, sdp, pending_tr, dialog, hup>>

\* processChallenge(): a 401 ("www") or 407 ("proxy") that the last INVITE has
\* not answered yet is answered by another INVITE, in whichever state.
Challenged(k) ==
    /\ InProgress /\ CanAuth /\ st # "Dead"
    /\ tr.auth # k /\ tr.n < MaxInvites
    /\ tr' = NewInvite(k)
    /\ UNCHANGED <<st, times, timers, sdp, pending_tr, evq, dialog, hup>>

-----------------------------------------------------------------------------
(* The connected state, and the way out of the last ones.                  *)

\* BYE of the callee.
ByeArrives ==
    /\ st = "Connected" /\ dialog = "up"
    /\ dialog' = "over"
    /\ st' = IF Raises THEN st ELSE "Disconnected"
    /\ timers' = (timers \ {"credit"}) \cup (IF Raises THEN {} ELSE LastTimer)
    /\ IF Raises THEN Queue(<<"End">>) ELSE QueueAndEmit(<<"End">>)
    /\ hup' = TRUE
    /\ UNCHANGED <<times, tr, sdp, pending_tr>>

\* INFO of the callee.
InfoArrives ==
    /\ st = "Connected" /\ dialog = "up" /\ seq < MaxSeq
    /\ QueueAndEmit(<<"Info">>)
    /\ UNCHANGED <<st, times, timers, tr, sdp, pending_tr, dialog, hup>>

\* CCEventConnect: the body for the pending ACK.  It raises like onStateChange.
recvConnect ==
    /\ st = "Connected" /\ pending_tr /\ seq < MaxSeq
    /\ timers' = WithCredit(timers \ {"expire", "credit"})
    /\ UNCHANGED <<st, times, tr, sdp, pending_tr, evq, dialog, hup>>

\* goIdle() of the cancelling state; the INVITE loses its callback.
goIdle ==
    /\ "te" \in timers
    /\ st' = "Dead" /\ timers' = timers \ {"te"}
    /\ UNCHANGED <<times, tr, sdp, pending_tr, evq, dialog, hup>>

\* goDead() of the states Disconnected and Failed.
goDead ==
    /\ "goDead" \in timers
    /\ st' = "Dead" /\ timers' = timers \ {"goDead"}
    /\ UNCHANGED <<times, tr, sdp, pending_tr, evq, dialog, hup>>

recvResponse ==
    \/ Response100 \/ Response2xx \/ ResponseFail
    \/ \E body \in {"now", "later", "error"} : Response1xx(body)
    \/ \E k \in {"www", "proxy"} : Challenged(k)

Next ==
    \/ recvTry \/ recvEnd \/ recvConnect
    \/ \E ok \in BOOLEAN : LocalSdpDone(ok) \/ \E e \in delayed : RemoteSdpDone(e, ok)
    \/ recvResponse
    \/ ByeArrives \/ InfoArrives
    \/ goIdle \/ goDead \/ \E x \in Which : TimerExpires(x)

Spec == Init /\ [][Next]_vars

\* The RTP proxy calls back about the offer, and the dispatcher runs the timers of
\* the last states.  Nothing makes the callee answer.
Fairness ==
    /\ WF_vars(\E ok \in BOOLEAN : LocalSdpDone(ok))
    /\ WF_vars(goIdle) /\ WF_vars(goDead)

FairSpec == Spec /\ Fairness

-----------------------------------------------------------------------------
(* Properties.                                                             *)

\* While the call is being set up at most one of the three setup timers runs,
\* and one does if the route has an expire time: a call that neither progresses
\* nor fails is ended.  None survives into the states that follow, where it
\* would hang up on a connected call (UacStateIdle, UacStateTrying).
SetupTimed ==
    LET running == timers \cap SetupTimer IN
    /\ \A a, b \in running : a = b
    /\ st \in {"Trying", "Ringing"} /\ times["expire"] # 0 => running # {}
    /\ st \in {"Connected", "Cancelling", "Disconnected"} => running = {}

\* A call that is connected and billed has its credit timer running.
CreditEnforced ==
    st = "Connected" /\ ~pending_tr /\ times["credit"] # 0 => "credit" \in timers

\* When the call controller has been told that the leg has ended, it is told of
\* no progress, answer or INFO any more, however late the RTP proxy returns the
\* body of an earlier response: all it can hear is the end once more.
OnlyEndsAfterEnd == cc.late \subseteq {"End"}

\* A callee whose answer the UA hears is connected or is sent a BYE, also if the
\* answer crossed the CANCEL or its body is refused (UacStateCancelling,
\* UacStateTrying.recvResponse).
AnsweredIsEnded == dialog = "up" => st = "Connected"

\* However the call ends, and whoever ends it, the leg dies.  (A leg that still
\* believes an ACK pending cannot leave the connected state: see Raises.)
EndsDead == (hup /\ ~pending_tr) ~> st = "Dead"

\* A leg is never without the timer that would end it: the setup timers take
\* turns, and the credit timer takes over when the call is connected.
LegGuarded == SetupTimed /\ CreditEnforced

\* The event queue hands over nothing that is out of date, and every variable
\* keeps its type.
EndsLast == TypeOK /\ OnlyEndsAfterEnd
=============================================================================
