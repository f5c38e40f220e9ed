------------------------- MODULE ClientTransaction -------------------------
(***************************************************************************)
(* The client half of SipTransactionManager: one request of the transport  *)
(* user (a UA), the CANCEL that may follow it, the retransmission cache    *)
(* that both share, and the network between them and the far end.          *)
(*                                                                         *)
(* The process is single threaded, so every handler (a datagram, a timer,  *)
(* a call of the UA) runs to completion and is one action; the callback    *)
(* into the UA is part of the action that makes it.  Timers are the set of *)
(* Timeout objects the dispatcher still holds, which is not the same thing *)
(* as the teA..teG fields: cleanup() forgets the fields and cancels none.  *)
(***************************************************************************)
EXTENDS Naturals

CONSTANTS
    Provisional,    \* the distinct 1xx responses the far end may send
    Success,        \* the distinct 2xx responses
    Failure,        \* the distinct 3xx-6xx responses
    CancelResp,     \* the distinct final responses to the CANCEL
    MaxRetrans      \* bound on timer A firings of one transaction

Final == Success \cup Failure
Resp  == Provisional \cup Final \cup CancelResp

ASSUME ClientAssumption ==
    /\ MaxRetrans \in Nat
    /\ "none" \notin Resp /\ "408" \notin Resp
    /\ Provisional \cap Final = {} /\ Success \cap Failure = {}
    /\ CancelResp \cap (Provisional \cup Final) = {}

Tid == {"req", "can"}

\* The transaction a response belongs to (SipMsg.getTId(wCSM, wBRN)).
TidOf(m) == IF m \in CancelResp THEN "can" ELSE "req"

VARIABLES
    method,         \* t.method of the request: "INVITE" or "other"
    state,          \* t.state; "idle" before newTransaction()
    tclient,        \* the transactions registered in tm.tclient
    armed,          \* the timers of a transaction the dispatcher holds
    retrans,        \* how often timer A has fired (t.tout = 0.5 * 2^retrans)
    cancelPending,  \* t.cancelPending of the request
    uack,           \* t.uack of the request
    l1rcache,       \* tm.l1rcache: what a repeated datagram is answered with
    l2rcache,       \* tm.l2rcache: the previous generation
    wire,           \* responses the far end has sent (delivered 0..n times)
    age,            \* cache purges since a final was first sent, up to 2
    asked,          \* the UA has called cancelTransaction()
    cancels,        \* CANCEL transactions opened
    outcome,        \* the last final answer given to resp_cb, or "none"
    finals,         \* how many final answers resp_cb was given, up to 2
    acked,          \* final responses an ACK has been transmitted for
    sendAck,        \* the UA's sendACK() call: "no", "sent" or "raised"
    raised,         \* an exception has come out of resp_cb
    rcv,            \* the response the last step handled, or "none"
    snd             \* what the last step transmitted

tm   == <<state, tclient, armed, retrans, cancelPending, uack>>
rc   == <<l1rcache, l2rcache>>
far  == <<wire, age>>
tu   == <<asked, cancels, outcome, finals, acked, sendAck, raised>>
vars == <<method, tm, rc, far, tu, rcv, snd>>

States == {"idle", "TRYING", "RINGING", "TERMINATED", "UACK"}
Cached == {"absent", "drop", "ack"}
Answer == Final \cup {"none", "408"}

TypeOK ==
    /\ method \in {"INVITE", "other"}
    /\ state \in [Tid -> States]
    /\ tclient \in SUBSET Tid
    /\ armed \in [Tid -> SUBSET {"A", "B", "C", "G"}]
    /\ retrans \in [Tid -> 0 .. MaxRetrans]
    /\ cancelPending \in BOOLEAN /\ uack \in BOOLEAN
    /\ l1rcache \in [Resp -> Cached] /\ l2rcache \in [Resp -> Cached]
    /\ wire \in SUBSET Resp /\ age \in [Final -> 0 .. 2]
    /\ asked \in BOOLEAN /\ cancels \in Nat
    /\ outcome \in Answer /\ finals \in 0 .. 2
    /\ acked \in SUBSET Answer /\ sendAck \in {"no", "sent", "raised"}
    /\ raised \in BOOLEAN
    /\ rcv \in Resp \cup {"none"}
    /\ snd \in SUBSET {"INVITE", "other", "CANCEL", "ACK"}

Init ==
    /\ method \in {"INVITE", "other"}
    /\ state = [t \in Tid |-> "idle"]
    /\ tclient = {}
    /\ armed = [t \in Tid |-> {}]
    /\ retrans = [t \in Tid |-> 0]
    /\ cancelPending = FALSE /\ uack = FALSE
    /\ l1rcache = [m \in Resp |-> "absent"]
    /\ l2rcache = [m \in Resp |-> "absent"]
    /\ wire = {} /\ age = [m \in Final |-> 0]
    /\ asked = FALSE /\ cancels = 0
    /\ outcome = "none" /\ finals = 0 /\ acked = {} /\ sendAck = "no" /\ raised = FALSE
    /\ rcv = "none" /\ snd = {}

-----------------------------------------------------------------------------
(* The far end and the network (external).                                 *)

\* The far end sends a response to something it may have received.  Any
\* response, in any order; delivery below loses, repeats and reorders them.
FarEndSends(m) ==
    /\ m \notin wire
    /\ state[TidOf(m)] # "idle"
    /\ wire' = wire \cup {m}
    /\ rcv' = "none" /\ snd' = {}
    /\ UNCHANGED <<method, tm, rc, age, tu>>

-----------------------------------------------------------------------------
(* Calls of the UA.                                                        *)

\* newTransaction() for the request.
newTransaction ==
    /\ state["req"] = "idle"
    /\ state' = [state EXCEPT !["req"] = "TRYING"]
    /\ tclient' = tclient \cup {"req"}
    /\ armed' = [armed EXCEPT !["req"] = {"A", "B"}]
    /\ rcv' = "none" /\ snd' = {method}
    /\ UNCHANGED <<method, retrans, cancelPending, uack, rc, far, tu>>

\* What opening the CANCEL transaction changes: newTransaction(t.cancel).
OpenCancel ==
    /\ tclient' = tclient \cup {"can"}
    /\ cancels' = cancels + 1

CancelBeforeProvisional == state["req"] \in {"TRYING", "RINGING"}

\* cancelTransaction(): at once when a 1xx was seen, otherwise deferred.
CancelNow == state["req"] = "RINGING"

cancelTransaction ==
    /\ method = "INVITE" /\ state["req"] # "idle"
    /\ ~asked /\ finals = 0          \* the UA cancels once, before an answer
    /\ asked' = TRUE
    /\ \/ /\ CancelNow
          /\ state' = [state EXCEPT !["can"] = "TRYING"]
          /\ armed' = [armed EXCEPT !["can"] = {"A", "B"}]
          /\ OpenCancel
          /\ snd' = {"CANCEL"}
          /\ UNCHANGED cancelPending
       \/ /\ ~CancelNow
          /\ cancelPending' = TRUE
          /\ snd' = {}
          /\ UNCHANGED <<state, armed, tclient, cancels>>
    /\ rcv' = "none"
    /\ UNCHANGED <<method, retrans, uack, rc, far, outcome, finals, acked, sendAck,
                   raised>>

\* sendACK(): the UA, which keeps the transaction in pending_tr, asks for the
\* ACK it wanted withheld.  On a transaction that has been cleaned up there is
\* neither an ACK nor an address to send it to: the call raises.
sendACK ==
    /\ uack /\ sendAck = "no"
    /\ LET held == state["req"] = "UACK" IN
          /\ sendAck' = IF held THEN "sent" ELSE "raised"
          /\ armed'   = IF held THEN [armed EXCEPT !["req"] = @ \ {"G"}] ELSE armed
          /\ tclient' = IF held THEN tclient \ {"req"} ELSE tclient
          /\ acked'   = IF held THEN acked \cup {outcome} ELSE acked
          /\ l1rcache' = IF held THEN [l1rcache EXCEPT ![outcome] = "ack"] ELSE l1rcache
          /\ snd'     = IF held THEN {"ACK"} ELSE {}
    /\ rcv' = "none"
    /\ UNCHANGED <<method, state, retrans, cancelPending, uack, l2rcache, far,
                   asked, cancels, outcome, finals, raised>>

-----------------------------------------------------------------------------
(* A datagram arrives: handleIncoming() and incomingResponse().            *)

\* What either generation of the cache holds for a datagram.
Lookup(m) == IF l1rcache[m] # "absent" THEN l1rcache[m] ELSE l2rcache[m]

\* A datagram that was seen before is answered from the cache, or dropped.
Repeated(m) ==
    /\ Lookup(m) # "absent"
    /\ snd' = IF Lookup(m) = "ack" THEN {"ACK"} ELSE {}
    /\ UNCHANGED <<tm, rc, tu>>

\* A response to no transaction in progress is remembered as to be dropped.
Unmatched(m) ==
    /\ Lookup(m) = "absent" /\ TidOf(m) \notin tclient
    /\ l1rcache' = [l1rcache EXCEPT ![m] = "drop"]
    /\ snd' = {}
    /\ UNCHANGED <<tm, l2rcache, tu>>

\* The guard of the three cases below that reach a transaction.
Matches(m) == Lookup(m) = "absent" /\ TidOf(m) \in tclient

\* TERMINATED: the UA has been given a 408, the response is ignored.
\* (UACK falls through the function in the same way.)
Ignored(m) ==
    /\ Matches(m)
    /\ state[TidOf(m)] \in {"TERMINATED", "UACK"}
    /\ snd' = {}
    /\ UNCHANGED <<tm, rc, tu>>

LiveStatesAndTerminated == {"TRYING", "RINGING", "TERMINATED"}

\* The states in which a response is acted upon.
LiveStates == {"TRYING", "RINGING"}

\* The timers a response stops on its way in.
StoppedTimers(t) == IF state[t] = "TRYING" THEN {"A", "B"} ELSE {"B"}

NoReload == {}

\* The timer a provisional response starts: timer B, with t.expires.
ReloadedTimers == {"B"}

\* A provisional response to the request.  A deferred CANCEL goes out before
\* the UA hears of the response; the UA may itself cancel from resp_cb (a 1xx
\* whose SDP it cannot handle: UacStateTrying.recvResponse).
SendsDeferred == state["req"] = "TRYING" /\ cancelPending

ProvisionalStep(cancels_in_cb) ==
    /\ cancels_in_cb => method = "INVITE" /\ ~asked /\ finals = 0
    /\ asked' = (asked \/ cancels_in_cb)
    /\ LET opens == SendsDeferred \/ cancels_in_cb IN
          /\ state' = [state EXCEPT !["req"] = "RINGING",
                                    !["can"] = IF opens THEN "TRYING" ELSE @]
          /\ armed' = [armed EXCEPT !["req"] = (@ \ StoppedTimers("req")) \cup ReloadedTimers,
                                    !["can"] = IF opens THEN {"A", "B"} ELSE @]
          /\ IF opens THEN OpenCancel ELSE UNCHANGED <<tclient, cancels>>
          /\ snd' = IF opens THEN {"CANCEL"} ELSE {}

ProvisionalResponse(m) ==
    /\ Matches(m) /\ m \in Provisional
    /\ state["req"] \in LiveStates
    /\ l1rcache' = [l1rcache EXCEPT ![m] = "drop"]
    /\ \E cancels_in_cb \in BOOLEAN : ProvisionalStep(cancels_in_cb)
    /\ cancelPending' = (cancelPending /\ ~SendsDeferred)
    /\ UNCHANGED <<retrans, uack, l2rcache, outcome, finals, acked, sendAck,
                   raised>>

\* The final response to the request.  The ACK is sent, or kept for the UA,
\* before the UA hears of the response; resp_cb of a 2xx may set t.uack
\* (UacStateTrying, UacStateRinging); unless the ACK is kept the transaction is
\* removed afterwards, which an exception out of resp_cb prevents.
\* Counting up to two is enough to tell "once" from "more than once".
OneMore(n) == IF n < 2 THEN n + 1 ELSE n

KeepsAck == uack

FinalResponse(m) ==
    /\ Matches(m) /\ m \in Final
    /\ state["req"] \in LiveStates
    /\ LET keeps == method = "INVITE" /\ KeepsAck
           acks  == method = "INVITE" /\ ~KeepsAck IN
          /\ l1rcache' = [l1rcache EXCEPT ![m] = IF acks THEN "ack" ELSE "drop"]
          /\ acked' = IF acks THEN acked \cup {m} ELSE acked
          /\ snd' = IF acks THEN {"ACK"} ELSE {}
          /\ armed' = [armed EXCEPT !["req"] = (@ \ StoppedTimers("req"))
                                               \cup (IF keeps THEN {"G"} ELSE {})]
          /\ state' = IF keeps THEN [state EXCEPT !["req"] = "UACK"] ELSE state
          /\ \/ tclient' = (IF keeps THEN tclient ELSE tclient \ {"req"}) /\ raised' = raised
             \/ tclient' = tclient /\ raised' = TRUE
    /\ uack' \in {uack, uack \/ (method = "INVITE" /\ m \in Success /\ ~asked)}
    /\ outcome' = m /\ finals' = OneMore(finals)
    /\ UNCHANGED <<retrans, cancelPending, l2rcache, asked, cancels, sendAck>>

\* The final response to the CANCEL: no ACK, no callback.
CancelResponse(m) ==
    /\ Matches(m) /\ m \in CancelResp
    /\ state["can"] \in LiveStates
    /\ l1rcache' = [l1rcache EXCEPT ![m] = "drop"]
    /\ armed' = [armed EXCEPT !["can"] = @ \ StoppedTimers("can")]
    /\ tclient' = tclient \ {"can"}
    /\ snd' = {}
    /\ UNCHANGED <<state, retrans, cancelPending, uack, l2rcache, tu>>

handleIncoming(m) ==
    /\ m \in wire
    /\ \/ Repeated(m)
       \/ Unmatched(m)
       \/ Ignored(m)
       \/ ProvisionalResponse(m)
       \/ FinalResponse(m)
       \/ CancelResponse(m)
    /\ rcv' = m
    /\ UNCHANGED <<method, far>>

-----------------------------------------------------------------------------
(* Timers.                                                                 *)

\* timerA(): the request is transmitted again and the timer re-armed.
timerA(t) ==
    /\ "A" \in armed[t] /\ retrans[t] < MaxRetrans
    /\ retrans' = [retrans EXCEPT ![t] = @ + 1]
    /\ rcv' = "none" /\ snd' = {IF t = "can" THEN "CANCEL" ELSE method}
    /\ UNCHANGED <<method, state, tclient, armed, cancelPending, uack, rc, far, tu>>

\* timerB(): no (final) answer in time.  The UA of the request is given a 408.
timerB(t) ==
    /\ "B" \in armed[t]
    /\ armed' = [armed EXCEPT ![t] = (@ \ {"A", "B"}) \cup {"C"}]
    /\ state' = [state EXCEPT ![t] = "TERMINATED"]
    /\ finals' = IF t = "req" THEN OneMore(finals) ELSE finals
    /\ outcome' = IF t = "req" THEN "408" ELSE outcome
    /\ rcv' = "none" /\ snd' = {}
    /\ UNCHANGED <<method, tclient, retrans, cancelPending, uack, rc, far,
                   asked, cancels, acked, sendAck, raised>>

\* timerC(): the timed out transaction is forgotten.
timerC(t) ==
    /\ "C" \in armed[t]
    /\ armed' = [armed EXCEPT ![t] = @ \ {"C"}]
    /\ tclient' = tclient \ {t}
    /\ rcv' = "none" /\ snd' = {}
    /\ UNCHANGED <<method, state, retrans, cancelPending, uack, rc, far, tu>>

NoOldGeneration == [m \in Resp |-> "absent"]

\* What becomes of the current generation when the cache is purged.
OldGeneration == l1rcache

\* rCachePurge(), every 32 s: the cache generations are shifted.
rCachePurge ==
    /\ l2rcache' = OldGeneration
    /\ l1rcache' = [m \in Resp |-> "absent"]
    /\ age' = [m \in Final |-> IF m \in wire /\ age[m] < 2 THEN age[m] + 1 ELSE age[m]]
    /\ rcv' = "none" /\ snd' = {}
    /\ UNCHANGED <<method, tm, wire, tu>>

\* timerG(): a line in the log.
timerG ==
    /\ "G" \in armed["req"]
    /\ armed' = [armed EXCEPT !["req"] = @ \ {"G"}]
    /\ rcv' = "none" /\ snd' = {}
    /\ UNCHANGED <<method, state, tclient, retrans, cancelPending, uack, rc, far, tu>>

Timer == timerG \/ \E t \in Tid : timerA(t) \/ timerB(t) \/ timerC(t)

Next ==
    \/ newTransaction \/ cancelTransaction \/ sendACK
    \/ \E m \in Resp : FarEndSends(m) \/ handleIncoming(m)
    \/ Timer \/ rCachePurge

Spec == Init /\ [][Next]_vars

\* Timer B of the request is cancelled and set again by every provisional
\* response that the cache does not know.
Rearms == \E m \in Resp : handleIncoming(m) /\ ProvisionalResponse(m)

\* The dispatcher runs every timer that is due.  Timer B of the request is due
\* only if it is left alone for t.expires: a far end that keeps sending 1xx
\* postpones it for ever.  Nothing else is assumed of the far end, and nothing
\* of the network.
Fairness ==
    /\ WF_vars(timerB("can"))
    /\ []<><<Rearms>>_vars \/ WF_vars(timerB("req"))
    /\ \A t \in Tid : WF_vars(timerC(t))

FairSpec == Spec /\ Fairness

-----------------------------------------------------------------------------
(* Properties.                                                             *)

\* resp_cb is given one final answer at most: a final response, or the 408 of
\* timerB(), never both and never a second one, whatever the far end repeats,
\* reorders or sends after the timeout (incomingResponse, timerB), unless
\* resp_cb itself raises: the transaction then stays in tclient as it was.
FinalOnce == ~raised => finals <= 1

\* No timer of a transaction is left with the dispatcher once the transaction
\* has been removed from tclient: timerA/timerB/timerC would then run on the
\* fields cleanup() has set to None, or delete the key again.
NoStrayTimer == \A t \in Tid : t \notin tclient => armed[t] = {}

\* When the UA hears the final response of an INVITE, the ACK for that very
\* response has been transmitted (as long as no resp_cb has raised).
AckBeforeTold ==
    ~raised /\ method = "INVITE" /\ outcome \in Final => outcome \in acked

\* The CANCEL is neither lost nor early nor repeated: it needs a request of the
\* UA and a provisional response (cancelTransaction's comment), it is there as
\* soon as both are, in whichever order they came, and its transaction is
\* opened once (newTransaction raises on a known TID).
CancelExactlyOnce ==
    /\ cancels <= 1
    /\ cancels = 1 => asked /\ state["req"] \notin {"idle", "TRYING"}
    /\ asked /\ state["req"] = "RINGING" => cancels = 1

\* A final response of an INVITE that the far end repeats because it has not
\* seen the ACK is answered by the ACK again as long as the far end may repeat
\* it (64*T1 = 32 s, less than two purges after it was first sent), although
\* the transaction is gone: the two generations of the cache last long enough.
AckReplayed ==
    ~raised /\ rcv \in Final /\ rcv = outcome /\ method = "INVITE" /\ age[rcv] <= 1
        => "ACK" \in snd

\* Every request ends unless the far end sends provisional responses for ever:
\* the UA is told how, and nothing stays in tclient, even if the far end answers
\* nothing, or falls silent after any number of 1xx (timerB, incomingResponse).
\* (An exception out of resp_cb leaves its transaction in tclient without a timer.)
Concludes ==
    <>[][~Rearms]_vars
        => ((state["req"] # "idle") ~> (finals >= 1 /\ (tclient = {} \/ raised)))

\* What the UA is told: one outcome, and of an answered INVITE not before the ACK
\* has gone out (incomingResponse, timerB).
ToldOnce == FinalOnce /\ AckBeforeTold

\* What an exception out of resp_cb cannot upset: the CANCEL goes out exactly once,
\* and no timer outlives its transaction.
KeptDespiteRaise == CancelExactlyOnce /\ NoStrayTimer
=============================================================================
