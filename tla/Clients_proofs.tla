--------------------------- MODULE Clients_proofs ---------------------------
(***************************************************************************)
(* The clients of other servers.  Two of them send again over UDP until    *)
(* they are answered: the client side of the SIP transactions (the module  *)
(* ClientTransaction), for any responses, and the client of an RTP proxy   *)
(* (the module RtppClient), for any number of commands and capabilities    *)
(* and any intervals.  The other two are the agent that registers with a   *)
(* registrar (the module Registration), for any offers and any life of a   *)
(* nonce, and the accounting record that is sent to a RADIUS server (the   *)
(* module RadiusRecords), for any times.                                   *)
(***************************************************************************)
EXTENDS ClientTransaction, RtppClient, Registration, RadiusRecords, FiniteSetTheorems,
        SequenceTheorems, NaturalsInduction, TLAPS

-----------------------------------------------------------------------------
(* The client side of the transactions.                                    *)

\* Which timers can be pending in which state, and what "idle" excludes.
TimerStates ==
    \A t \in Tid :
       /\ state[t] = "idle" => t \notin tclient
       /\ "A" \in armed[t] => state[t] = "TRYING"
       /\ "B" \in armed[t] => state[t] \in {"TRYING", "RINGING"}
       /\ "C" \in armed[t] => state[t] = "TERMINATED"
       /\ "G" \in armed[t] => state[t] = "UACK" /\ t = "req"

\* Where a cancellation stands: not asked for, deferred, or under way.
CancelStages ==
    /\ (cancels = 0 <=> state["can"] = "idle")
    /\ ~asked => cancels = 0 /\ ~cancelPending
    /\ asked => state["req"] # "idle"
    /\ asked /\ state["req"] = "TRYING" => cancelPending /\ cancels = 0

IInv == TypeOK /\ NoStrayTimer /\ TimerStates /\ CancelStages /\ CancelExactlyOnce

\* Without exceptions out of resp_cb: a live transaction has not reported yet,
\* t.uack is only ever set when it is too late to matter, and the ACK of the
\* reported response is in the generation its age calls for.
Reported ==
    /\ state["req"] = "idle" => finals = 0
    /\ "req" \in tclient /\ state["req"] \in {"TRYING", "RINGING"} => finals = 0
    /\ uack => finals = 1
    /\ outcome = "none" <=> finals = 0
    /\ state["req"] # "UACK"

AckCached ==
    \A m \in Final : method = "INVITE" /\ outcome = m =>
       /\ m \in wire
       /\ age[m] = 0 => l1rcache[m] = "ack"
       /\ age[m] = 1 => Lookup(m) = "ack"

IInvNoRaise ==
    /\ IInv /\ FinalOnce /\ AckBeforeTold /\ AckReplayed
    /\ ~raised => Reported /\ AckCached

-----------------------------------------------------------------------------

USE DEF Tid, Final, Resp

\* The initial states satisfy the invariant.
LEMMA InitIInv == Init => IInv
<1> SUFFICES ASSUME Init PROVE IInv
  OBVIOUS
<1>1. TypeOK
  <2>1. cancelPending \in BOOLEAN /\ uack \in BOOLEAN /\ asked \in BOOLEAN /\ raised \in BOOLEAN
    BY Zenon DEF Init
  <2> QED BY <2>1, ClientAssumption DEF Init, TypeOK, States, Cached, Answer
<1>2. NoStrayTimer /\ TimerStates /\ CancelStages /\ CancelExactlyOnce
  BY DEF Init, NoStrayTimer, TimerStates, CancelStages, CancelExactlyOnce
<1> QED BY <1>1, <1>2 DEF IInv

\* A step leaves every variable in its type.
LEMMA TypeStep == TypeOK /\ [Next]_vars => TypeOK'
<1> SUFFICES ASSUME TypeOK, [Next]_vars PROVE TypeOK'
  OBVIOUS
<1> USE ClientAssumption DEF TypeOK, States, Cached, Answer
<1>1. CASE newTransaction
  BY <1>1 DEF newTransaction, rc, far, tu
<1>2. CASE cancelTransaction
  <2> USE <1>2 DEF cancelTransaction, CancelNow, OpenCancel, rc, far
  <2>1. state' \in [Tid -> States]
    OBVIOUS
  <2>2. armed' \in [Tid -> SUBSET {"A", "B", "C", "G"}]
    OBVIOUS
  <2>3. tclient' \in SUBSET Tid
    OBVIOUS
  <2>4. cancels' \in Nat
    OBVIOUS
  <2>5. snd' \in SUBSET {"INVITE", "other", "CANCEL", "ACK"}
    OBVIOUS
  <2>6. cancelPending' \in BOOLEAN
    OBVIOUS
  <2> QED BY <2>1, <2>2, <2>3, <2>4, <2>5, <2>6
<1>3. CASE sendACK
  BY <1>3 DEF sendACK, rc, far
<1>4. ASSUME NEW m \in Resp, FarEndSends(m) PROVE TypeOK'
  BY <1>4 DEF FarEndSends, tm, rc, tu
<1>5. ASSUME NEW m \in Resp, handleIncoming(m) PROVE TypeOK'
  <2> USE <1>5 DEF handleIncoming, far
  <2>1. CASE Repeated(m)
    BY <2>1 DEF Repeated, tm, rc, tu
  <2>2. CASE Unmatched(m)
    BY <2>2 DEF Unmatched, tm, tu
  <2>3. CASE Ignored(m)
    BY <2>3 DEF Ignored, tm, rc, tu
  <2>4. CASE ProvisionalResponse(m)
    <3>1. PICK c \in BOOLEAN : ProvisionalStep(c)
      BY <2>4 DEF ProvisionalResponse
    <3> USE <3>1 DEF ProvisionalStep, SendsDeferred, OpenCancel
    <3>2. state' \in [Tid -> States]
      OBVIOUS
    <3>3. armed' \in [Tid -> SUBSET {"A", "B", "C", "G"}]
      BY DEF ReloadedTimers
    <3>4. tclient' \in SUBSET Tid
      <4>1. tclient' = tclient \cup {"can"} \/ tclient' = tclient
        BY <3>1 DEF ProvisionalStep, OpenCancel
      <4> QED BY <4>1
    <3>5. cancels' \in Nat
      OBVIOUS
    <3>6. snd' \in SUBSET {"INVITE", "other", "CANCEL", "ACK"}
      OBVIOUS
    <3>7. asked' \in BOOLEAN /\ cancelPending' \in BOOLEAN
      BY <2>4, Zenon DEF ProvisionalResponse
    <3> QED BY <2>4, <3>2, <3>3, <3>4, <3>5, <3>6, <3>7 DEF ProvisionalResponse
  <2>5. CASE FinalResponse(m)
    <3>1. uack' \in BOOLEAN /\ raised' \in BOOLEAN
      BY <2>5, Zenon DEF FinalResponse
    <3>2. tclient' \in SUBSET Tid
      BY <2>5 DEF FinalResponse
    <3>3. state' \in [Tid -> States]
      BY <2>5 DEF FinalResponse
    <3>4. armed' \in [Tid -> SUBSET {"A", "B", "C", "G"}]
      BY <2>5 DEF FinalResponse
    <3> QED BY <2>5, <3>1, <3>2, <3>3, <3>4 DEF FinalResponse, OneMore
  <2>6. CASE CancelResponse(m)
    BY <2>6 DEF CancelResponse, tu
  <2> QED BY <2>1, <2>2, <2>3, <2>4, <2>5, <2>6
<1>6. ASSUME NEW t \in Tid, timerA(t) PROVE TypeOK'
  BY <1>6 DEF timerA, rc, far, tu
<1>7. ASSUME NEW t \in Tid, timerB(t) PROVE TypeOK'
  BY <1>7 DEF timerB, OneMore, rc, far
<1>8. ASSUME NEW t \in Tid, timerC(t) PROVE TypeOK'
  BY <1>8 DEF timerC, rc, far, tu
<1>9. CASE timerG
  BY <1>9 DEF timerG, rc, far, tu
<1>10. CASE rCachePurge
  BY <1>10 DEF rCachePurge, OldGeneration, tm, tu
<1>11. CASE UNCHANGED vars
  BY <1>11 DEF vars, tm, rc, far, tu
<1> QED BY <1>1, <1>2, <1>3, <1>4, <1>5, <1>6, <1>7, <1>8, <1>9, <1>10, <1>11
        DEF Next, Timer

\* A transaction that is removed leaves no timer behind.
LEMMA TimerStep == IInv /\ [Next]_vars => NoStrayTimer' /\ TimerStates'
<1> SUFFICES ASSUME IInv, [Next]_vars PROVE NoStrayTimer' /\ TimerStates'
  OBVIOUS
<1> USE DEF IInv, TypeOK, States, NoStrayTimer, TimerStates
<1>1. CASE newTransaction
  BY <1>1 DEF newTransaction
<1>2. CASE cancelTransaction
  BY <1>2 DEF cancelTransaction, CancelNow, OpenCancel
<1>3. CASE sendACK
  BY <1>3 DEF sendACK
<1>4. ASSUME NEW m \in Resp, FarEndSends(m) PROVE NoStrayTimer' /\ TimerStates'
  BY <1>4 DEF FarEndSends, tm
<1>5. ASSUME NEW m \in Resp, handleIncoming(m) PROVE NoStrayTimer' /\ TimerStates'
  <2> USE <1>5 DEF handleIncoming
  <2>1. CASE Repeated(m) \/ Unmatched(m) \/ Ignored(m)
    BY <2>1 DEF Repeated, Unmatched, Ignored, tm
  <2>2. CASE ProvisionalResponse(m)
    <3>1. PICK c \in BOOLEAN : ProvisionalStep(c)
      BY <2>2 DEF ProvisionalResponse
    <3>2. "req" \in tclient /\ state["req"] \in {"TRYING", "RINGING"}
      BY <2>2, ClientAssumption DEF ProvisionalResponse, Matches, TidOf, LiveStates
    <3>3. state' = [state EXCEPT !["req"] = "RINGING", !["can"] = state'["can"]]
      BY <3>1 DEF ProvisionalStep
    <3>4. armed'["req"] = {"B"} \cup (armed["req"] \ {"A", "B"})
      BY <3>1, <3>2 DEF ProvisionalStep, StoppedTimers, ReloadedTimers
    <3>5. \/ state'["can"] = "TRYING" /\ armed'["can"] = {"A", "B"} /\ tclient' = tclient \cup {"can"}
          \/ state'["can"] = state["can"] /\ armed'["can"] = armed["can"] /\ tclient' = tclient
      BY <3>1 DEF ProvisionalStep, OpenCancel, SendsDeferred
    <3> QED BY <3>2, <3>3, <3>4, <3>5
  <2>3. CASE FinalResponse(m)
    <3>1. "req" \in tclient /\ state["req"] \in {"TRYING", "RINGING"}
      BY <2>3, ClientAssumption DEF FinalResponse, Matches, TidOf, LiveStates
    <3>2. \/ /\ state' = [state EXCEPT !["req"] = "UACK"] /\ tclient' = tclient
             /\ armed' = [armed EXCEPT !["req"] = {"G"}]
          \/ /\ state' = state /\ tclient' \in {tclient, tclient \ {"req"}}
             /\ armed' = [armed EXCEPT !["req"] = {}]
      <4>1. armed["req"] \ StoppedTimers("req") = {}
        BY <3>1 DEF StoppedTimers
      <4>2. CASE method = "INVITE" /\ uack
        BY <2>3, <4>1, <4>2 DEF FinalResponse, KeepsAck
      <4>3. CASE ~(method = "INVITE" /\ uack)
        BY <2>3, <4>1, <4>3 DEF FinalResponse, KeepsAck
      <4> QED BY <4>2, <4>3
    <3> QED BY <3>1, <3>2
  <2>4. CASE CancelResponse(m)
    BY <2>4 DEF CancelResponse, LiveStates, StoppedTimers, TidOf, Matches
  <2> QED BY <2>1, <2>2, <2>3, <2>4
<1>6. ASSUME NEW t \in Tid, timerA(t) PROVE NoStrayTimer' /\ TimerStates'
  BY <1>6 DEF timerA
<1>7. ASSUME NEW t \in Tid, timerB(t) PROVE NoStrayTimer' /\ TimerStates'
  BY <1>7 DEF timerB
<1>8. ASSUME NEW t \in Tid, timerC(t) PROVE NoStrayTimer' /\ TimerStates'
  BY <1>8 DEF timerC
<1>9. CASE timerG
  BY <1>9 DEF timerG
<1>10. CASE rCachePurge
  BY <1>10 DEF rCachePurge, tm
<1>11. CASE UNCHANGED vars
  BY <1>11 DEF vars, tm
<1> QED BY <1>1, <1>2, <1>3, <1>4, <1>5, <1>6, <1>7, <1>8, <1>9, <1>10, <1>11
        DEF Next, Timer

\* A cancellation moves from asked to deferred to sent and no further.
LEMMA CancelStep == IInv /\ [Next]_vars => CancelStages' /\ CancelExactlyOnce'
<1> SUFFICES ASSUME IInv, [Next]_vars PROVE CancelStages' /\ CancelExactlyOnce'
  OBVIOUS
<1> USE DEF IInv, TypeOK, States, CancelStages, CancelExactlyOnce
<1>1. CASE newTransaction
  BY <1>1 DEF newTransaction, tu
<1>2. CASE cancelTransaction
  BY <1>2 DEF cancelTransaction, CancelNow, OpenCancel
<1>3. CASE sendACK
  BY <1>3 DEF sendACK
<1>4. ASSUME NEW m \in Resp, FarEndSends(m) PROVE CancelStages' /\ CancelExactlyOnce'
  BY <1>4 DEF FarEndSends, tm, tu
<1>5. ASSUME NEW m \in Resp, handleIncoming(m) PROVE CancelStages' /\ CancelExactlyOnce'
  <2> USE <1>5 DEF handleIncoming
  <2>1. CASE Repeated(m) \/ Unmatched(m) \/ Ignored(m)
    BY <2>1 DEF Repeated, Unmatched, Ignored, tm, tu
  <2>2. CASE ProvisionalResponse(m)
    BY <2>2 DEF ProvisionalResponse, ProvisionalStep, SendsDeferred, OpenCancel, LiveStates
  <2>3. CASE FinalResponse(m)
    BY <2>3 DEF FinalResponse, KeepsAck, LiveStates
  <2>4. CASE CancelResponse(m)
    BY <2>4 DEF CancelResponse, LiveStates, tu
  <2> QED BY <2>1, <2>2, <2>3, <2>4
<1>6. ASSUME NEW t \in Tid, timerA(t) PROVE CancelStages' /\ CancelExactlyOnce'
  BY <1>6 DEF timerA, tu
<1>7. ASSUME NEW t \in Tid, timerB(t) PROVE CancelStages' /\ CancelExactlyOnce'
  BY <1>7 DEF timerB, TimerStates
<1>8. ASSUME NEW t \in Tid, timerC(t) PROVE CancelStages' /\ CancelExactlyOnce'
  BY <1>8 DEF timerC, tu
<1>9. CASE timerG
  BY <1>9 DEF timerG, tu
<1>10. CASE rCachePurge
  BY <1>10 DEF rCachePurge, tm, tu
<1>11. CASE UNCHANGED vars
  BY <1>11 DEF vars, tm, tu
<1> QED BY <1>1, <1>2, <1>3, <1>4, <1>5, <1>6, <1>7, <1>8, <1>9, <1>10, <1>11
        DEF Next, Timer

\* The first invariant is inductive.
LEMMA IInvStep == IInv /\ [Next]_vars => IInv'
BY TypeStep, TimerStep, CancelStep DEF IInv

\* All variables stay in their types, for any responses and any far end.
THEOREM ClientTypeCorrect == Spec => []TypeOK
<1>1. IInv => TypeOK
  BY DEF IInv
<1> QED BY <1>1, InitIInv, IInvStep, PTL DEF Spec

\* No timer of SipTransactionManager outlives its client transaction, even if
\* the UA's callbacks raise.
THEOREM ClientNoStrayTimer == Spec => []NoStrayTimer
<1>1. IInv => NoStrayTimer
  BY DEF IInv
<1> QED BY <1>1, InitIInv, IInvStep, PTL DEF Spec

\* cancelTransaction() and the deferred path of incomingResponse() together
\* open the CANCEL exactly once, after a 1xx and without losing the request.
THEOREM ClientCancelExactlyOnce == Spec => []CancelExactlyOnce
<1>1. IInv => CancelExactlyOnce
  BY DEF IInv
<1> QED BY <1>1, InitIInv, IInvStep, PTL DEF Spec

-----------------------------------------------------------------------------
(* What holds as long as resp_cb returns normally.                         *)

LEMMA InitNoRaise == Init => IInvNoRaise
BY InitIInv, ClientAssumption
DEF Init, IInvNoRaise, FinalOnce, Reported, AckBeforeTold, AckCached, AckReplayed

\* Once resp_cb has raised, that stays known.
LEMMA NotRaisedBefore ==
    ASSUME [Next]_vars, ~raised'
    PROVE  ~raised
BY DEF Next, Timer, newTransaction, cancelTransaction, sendACK, FarEndSends,
       handleIncoming, Repeated, Unmatched, Ignored, ProvisionalResponse,
       FinalResponse, CancelResponse, timerA, timerB, timerC, timerG, rCachePurge,
       tu, vars

\* A live transaction has not reported, and a reported one does not again.
LEMMA ReportedStep ==
    ASSUME IInvNoRaise, [Next]_vars, ~raised'
    PROVE  FinalOnce' /\ Reported' /\ AckBeforeTold'
<1>0. ~raised
  BY NotRaisedBefore
<1> USE <1>0, ClientAssumption
    DEF IInvNoRaise, IInv, TypeOK, States, Answer, FinalOnce, Reported, AckBeforeTold
<1> DEFINE Goal == FinalOnce /\ Reported /\ AckBeforeTold
<1>1. CASE newTransaction
  BY <1>1 DEF newTransaction, tu
<1>2. CASE cancelTransaction
  BY <1>2 DEF cancelTransaction, CancelNow, OpenCancel
<1>3. CASE sendACK
  BY <1>3 DEF sendACK
<1>4. ASSUME NEW m \in Resp, FarEndSends(m) PROVE Goal'
  BY <1>4 DEF FarEndSends, tm, tu
<1>5. ASSUME NEW m \in Resp, handleIncoming(m) PROVE Goal'
  <2> USE <1>5 DEF handleIncoming
  <2>1. CASE Repeated(m) \/ Unmatched(m) \/ Ignored(m)
    BY <2>1 DEF Repeated, Unmatched, Ignored, tm, tu
  <2>2. CASE ProvisionalResponse(m)
    BY <2>2 DEF ProvisionalResponse, ProvisionalStep, SendsDeferred, OpenCancel,
                LiveStates, Matches, TidOf
  <2>3. CASE FinalResponse(m)
    <3>1. "req" \in tclient /\ state["req"] \in {"TRYING", "RINGING"} /\ m \in Final
      BY <2>3 DEF FinalResponse, Matches, TidOf, LiveStates
    <3>2. finals = 0 /\ ~uack
      BY <3>1
    <3>3. finals' = 1 /\ outcome' = m /\ state' = state
      BY <2>3, <3>2 DEF FinalResponse, KeepsAck, OneMore
    <3>4. tclient' = tclient \ {"req"}
      BY <2>3, <3>2 DEF FinalResponse, KeepsAck
    <3>5. method = "INVITE" => m \in acked'
      BY <2>3, <3>2 DEF FinalResponse, KeepsAck
    <3> QED BY <3>1, <3>3, <3>4, <3>5
  <2>4. CASE CancelResponse(m)
    BY <2>4 DEF CancelResponse, tu
  <2> QED BY <2>1, <2>2, <2>3, <2>4
<1>6. ASSUME NEW t \in Tid, timerA(t) PROVE Goal'
  BY <1>6 DEF timerA, tu
<1>7. ASSUME NEW t \in Tid, timerB(t) PROVE Goal'
  BY <1>7 DEF timerB, OneMore, TimerStates, NoStrayTimer
<1>8. ASSUME NEW t \in Tid, timerC(t) PROVE Goal'
  BY <1>8 DEF timerC, tu
<1>9. CASE timerG
  BY <1>9 DEF timerG, tu
<1>10. CASE rCachePurge
  BY <1>10 DEF rCachePurge, tm, tu
<1>11. CASE UNCHANGED vars
  BY <1>11 DEF vars, tm, tu
<1> QED BY <1>1, <1>2, <1>3, <1>4, <1>5, <1>6, <1>7, <1>8, <1>9, <1>10, <1>11
        DEF Next, Timer

\* The ACK of the reported response stays in the cache until it is two purges
\* old, and a copy of the response that arrives earlier is answered by it.
LEMMA CacheStep ==
    ASSUME IInvNoRaise, [Next]_vars, ~raised'
    PROVE  AckCached' /\ AckReplayed'
<1>0. ~raised
  BY NotRaisedBefore
<1> USE <1>0, ClientAssumption
    DEF IInvNoRaise, IInv, TypeOK, Cached, Answer, AckCached, AckReplayed, Lookup
<1> DEFINE Goal == AckCached /\ AckReplayed
<1>1. CASE newTransaction \/ cancelTransaction \/ sendACK
  BY <1>1 DEF newTransaction, cancelTransaction, sendACK, OpenCancel, rc, far, tu
<1>2. ASSUME NEW m \in Resp, FarEndSends(m) PROVE Goal'
  BY <1>2 DEF FarEndSends, rc, tu
<1>3. ASSUME NEW m \in Resp, handleIncoming(m) PROVE Goal'
  <2> USE <1>3 DEF handleIncoming, far
  <2>1. CASE Repeated(m)
    BY <2>1 DEF Repeated, rc, tu
  <2>2. CASE Unmatched(m)
    BY <2>2 DEF Unmatched, tu
  <2>3. CASE Ignored(m)
    BY <2>3 DEF Ignored, Matches, rc, tu
  <2>4. CASE ProvisionalResponse(m)
    BY <2>4 DEF ProvisionalResponse
  <2>5. CASE FinalResponse(m)
    <3>1. ~uack /\ m \in Final
      BY <2>5 DEF FinalResponse, Matches, TidOf, LiveStates, Reported
    <3>2. outcome' = m /\ rcv' = m
      BY <2>5 DEF FinalResponse
    <3>3. method = "INVITE" => l1rcache'[m] = "ack" /\ "ACK" \in snd'
      BY <2>5, <3>1 DEF FinalResponse, KeepsAck
    <3> QED BY <3>1, <3>2, <3>3
  <2>6. CASE CancelResponse(m)
    BY <2>6 DEF CancelResponse, tu
  <2> QED BY <2>1, <2>2, <2>3, <2>4, <2>5, <2>6
<1>4. ASSUME NEW t \in Tid, timerA(t) \/ timerB(t) \/ timerC(t) \/ timerG PROVE Goal'
  BY <1>4 DEF timerA, timerB, timerC, timerG, rc, far, tu
<1>5. CASE rCachePurge
  BY <1>5 DEF rCachePurge, OldGeneration, tu
<1>6. CASE UNCHANGED vars
  BY <1>6 DEF vars, rc, far, tu
<1> QED BY <1>1, <1>2, <1>3, <1>4, <1>5, <1>6 DEF Next, Timer

LEMMA NoRaiseStep == IInvNoRaise /\ [Next]_vars => IInvNoRaise'
<1> SUFFICES ASSUME IInvNoRaise, [Next]_vars PROVE IInvNoRaise'
  OBVIOUS
<1>1. IInv'
  BY IInvStep DEF IInvNoRaise
<1>2. CASE ~raised'
  BY <1>1, <1>2, ReportedStep, CacheStep DEF IInvNoRaise
<1>3. CASE raised'
  BY <1>1, <1>3 DEF IInvNoRaise, FinalOnce, AckBeforeTold, AckReplayed
<1> QED BY <1>2, <1>3

\* resp_cb is given one final answer at most, whatever the far end sends.
THEOREM ClientFinalOnce == Spec => []FinalOnce
<1>1. IInvNoRaise => FinalOnce
  BY DEF IInvNoRaise
<1> QED BY <1>1, InitNoRaise, NoRaiseStep, PTL DEF Spec

\* The ACK precedes the UA's knowledge of the response.
THEOREM ClientAckBeforeTold == Spec => []AckBeforeTold
<1>1. IInvNoRaise => AckBeforeTold
  BY DEF IInvNoRaise
<1> QED BY <1>1, InitNoRaise, NoRaiseStep, PTL DEF Spec

\* The retransmission cache re-sends the ACK for as long as it is needed.
THEOREM ClientAckReplayed == Spec => []AckReplayed
<1>1. IInvNoRaise => AckReplayed
  BY DEF IInvNoRaise
<1> QED BY <1>1, InitNoRaise, NoRaiseStep, PTL DEF Spec

\* The UA is told one outcome, and of an answered INVITE after its ACK has gone out.
THEOREM ClientToldOnce == Spec => []ToldOnce
<1>1. FinalOnce /\ AckBeforeTold => ToldOnce
  BY DEF ToldOnce
<1> QED BY <1>1, ClientFinalOnce, ClientAckBeforeTold, PTL

\* The CANCEL goes out exactly once and no timer is left behind, whatever resp_cb does.
THEOREM ClientKeptDespiteRaise == Spec => []KeptDespiteRaise
<1>1. CancelExactlyOnce /\ NoStrayTimer => KeptDespiteRaise
  BY DEF KeptDespiteRaise
<1> QED BY <1>1, ClientCancelExactlyOnce, ClientNoStrayTimer, PTL

-----------------------------------------------------------------------------
(* The client of the RTP proxy.                                            *)

Command == [kind : Kinds, next_retr : Nat, triesleft : Int]
Fields  == [online : BOOLEAN, caps_done : BOOLEAN, shut_down : BOOLEAN,
            caps_left : 0..Cardinality(Caps), watched : BOOLEAN]

WatchTimers == [fn : {"heartbeat", "version_check"}, left : 0..RetrIval]

ClientStates ==
    [net : SUBSET Cookies, pending : UNION {[C -> Command] : C \in SUBSET Cookies},
     timers : UNION {[C -> Nat] : C \in SUBSET Cookies},
     watch : Seq(WatchTimers), st : Fields,
     owed : [Calls -> Int], failed : BOOLEAN]

Of(pd, K)  == {c \in DOMAIN pd : pd[c].kind \in K}
For(w, fn) == {i \in DOMAIN w : w[i].fn = fn}
One(k, X)  == IF k \in X THEN 1 ELSE 0

\* The commands of X are about to be sent, or their replies are being handled: they
\* are in the accounts and not in pending_requests.
Kept(s) == s \in ClientStates /\ ~s.failed /\ DOMAIN s.timers = DOMAIN s.pending

Owed(s, X) ==
    \A u \in Calls : /\ s.owed[u] \in {0, 1}
                     /\ s.owed[u] = Cardinality(Of(s.pending, {u})) + One(u, X)

ChecksOf(s, X) == Cardinality(Of(s.pending, {"V"})) + One("V", X)
                  + Cardinality(For(s.watch, "version_check"))
                  + (IF s.st.caps_left > 0 THEN 1 ELSE 0)
BeatsOf(s, X)  == Cardinality(Of(s.pending, {"Ib"})) + One("Ib", X)
                  + Cardinality(For(s.watch, "heartbeat"))

\* One chain of checks off line, which a heartbeat that is still going on does not
\* survive; on line one chain of heartbeats.
Chains(s, X) ==
    /\ s.st.caps_left = Cardinality(Of(s.pending, Caps)) + Cardinality(X \cap Caps)
    /\ s.st.caps_done => s.st.caps_left = 0
    /\ BeatsOf(s, X) <= 1
    /\ ~s.st.shut_down =>
          /\ ChecksOf(s, X) = (IF s.st.online THEN 0 ELSE 1)
          /\ s.st.online /\ s.st.watched => BeatsOf(s, X) = 1
          /\ ~s.st.online /\ For(s.watch, "version_check") = {} => BeatsOf(s, X) = 0

\* How long a command may still be in flight.
Remaining(p, t) == t + (IF p.triesleft > 0 THEN 2 * (p.next_retr * (Pow[p.triesleft] - 1)) ELSE 0)

\* A heartbeat is over before the version check that may bring the proxy back.
Timely(s) ==
    /\ \A c \in Of(s.pending, {"Ib"}) : \E t \in BeatLives : Remaining(s.pending[c], s.timers[c]) <= t
    /\ \A j \in For(s.watch, "heartbeat") : s.watch[j].left <= HrtbIval
    /\ \A i \in For(s.watch, "version_check") :
          /\ \A j \in For(s.watch, "heartbeat") : \A t \in BeatLives : s.watch[j].left + t < s.watch[i].left
          /\ \A c \in Of(s.pending, {"Ib"}) : Remaining(s.pending[c], s.timers[c]) < s.watch[i].left

Accounts(s, X) == Kept(s) /\ Owed(s, X) /\ Chains(s, X) /\ Timely(s)

-----------------------------------------------------------------------------
(* Powers of two, and the number of tries.                                 *)

\* What a set of numbers has is a least element.
LEMMA LeastNumber ==
    ASSUME NEW T, T \subseteq Nat, T # {}
    PROVE  \E x \in T : \A y \in T : x <= y
<1> DEFINE R == OpToRel(<, Nat)
<1>1. IsWellFoundedOn(R, Nat)
  BY NatLessThanWellFounded
<1>2. \A x, y \in Nat : x < y => <<x, y>> \in R
  BY DEF OpToRel
<1> HIDE DEF R
<1>3. PICK x \in T : \A y \in T : ~(<<y, x>> \in R)
  BY <1>1, WFMin
<1>4. \A y \in T : ~(y < x)
  BY <1>2, <1>3
<1> QED BY <1>4

\* The first n powers.
PowTo(n, p) == /\ p \in [0..n -> Nat] /\ p[0] = 1
               /\ \A i \in 1..n : p[i] = 2 * p[i - 1]

LEMMA PowsExist == \A n \in Nat : \E p : PowTo(n, p)
<1> DEFINE T == {n \in Nat : ~\E p : PowTo(n, p)}
<1> SUFFICES ASSUME T # {} PROVE FALSE
  OBVIOUS
<1>1. PICK n \in T : \A m \in T : n <= m
  BY LeastNumber
<1>2. n # 0
  <2> DEFINE p == [i \in 0..0 |-> 1]
  <2>1. PowTo(0, p)
    BY DEF PowTo
  <2> QED BY <2>1
<1>3. n - 1 \in Nat /\ n - 1 \notin T
  BY <1>1, <1>2
<1>4. PICK p : PowTo(n - 1, p)
  BY <1>3
<1> DEFINE q == [i \in 0..n |-> IF i = n THEN 2 * p[n - 1] ELSE p[i]]
<1>5. p \in [0..(n - 1) -> Nat] /\ p[0] = 1 /\ \A i \in 1..(n - 1) : p[i] = 2 * p[i - 1]
  BY <1>4 DEF PowTo
<1>6. q \in [0..n -> Nat] /\ q[0] = 1
  BY <1>2, <1>3, <1>5
<1>7. ASSUME NEW i \in 1..n PROVE q[i] = 2 * q[i - 1]
  <2>1. i - 1 \in 0..n /\ i - 1 # n
    BY <1>3
  <2>2. q[i - 1] = p[i - 1]
    BY <2>1
  <2> QED BY <1>3, <1>5, <2>2
<1>8. PowTo(n, q)
  BY <1>6, <1>7 DEF PowTo
<1> QED BY <1>8

LEMMA PowsAgree ==
    ASSUME NEW n \in Nat, NEW m \in Nat, NEW p, NEW q, PowTo(n, p), PowTo(m, q),
           NEW i \in Nat, i <= n, i <= m
    PROVE  p[i] = q[i]
<1> DEFINE T == {j \in Nat : j <= n /\ j <= m /\ p[j] # q[j]}
<1> SUFFICES ASSUME T # {} PROVE FALSE
  OBVIOUS
<1>1. PICK j \in T : \A k \in T : j <= k
  BY LeastNumber
<1>2. j # 0
  BY DEF PowTo
<1>3. j - 1 \in Nat /\ j - 1 \notin T
  BY <1>1, <1>2
<1>4. p[j] = 2 * p[j - 1] /\ q[j] = 2 * q[j - 1]
  BY <1>2 DEF PowTo
<1> QED BY <1>3, <1>4

\* Pow is what its equation says.
LEMMA PowEquation == /\ Pow[0] = 1
                     /\ \A n \in Nat : Pow[n + 1] = 2 * Pow[n] /\ Pow[n] \in Nat \ {0} /\ Pow[n] > n
<1> DEFINE g == [n \in Nat |-> (CHOOSE z : PowTo(n, z))[n]]
           Eq(f) == f = [n \in Nat |-> IF n = 0 THEN 1 ELSE 2 * f[n - 1]]
<1>1. ASSUME NEW n \in Nat PROVE PowTo(n, CHOOSE z : PowTo(n, z))
  BY PowsExist
<1>2. ASSUME NEW n \in Nat PROVE g[n] = IF n = 0 THEN 1 ELSE 2 * g[n - 1]
  <2> DEFINE p == CHOOSE z : PowTo(n, z)
             q == CHOOSE z : PowTo(n - 1, z)
  <2>1. CASE n = 0
    BY <1>1, <2>1 DEF PowTo
  <2>2. CASE n # 0
    <3>1. n - 1 \in Nat
      BY <2>2
    <3>2. PowTo(n, p) /\ PowTo(n - 1, q)
      BY <1>1, <3>1
    <3>3. g[n] = p[n] /\ g[n - 1] = q[n - 1]
      BY <3>1
    <3> HIDE DEF p, q, g
    <3>4. p[n - 1] = q[n - 1]
      BY <3>1, <3>2, PowsAgree
    <3>5. p[n] = 2 * p[n - 1]
      BY <3>2, <2>2 DEF PowTo
    <3> QED BY <2>2, <3>3, <3>4, <3>5
  <2> QED BY <2>1, <2>2
<1>3. Eq(g)
  <2>1. \A n \in Nat : g[n] = IF n = 0 THEN 1 ELSE 2 * g[n - 1]
    BY <1>2
  <2>2. g = [n \in Nat |-> g[n]]
    OBVIOUS
  <2> HIDE DEF g
  <2> QED BY <2>1, <2>2
<1>4. Pow = CHOOSE f : Eq(f)
  BY DEF Pow
<1>5. Eq(Pow)
  <2> HIDE DEF Eq, g
  <2> QED BY <1>3, <1>4
<1>6. \A n \in Nat : Pow[n] = IF n = 0 THEN 1 ELSE 2 * Pow[n - 1]
  BY <1>5
<1> HIDE DEF Eq, g
<1>7. \A n \in Nat : Pow[n] \in Nat \ {0} /\ Pow[n] > n
  <2> DEFINE T == {n \in Nat : ~(Pow[n] \in Nat \ {0} /\ Pow[n] > n)}
  <2> SUFFICES ASSUME T # {} PROVE FALSE
    OBVIOUS
  <2>1. PICK n \in T : \A m \in T : n <= m
    BY LeastNumber
  <2>2. n # 0
    BY <1>6
  <2>3. n - 1 \in Nat /\ n - 1 \notin T
    BY <2>1, <2>2
  <2>4. Pow[n] = 2 * Pow[n - 1]
    BY <1>6, <2>2
  <2> QED BY <2>3, <2>4
<1> QED BY <1>6, <1>7

\* What getnretrans() finds: so many tries take no longer than the time there is.
LEMMA TriesFit ==
    ASSUME NEW f \in Nat \ {0}, NEW t \in Nat
    PROVE  LET n == getnretrans(f, t) IN n \in 0..t /\ f * (Pow[n] - 1) <= t
<1> DEFINE T == {n \in Nat : t < f * (Pow[n] - 1)}
<1>1. t + 1 \in T
  <2>1. Pow[t + 1] \in Nat /\ Pow[t + 1] > t + 1
    BY PowEquation
  <2> DEFINE w == Pow[t + 1] - 1
  <2>2. w \in Nat /\ w > t
    BY <2>1
  <2> HIDE DEF w
  <2>3. f * w >= w
    BY <2>2
  <2>4. t < f * w
    BY <2>2, <2>3
  <2> QED BY <2>4 DEF w
<1>2. PICK m \in T : \A k \in T : m <= k
  BY <1>1, LeastNumber
<1>3. m # 0
  BY PowEquation
<1> DEFINE n == m - 1
<1>4. n \in Nat /\ n \notin T /\ m = n + 1 /\ n <= t
  BY <1>1, <1>2, <1>3
<1> DEFINE a == f * (Pow[n] - 1)
<1>5. a \in Int
  BY <1>4, PowEquation
<1>6. a <= t
  BY <1>4, <1>5
<1>7. TimeOfTries(f, n) <= t /\ t < TimeOfTries(f, n + 1)
  BY <1>2, <1>4, <1>6 DEF TimeOfTries
<1>8. n \in 0..t
  BY <1>4
<1> HIDE DEF n, T, a
<1> DEFINE P(k) == TimeOfTries(f, k) <= t /\ t < TimeOfTries(f, k + 1)
<1>9. getnretrans(f, t) = CHOOSE k \in 0..t : P(k)
  BY DEF getnretrans
<1>10. P(n)
  BY <1>7
<1> HIDE DEF P
<1>11. getnretrans(f, t) \in 0..t /\ P(getnretrans(f, t))
  BY <1>8, <1>9, <1>10
<1> QED BY <1>11 DEF P, TimeOfTries
-----------------------------------------------------------------------------
(* Commands in flight and timers of the watch, counted.                    *)

LEMMA OfIsFinite ==
    ASSUME NEW pd, DOMAIN pd \subseteq Cookies, NEW K
    PROVE  IsFiniteSet(Of(pd, K)) /\ Cardinality(Of(pd, K)) \in Nat
           /\ (Cardinality(Of(pd, K)) = 0 <=> Of(pd, K) = {})
<1>1. IsFiniteSet(Cookies)
  BY RtppClientAssumption
<1>2. Of(pd, K) \in SUBSET Cookies
  BY DEF Of
<1> HIDE DEF Of
<1>3. IsFiniteSet(Of(pd, K))
  BY <1>1, <1>2, FS_Subset
<1> QED BY <1>3, FS_CardinalityType, FS_EmptySet

LEMMA OfDropped ==
    ASSUME NEW pd, DOMAIN pd \subseteq Cookies, NEW K, NEW c \in DOMAIN pd
    PROVE  /\ Of(Drop(pd, c), K) = Of(pd, K) \ {c}
           /\ Cardinality(Of(pd, K)) = Cardinality(Of(Drop(pd, c), K)) + One(pd[c].kind, K)
<1>1. Of(Drop(pd, c), K) = Of(pd, K) \ {c}
  BY DEF Of, Drop
<1>2. IsFiniteSet(Of(pd, K)) /\ Cardinality(Of(pd, K)) \in Nat
  BY OfIsFinite
<1>3. c \in Of(pd, K) <=> pd[c].kind \in K
  BY DEF Of
<1> HIDE DEF Of
<1>4. Cardinality(Of(pd, K) \ {c})
        = IF c \in Of(pd, K) THEN Cardinality(Of(pd, K)) - 1 ELSE Cardinality(Of(pd, K))
  BY <1>2, FS_RemoveElement
<1> QED BY <1>1, <1>2, <1>3, <1>4 DEF One

LEMMA ForIsFinite ==
    ASSUME NEW S, NEW w \in Seq(S), NEW fn
    PROVE  IsFiniteSet(For(w, fn)) /\ Cardinality(For(w, fn)) \in Nat
           /\ (Cardinality(For(w, fn)) = 0 <=> For(w, fn) = {})
<1>1. IsFiniteSet(1..Len(w))
  BY FS_Interval
<1>2. For(w, fn) \in SUBSET (1..Len(w))
  BY DEF For
<1> HIDE DEF For
<1>3. IsFiniteSet(For(w, fn))
  BY <1>1, <1>2, FS_Subset
<1> QED BY <1>3, FS_CardinalityType, FS_EmptySet

LEMMA ForAppended ==
    ASSUME NEW S, NEW w \in Seq(S), NEW e \in S, NEW fn
    PROVE  Cardinality(For(Append(w, e), fn)) = Cardinality(For(w, fn)) + (IF e.fn = fn THEN 1 ELSE 0)
<1> DEFINE n == Len(w) + 1
<1>1. For(Append(w, e), fn) = IF e.fn = fn THEN For(w, fn) \cup {n} ELSE For(w, fn)
  BY DEF For
<1>2. n \notin For(w, fn)
  BY DEF For
<1>3. IsFiniteSet(For(w, fn)) /\ Cardinality(For(w, fn)) \in Nat
  BY ForIsFinite
<1> HIDE DEF n, For
<1>4. Cardinality(For(w, fn) \cup {n}) = Cardinality(For(w, fn)) + 1
  BY <1>2, <1>3, FS_AddElement
<1> QED BY <1>1, <1>3, <1>4

LEMMA Removed ==
    ASSUME NEW S, NEW w \in Seq(S), NEW i \in DOMAIN w
    PROVE  /\ RemoveAt(w, i) \in Seq(S) /\ Len(RemoveAt(w, i)) = Len(w) - 1
           /\ \A j \in 1..(Len(w) - 1) : RemoveAt(w, i)[j] = IF j < i THEN w[j] ELSE w[j + 1]
<1> DEFINE a == SubSeq(w, 1, i - 1)
           b == SubSeq(w, i + 1, Len(w))
<1>0. Len(w) \in Nat /\ i \in 1..Len(w)
  OBVIOUS
<1>1. a \in Seq(S) /\ Len(a) = i - 1 /\ \A j \in 1..(i - 1) : a[j] = w[j]
  BY <1>0
<1>2. b \in Seq(S) /\ Len(b) = Len(w) - i /\ \A j \in 1..(Len(w) - i) : b[j] = w[i + j]
  BY <1>0
<1>3. RemoveAt(w, i) = a \o b
  BY DEF RemoveAt
<1> HIDE DEF a, b
<1>4. a \o b \in Seq(S) /\ Len(a \o b) = Len(a) + Len(b)
      /\ \A j \in 1..(Len(a) + Len(b)) : (a \o b)[j] = IF j <= Len(a) THEN a[j] ELSE b[j - Len(a)]
  BY <1>1, <1>2, ConcatProperties
<1>5. ASSUME NEW j \in 1..(Len(w) - 1)
      PROVE  (a \o b)[j] = IF j < i THEN w[j] ELSE w[j + 1]
  <2>1. CASE j < i
    BY <2>1, <1>0, <1>1, <1>2, <1>4
  <2>2. CASE ~(j < i)
    <3>1. (a \o b)[j] = b[j - (i - 1)]
      <4>1. j \in 1..(Len(a) + Len(b)) /\ ~(j <= Len(a)) /\ Len(a) = i - 1
        BY <2>2, <1>0, <1>1, <1>2
      <4>2. (a \o b)[j] = b[j - Len(a)]
        BY <4>1, <1>4
      <4> QED BY <4>1, <4>2
    <3>2. j - (i - 1) \in 1..(Len(w) - i) /\ i + (j - (i - 1)) = j + 1
      BY <2>2, <1>0
    <3>3. b[j - (i - 1)] = w[i + (j - (i - 1))]
      BY <3>2, <1>2
    <3> QED BY <2>2, <3>1, <3>2, <3>3
  <2> QED BY <2>1, <2>2
<1>6. Len(a \o b) = Len(w) - 1
  BY <1>0, <1>1, <1>2, <1>4
<1> QED BY <1>3, <1>4, <1>5, <1>6

\* Every timer that is left was there, and one of its kind less.
LEMMA ForRemoved ==
    ASSUME NEW S, NEW w \in Seq(S), NEW i \in DOMAIN w, NEW fn
    PROVE  /\ \A j \in For(RemoveAt(w, i), fn) : \E k \in For(w, fn) : k # i /\ RemoveAt(w, i)[j] = w[k]
           /\ Cardinality(For(w, fn))
                = Cardinality(For(RemoveAt(w, i), fn)) + (IF w[i].fn = fn THEN 1 ELSE 0)
<1> DEFINE v == RemoveAt(w, i)
           A == For(v, fn)
           B == For(w, fn) \ {i}
           to(j) == IF j < i THEN j ELSE j + 1
           h == [j \in A |-> to(j)]
<1>0. Len(w) \in Nat /\ i \in 1..Len(w) /\ DOMAIN w = 1..Len(w)
  OBVIOUS
<1>1. v \in Seq(S) /\ Len(v) = Len(w) - 1
      /\ \A j \in 1..(Len(w) - 1) : v[j] = IF j < i THEN w[j] ELSE w[j + 1]
  BY Removed
<1>2. DOMAIN v = 1..(Len(w) - 1)
  BY <1>1
<1> HIDE DEF v
<1>3. \A j \in A : j \in 1..(Len(w) - 1) /\ to(j) \in B /\ v[j] = w[to(j)] /\ to(j) # i
  BY <1>0, <1>1, <1>2 DEF For
<1>4. \A k \in B : \E j \in A : to(j) = k
  <2> SUFFICES ASSUME NEW k \in B PROVE \E j \in A : to(j) = k
    OBVIOUS
  <2> DEFINE j == IF k < i THEN k ELSE k - 1
  <2>1. k \in 1..Len(w) /\ k # i /\ w[k].fn = fn
    BY <1>0 DEF For
  <2>2. j \in 1..(Len(w) - 1) /\ to(j) = k
    BY <2>1, <1>0
  <2>3. v[j] = w[k]
    BY <2>1, <2>2, <1>1
  <2>4. j \in A
    BY <2>1, <2>2, <2>3, <1>2 DEF For
  <2> QED BY <2>2, <2>4
<1>5. h \in Bijection(A, B)
  <2>1. h \in [A -> B]
    BY <1>3
  <2>2. \A a, b \in A : h[a] = h[b] => a = b
    BY <1>3
  <2>3. \A k \in B : \E j \in A : h[j] = k
    BY <1>4
  <2> HIDE DEF h, A, B
  <2>4. h \in Injection(A, B)
    BY <2>1, <2>2 DEF Injection, IsInjective
  <2>5. h \in Surjection(A, B)
    BY <2>1, <2>3 DEF Surjection
  <2> QED BY <2>4, <2>5 DEF Bijection
<1>6. IsFiniteSet(A) /\ Cardinality(A) \in Nat
  BY <1>1, ForIsFinite
<1>7. Cardinality(B) = Cardinality(A)
  <2> HIDE DEF h, A, B
  <2>1. ExistsBijection(A, B)
    BY <1>5 DEF ExistsBijection
  <2> QED BY <1>6, <2>1, FS_Bijection
<1>8. IsFiniteSet(For(w, fn)) /\ Cardinality(For(w, fn)) \in Nat
  BY ForIsFinite
<1>9. Cardinality(B) = IF i \in For(w, fn) THEN Cardinality(For(w, fn)) - 1 ELSE Cardinality(For(w, fn))
  BY <1>8, FS_RemoveElement
<1>10. i \in For(w, fn) <=> w[i].fn = fn
  BY DEF For
<1>11. Cardinality(For(w, fn)) = Cardinality(A) + (IF w[i].fn = fn THEN 1 ELSE 0)
  BY <1>6, <1>7, <1>8, <1>9, <1>10
<1> QED BY <1>3, <1>11 DEF v

-----------------------------------------------------------------------------
(* The state as a record.                                                  *)

Rec(n, pd, tms, w, f, o) ==
    [net |-> n, pending |-> pd, timers |-> tms, watch |-> w, st |-> f, owed |-> o, failed |-> FALSE]

RecOf(n, pd, tms, w, f, o, b) ==
    [net |-> n, pending |-> pd, timers |-> tms, watch |-> w, st |-> f, owed |-> o, failed |-> b]

LEMMA KeptIs ==
    ASSUME NEW s, Kept(s)
    PROVE  /\ s = Rec(s.net, s.pending, s.timers, s.watch, s.st, s.owed)
           /\ s.net \subseteq Cookies /\ DOMAIN s.pending \subseteq Cookies
           /\ s.pending \in [DOMAIN s.pending -> Command] /\ s.timers \in [DOMAIN s.pending -> Nat]
           /\ s.watch \in Seq(WatchTimers) /\ s.st \in Fields /\ s.owed \in [Calls -> Int]
<1>1. s \in ClientStates /\ ~s.failed /\ DOMAIN s.timers = DOMAIN s.pending
  BY DEF Kept
<1>2. /\ s.net \subseteq Cookies /\ s.watch \in Seq(WatchTimers) /\ s.st \in Fields
      /\ s.owed \in [Calls -> Int] /\ s.failed = FALSE
  BY <1>1 DEF ClientStates
<1>3. PICK C \in SUBSET Cookies : s.pending \in [C -> Command]
  BY <1>1 DEF ClientStates
<1>4. PICK D \in SUBSET Cookies : s.timers \in [D -> Nat]
  BY <1>1 DEF ClientStates
<1>5. s = Rec(s.net, s.pending, s.timers, s.watch, s.st, s.owed)
  BY <1>1, <1>2 DEF Rec, ClientStates
<1>6. C = DOMAIN s.pending /\ D = DOMAIN s.pending
  BY <1>1, <1>3, <1>4
<1> QED BY <1>2, <1>3, <1>4, <1>5, <1>6

LEMMA KeptSet ==
    ASSUME NEW s, Kept(s), NEW x
    PROVE  /\ [s EXCEPT !.net = x] = Rec(x, s.pending, s.timers, s.watch, s.st, s.owed)
           /\ [s EXCEPT !.pending = x] = Rec(s.net, x, s.timers, s.watch, s.st, s.owed)
           /\ [s EXCEPT !.timers = x] = Rec(s.net, s.pending, x, s.watch, s.st, s.owed)
           /\ [s EXCEPT !.watch = x] = Rec(s.net, s.pending, s.timers, x, s.st, s.owed)
           /\ [s EXCEPT !.st = x] = Rec(s.net, s.pending, s.timers, s.watch, x, s.owed)
           /\ [s EXCEPT !.owed = x] = Rec(s.net, s.pending, s.timers, s.watch, s.st, x)
<1>1. PICK n, pd, tms, w, f, o : s = Rec(n, pd, tms, w, f, o)
  BY KeptIs
<1>2. /\ s.net = n /\ s.pending = pd /\ s.timers = tms /\ s.watch = w /\ s.st = f /\ s.owed = o
  BY <1>1 DEF Rec
<1>3. PICK b : b = FALSE
  OBVIOUS
<1>4. \A v, pe, ti, wa, sf, ow : Rec(v, pe, ti, wa, sf, ow) = RecOf(v, pe, ti, wa, sf, ow, b)
  BY <1>3 DEF Rec, RecOf
<1>5. s = RecOf(n, pd, tms, w, f, o, b)
  BY <1>1, <1>4
<1>6. /\ [s EXCEPT !.net = x] = RecOf(x, pd, tms, w, f, o, b)
      /\ [s EXCEPT !.pending = x] = RecOf(n, x, tms, w, f, o, b)
      /\ [s EXCEPT !.timers = x] = RecOf(n, pd, x, w, f, o, b)
      /\ [s EXCEPT !.watch = x] = RecOf(n, pd, tms, x, f, o, b)
      /\ [s EXCEPT !.st = x] = RecOf(n, pd, tms, w, x, o, b)
      /\ [s EXCEPT !.owed = x] = RecOf(n, pd, tms, w, f, x, b)
  BY <1>5 DEF RecOf
<1> QED BY <1>2, <1>4, <1>6

LEMMA RecIsKept ==
    ASSUME NEW n, n \subseteq Cookies, NEW pd, DOMAIN pd \subseteq Cookies,
           pd \in [DOMAIN pd -> Command], NEW tms, tms \in [DOMAIN pd -> Nat],
           NEW w \in Seq(WatchTimers), NEW f \in Fields, NEW o \in [Calls -> Int]
    PROVE  Kept(Rec(n, pd, tms, w, f, o))
<1> DEFINE s == Rec(n, pd, tms, w, f, o)
<1>1. pd \in UNION {[C -> Command] : C \in SUBSET Cookies}
  OBVIOUS
<1>2. tms \in UNION {[C -> Nat] : C \in SUBSET Cookies}
  OBVIOUS
<1>3. DOMAIN tms = DOMAIN pd
  OBVIOUS
<1> QED BY <1>1, <1>2, <1>3 DEF Kept, Rec, ClientStates

\* Sums of a few numbers.
LEMMA ChainsCount ==
    ASSUME NEW s, Kept(s)
    PROVE  /\ \A K : /\ IsFiniteSet(Of(s.pending, K)) /\ Cardinality(Of(s.pending, K)) \in Nat
                     /\ (Cardinality(Of(s.pending, K)) = 0 <=> Of(s.pending, K) = {})
           /\ \A fn : /\ IsFiniteSet(For(s.watch, fn)) /\ Cardinality(For(s.watch, fn)) \in Nat
                      /\ (Cardinality(For(s.watch, fn)) = 0 <=> For(s.watch, fn) = {})
           /\ s.st.caps_left \in Nat
<1>1. DOMAIN s.pending \subseteq Cookies /\ s.watch \in Seq(WatchTimers) /\ s.st \in Fields
  BY KeptIs
<1>2. IsFiniteSet(Caps)
  BY RtppClientAssumption
<1>3. Cardinality(Caps) \in Nat
  BY <1>2, FS_CardinalityType
<1>4. s.st.caps_left \in Nat
  BY <1>1, <1>3 DEF Fields
<1> QED BY <1>1, <1>4, OfIsFinite, ForIsFinite

-----------------------------------------------------------------------------
(* Commands are sent.                                                      *)

\* Each of these commands has a cookie.
Names(g, K) == /\ DOMAIN g \subseteq Cookies /\ g \in [DOMAIN g -> K]
               /\ \A k \in K : Cardinality({c \in DOMAIN g : g[c] = k}) = 1

LEMMA FreshIs ==
    ASSUME NEW s, Kept(s), NEW K, NEW g \in Fresh(s, K)
    PROVE  Names(g, K) /\ DOMAIN g \cap DOMAIN s.pending = {}
<1> DEFINE free  == Cookies \ (DOMAIN s.pending \cup DOMAIN s.timers)
           spare == {C \in SUBSET free : C \cap s.net = {} \/ free \ s.net \subseteq C}
<1>1. /\ g \in UNION {[C -> K] : C \in spare}
      /\ \A k \in K : Cardinality({c \in DOMAIN g : g[c] = k}) = 1
  BY DEF Fresh
<1>2. PICK C \in spare : g \in [C -> K]
  BY <1>1
<1>3. DOMAIN g = C /\ C \subseteq free
  BY <1>2
<1> QED BY <1>1, <1>2, <1>3 DEF Names

\* As many commands of each kind are sent as there are of them in K.
LEMMA AllSent ==
    ASSUME NEW K, NEW g, Names(g, K), NEW L
    PROVE  Cardinality({c \in DOMAIN g : g[c] \in L}) = Cardinality(K \cap L)
<1> USE DEF Names
<1> DEFINE A == {c \in DOMAIN g : g[c] \in L}
           B == K \cap L
           h == [c \in A |-> g[c]]
           With(k) == {c \in DOMAIN g : g[c] = k}
<1>1. IsFiniteSet(Cookies)
  BY RtppClientAssumption
<1>2. \A k : With(k) \in SUBSET Cookies
  OBVIOUS
<1>3. \A k \in K : IsFiniteSet(With(k)) /\ \E x : With(k) = {x}
  <2> SUFFICES ASSUME NEW k \in K PROVE IsFiniteSet(With(k)) /\ \E x : With(k) = {x}
    OBVIOUS
  <2>1. Cardinality(With(k)) = 1
    OBVIOUS
  <2>2. With(k) \in SUBSET Cookies
    BY <1>2
  <2> HIDE DEF With
  <2>3. IsFiniteSet(With(k))
    BY <1>1, <2>2, FS_Subset
  <2> QED BY <2>1, <2>3, FS_Singleton
<1>4. h \in [A -> B]
  OBVIOUS
<1>5. \A a, b \in A : h[a] = h[b] => a = b
  <2> SUFFICES ASSUME NEW a \in A, NEW b \in A, h[a] = h[b] PROVE a = b
    OBVIOUS
  <2>1. a \in With(g[a]) /\ b \in With(g[a]) /\ g[a] \in K
    OBVIOUS
  <2>2. PICK x : With(g[a]) = {x}
    BY <1>3, <2>1
  <2> HIDE DEF With
  <2> QED BY <2>1, <2>2
<1>6. \A k \in B : \E a \in A : h[a] = k
  <2> SUFFICES ASSUME NEW k \in B PROVE \E a \in A : h[a] = k
    OBVIOUS
  <2>1. PICK x : With(k) = {x}
    BY <1>3
  <2>2. x \in With(k)
    BY <2>1
  <2>3. x \in A /\ h[x] = k
    BY <2>2
  <2> QED BY <2>3
<1>7. A \in SUBSET Cookies
  OBVIOUS
<1> HIDE DEF A, B, h
<1>8. h \in Bijection(A, B)
  BY <1>4, <1>5, <1>6 DEF Bijection, Injection, Surjection, IsInjective
<1>9. ExistsBijection(A, B)
  BY <1>8 DEF ExistsBijection
<1>10. IsFiniteSet(A)
  BY <1>1, <1>7, FS_Subset
<1>11. Cardinality(A) = Cardinality(B)
  BY <1>9, <1>10, FS_Bijection
<1> QED BY <1>11 DEF A, B

LEMMA SentOf ==
    ASSUME NEW pd, NEW g, DOMAIN g \cap DOMAIN pd = {}, NEW L, NEW f, NEW exp
    PROVE  Of(Sent(pd, g, f, exp), L) = Of(pd, L) \cup {c \in DOMAIN g : g[c] \in L}
BY DEF Of, Sent

LEMMA SentCount ==
    ASSUME NEW pd, DOMAIN pd \subseteq Cookies, NEW K, NEW g, Names(g, K),
           DOMAIN g \cap DOMAIN pd = {}, NEW L, NEW f, NEW exp
    PROVE  Cardinality(Of(Sent(pd, g, f, exp), L)) = Cardinality(Of(pd, L)) + Cardinality(K \cap L)
<1> DEFINE A == {c \in DOMAIN g : g[c] \in L}
<1>1. Of(Sent(pd, g, f, exp), L) = Of(pd, L) \cup A
  BY SentOf
<1>2. Of(pd, L) \cap A = {} /\ A \in SUBSET Cookies
  BY DEF Of, Names
<1>3. Cardinality(A) = Cardinality(K \cap L)
  BY AllSent
<1>4. IsFiniteSet(Of(pd, L)) /\ Cardinality(Of(pd, L)) \in Nat
  BY OfIsFinite
<1>5. IsFiniteSet(Cookies)
  BY RtppClientAssumption
<1> HIDE DEF A
<1>6. IsFiniteSet(A)
  BY <1>2, <1>5, FS_Subset
<1>7. Cardinality(Of(pd, L) \cup A) = Cardinality(Of(pd, L)) + Cardinality(A)
  <2>1. Cardinality(Of(pd, L) \cup A)
          = Cardinality(Of(pd, L)) + Cardinality(A) - Cardinality(Of(pd, L) \cap A)
    BY <1>4, <1>6, FS_Union
  <2>2. Cardinality(A) \in Nat
    BY <1>6, FS_CardinalityType
  <2>3. Cardinality(Of(pd, L) \cap A) = 0
    BY <1>2, FS_EmptySet
  <2> QED BY <1>4, <2>1, <2>2, <2>3
<1> QED BY <1>1, <1>3, <1>7 DEF A

LEMMA OneOf ==
    ASSUME NEW k, NEW X
    PROVE  Cardinality(X \cap {k}) = One(k, X)
<1>1. CASE k \in X
  <2>1. X \cap {k} = {k}
    BY <1>1
  <2> QED BY <1>1, <2>1, FS_Singleton DEF One
<1>2. CASE k \notin X
  <2>1. X \cap {k} = {}
    BY <1>2
  <2> QED BY <1>2, <2>1, FS_EmptySet DEF One
<1> QED BY <1>1, <1>2

\* A heartbeat is in flight for as long as its tries take, or one interval.
LEMMA BeatLife ==
    ASSUME NEW f \in FirstRetr, NEW k
    PROVE  LET p == [kind |-> k, next_retr |-> f, triesleft |-> getnretrans(f, HrtbExp) - 1] IN
           \E t \in BeatLives : Remaining(p, f) <= t
<1> DEFINE n == getnretrans(f, HrtbExp)
           p == [kind |-> k, next_retr |-> f, triesleft |-> n - 1]
<1>1. f \in Nat \ {0} /\ HrtbExp \in Nat
  BY RtppClientAssumption
<1>2. n \in 0..HrtbExp /\ f * (Pow[n] - 1) <= HrtbExp
  BY <1>1, TriesFit
<1> SUFFICES \E t \in BeatLives : Remaining(p, f) <= t
  OBVIOUS
<1> HIDE DEF n
<1>3. CASE n - 1 > 0
  <2>1. n - 1 \in Nat /\ n = (n - 1) + 1
    BY <1>2, <1>3
  <2> DEFINE a == Pow[n - 1]
  <2>2. a \in Nat /\ Pow[n] = 2 * a
    BY <2>1, PowEquation
  <2>3. Remaining(p, f) = f + 2 * (f * (a - 1))
    BY <1>3 DEF Remaining
  <2> HIDE DEF a
  <2> DEFINE x == f * a
  <2>4. f * (a - 1) = x - f /\ f * (2 * a - 1) = 2 * x - f /\ x \in Int
    BY <1>1, <2>2
  <2>5. Remaining(p, f) = 2 * x - f /\ f * (Pow[n] - 1) = 2 * x - f
    BY <1>1, <2>2, <2>3, <2>4
  <2>6. Remaining(p, f) <= HrtbExp
    BY <1>2, <2>5
  <2> HIDE DEF p
  <2> QED BY <2>6 DEF BeatLives
<1>4. CASE ~(n - 1 > 0)
  <2>1. Remaining(p, f) = f
    BY <1>1, <1>4 DEF Remaining
  <2> HIDE DEF p
  <2> QED BY <1>1, <2>1 DEF BeatLives
<1> QED BY <1>3, <1>4

\* What is about to be sent is in flight after send_command().
LEMMA SendsAccount ==
    ASSUME NEW s, NEW K, K \subseteq Kinds, Accounts(s, K), ~s.st.shut_down,
           NEW exp \in Nat, NEW t \in send_commands(s, K, exp),
           "Ib" \in K => /\ exp = HrtbExp
                         /\ \A i \in For(s.watch, "version_check") : \A l \in BeatLives : l < s.watch[i].left
    PROVE  Accounts(t, {})
<1> USE RtppClientAssumption
<1>1. Kept(s) /\ Owed(s, K) /\ Chains(s, K) /\ Timely(s)
  BY DEF Accounts
<1>2. /\ s = Rec(s.net, s.pending, s.timers, s.watch, s.st, s.owed)
      /\ s.net \subseteq Cookies /\ DOMAIN s.pending \subseteq Cookies
      /\ s.pending \in [DOMAIN s.pending -> Command] /\ s.timers \in [DOMAIN s.pending -> Nat]
      /\ s.watch \in Seq(WatchTimers) /\ s.st \in Fields /\ s.owed \in [Calls -> Int]
  BY <1>1, KeptIs
<1>3. PICK g \in Fresh(s, K) : \E n \in Packets(s, DOMAIN g), f \in [DOMAIN g -> FirstRetr] : t = Sending(s, g, n, f, exp)
  BY DEF send_commands
<1>3a. PICK n \in Packets(s, DOMAIN g), f \in [DOMAIN g -> FirstRetr] : t = Sending(s, g, n, f, exp)
  BY <1>3
<1>4. Names(g, K) /\ DOMAIN g \cap DOMAIN s.pending = {}
  BY <1>1, FreshIs
<1> DEFINE pd == Sent(s.pending, g, f, exp)
           tms == Timed(s.timers, g, f)
<1>5. t = Rec(n, pd, tms, s.watch, s.st, s.owed)
  <2> HIDE DEF pd, tms
  <2>1. s.failed = FALSE
    BY <1>2 DEF Rec
  <2> QED BY <1>1, <1>3a, <2>1 DEF Rec, Kept, ClientStates, pd, tms, Sending
<1>6. n \subseteq Cookies
  BY <1>2, <1>4 DEF Packets, Names
<1>7. DOMAIN pd = DOMAIN s.pending \cup DOMAIN g /\ DOMAIN pd \subseteq Cookies
  BY <1>2, <1>4 DEF Sent, Names
<1>8. pd \in [DOMAIN pd -> Command]
  <2>1. ASSUME NEW c \in DOMAIN g PROVE pd[c] \in Command
    <3>1. pd[c] = [kind |-> g[c], next_retr |-> f[c], triesleft |-> getnretrans(f[c], exp) - 1]
      BY DEF Sent
    <3>2. f[c] \in FirstRetr /\ f[c] \in Nat \ {0}
      OBVIOUS
    <3>3. getnretrans(f[c], exp) \in Int
      BY <3>2, TriesFit
    <3>4. g[c] \in Kinds
      BY <1>4 DEF Names
    <3> QED BY <3>1, <3>2, <3>3, <3>4 DEF Command
  <2>2. ASSUME NEW c \in DOMAIN s.pending, c \notin DOMAIN g PROVE pd[c] \in Command
    BY <1>2, <2>2 DEF Sent
  <2>3. pd = [c \in DOMAIN pd |-> pd[c]]
    BY DEF Sent
  <2> HIDE DEF pd
  <2> QED BY <1>7, <2>1, <2>2, <2>3
<1>9. tms \in [DOMAIN pd -> Nat]
  BY <1>2, <1>7 DEF Timed
<1>10. Kept(t)
  <2> HIDE DEF pd, tms
  <2> QED BY <1>2, <1>5, <1>6, <1>7, <1>8, <1>9, RecIsKept
<1>11. /\ t.pending = pd /\ t.timers = tms /\ t.watch = s.watch /\ t.st = s.st /\ t.owed = s.owed
  BY <1>5 DEF Rec
<1>12. \A L : /\ Of(t.pending, L) = Of(s.pending, L) \cup {c \in DOMAIN g : g[c] \in L}
              /\ Cardinality(Of(t.pending, L)) = Cardinality(Of(s.pending, L)) + Cardinality(K \cap L)
  <2>1. t.pending = Sent(s.pending, g, f, exp)
    BY <1>11
  <2> SUFFICES ASSUME NEW L
               PROVE  /\ Of(Sent(s.pending, g, f, exp), L) = Of(s.pending, L) \cup {c \in DOMAIN g : g[c] \in L}
                      /\ Cardinality(Of(Sent(s.pending, g, f, exp), L))
                            = Cardinality(Of(s.pending, L)) + Cardinality(K \cap L)
    BY <2>1
  <2>2. DOMAIN s.pending \subseteq Cookies /\ Names(g, K) /\ DOMAIN g \cap DOMAIN s.pending = {}
    BY <1>2, <1>4
  <2>3. PICK p : p = s.pending
    OBVIOUS
  <2>4. DOMAIN p \subseteq Cookies /\ Names(g, K) /\ DOMAIN g \cap DOMAIN p = {}
    BY <2>2, <2>3
  <2>5. Of(Sent(p, g, f, exp), L) = Of(p, L) \cup {c \in DOMAIN g : g[c] \in L}
    BY <2>4, SentOf
  <2>6. Cardinality(Of(Sent(p, g, f, exp), L)) = Cardinality(Of(p, L)) + Cardinality(K \cap L)
    BY <2>4, SentCount
  <2> QED BY <2>3, <2>5, <2>6
<1>13. \A k : Cardinality(Of(t.pending, {k})) = Cardinality(Of(s.pending, {k})) + One(k, K)
  BY <1>12, OneOf
<1> HIDE DEF pd, tms
<1>14. Owed(t, {})
  <2>1. \A u \in Calls : Cardinality(Of(t.pending, {u})) \in Nat
    BY <1>10, ChainsCount
  <2>2. \A u \in Calls : s.owed[u] \in {0, 1} /\ s.owed[u] = Cardinality(Of(s.pending, {u})) + One(u, K)
    BY <1>1 DEF Owed
  <2>3. \A u : One(u, {}) = 0
    BY DEF One
  <2> SUFFICES ASSUME NEW u \in Calls
               PROVE  s.owed[u] \in {0, 1} /\ s.owed[u] = Cardinality(Of(t.pending, {u})) + One(u, {})
    BY <1>11 DEF Owed
  <2>4. Cardinality(Of(t.pending, {u})) = Cardinality(Of(s.pending, {u})) + One(u, K)
    BY <1>13
  <2> QED BY <2>1, <2>2, <2>3, <2>4
<1>15. Chains(t, {})
  <2>1. ChecksOf(t, {}) = ChecksOf(s, K) /\ BeatsOf(t, {}) = BeatsOf(s, K)
    <3>1. Cardinality(Of(s.pending, {"V"})) \in Nat /\ Cardinality(Of(s.pending, {"Ib"})) \in Nat
      BY <1>1, ChainsCount
    <3>2. Cardinality(For(s.watch, "version_check")) \in Nat /\ Cardinality(For(s.watch, "heartbeat")) \in Nat
      BY <1>1, ChainsCount
    <3>3. One("V", {}) = 0 /\ One("Ib", {}) = 0 /\ One("V", K) \in Nat /\ One("Ib", K) \in Nat
      BY DEF One
    <3>4. /\ Cardinality(Of(t.pending, {"V"})) = Cardinality(Of(s.pending, {"V"})) + One("V", K)
          /\ Cardinality(Of(t.pending, {"Ib"})) = Cardinality(Of(s.pending, {"Ib"})) + One("Ib", K)
      BY <1>13
    <3> QED BY <1>11, <3>1, <3>2, <3>3, <3>4 DEF ChecksOf, BeatsOf
  <2>2. t.st.caps_left = Cardinality(Of(t.pending, Caps)) + Cardinality({} \cap Caps)
    <3>1. Cardinality({} \cap Caps) = 0
      <4>1. {} \cap Caps = {}
        OBVIOUS
      <4> QED BY <4>1, FS_EmptySet
    <3>2. Cardinality(Of(t.pending, Caps)) \in Nat
      BY <1>10, ChainsCount
    <3> QED BY <1>1, <1>11, <1>12, <3>1, <3>2 DEF Chains
  <2> QED BY <1>1, <1>11, <2>1, <2>2 DEF Chains
<1>16. \A c \in Of(s.pending, {"Ib"}) :
           Remaining(t.pending[c], t.timers[c]) = Remaining(s.pending[c], s.timers[c])
  <2> SUFFICES ASSUME NEW c \in Of(s.pending, {"Ib"})
               PROVE  t.pending[c] = s.pending[c] /\ t.timers[c] = s.timers[c]
    OBVIOUS
  <2>1. c \in DOMAIN s.pending /\ c \notin DOMAIN g /\ c \in DOMAIN s.timers
    BY <1>2, <1>4 DEF Of
  <2> QED BY <1>11, <2>1 DEF pd, tms, Sent, Timed
<1>17. ASSUME NEW c \in DOMAIN g, g[c] = "Ib"
       PROVE  /\ "Ib" \in K
              /\ \E l \in BeatLives : Remaining(t.pending[c], t.timers[c]) <= l
  <2>1. "Ib" \in K
    BY <1>4, <1>17 DEF Names
  <2>2. t.pending[c] = [kind |-> g[c], next_retr |-> f[c], triesleft |-> getnretrans(f[c], HrtbExp) - 1]
    BY <1>11, <2>1 DEF pd, Sent
  <2>3. t.timers[c] = f[c] /\ f[c] \in FirstRetr
    BY <1>11 DEF tms, Timed
  <2> QED BY <2>1, <2>2, <2>3, BeatLife
<1>18. ASSUME NEW c \in Of(t.pending, {"Ib"})
       PROVE  Remaining(t.pending[c], t.timers[c]) \in Int
  <2>1. c \in DOMAIN t.pending /\ t.pending[c] \in Command /\ t.timers[c] \in Nat
    BY <1>7, <1>8, <1>9, <1>11 DEF Of
  <2> QED BY <2>1, PowEquation DEF Remaining, Command
<1>19. \A l \in BeatLives : l \in Int
  BY DEF BeatLives
<1>20. Timely(t)
  <2>1. \A c \in Of(t.pending, {"Ib"}) : c \in Of(s.pending, {"Ib"}) \/ (c \in DOMAIN g /\ g[c] = "Ib")
    BY <1>12
  <2>2. ASSUME NEW c \in Of(t.pending, {"Ib"})
        PROVE  /\ \E l \in BeatLives : Remaining(t.pending[c], t.timers[c]) <= l
               /\ \A i \in For(s.watch, "version_check") :
                     Remaining(t.pending[c], t.timers[c]) < s.watch[i].left
    <3>1. CASE c \in Of(s.pending, {"Ib"})
      BY <1>1, <1>16, <3>1 DEF Timely
    <3>2. CASE c \in DOMAIN g /\ g[c] = "Ib"
      <4>1. PICK l \in BeatLives : Remaining(t.pending[c], t.timers[c]) <= l
        BY <1>17, <3>2
      <4>2. \A i \in For(s.watch, "version_check") : l < s.watch[i].left /\ s.watch[i].left \in Int
        <5>1. "Ib" \in K
          BY <1>17, <3>2
        <5>2. \A i \in DOMAIN s.watch : s.watch[i] \in WatchTimers
          BY <1>2
        <5>3. RetrIval \in Nat
          OBVIOUS
        <5>4. \A i \in DOMAIN s.watch : s.watch[i].left \in Int
          BY <5>2, <5>3 DEF WatchTimers
        <5>5. \A i \in For(s.watch, "version_check") : i \in DOMAIN s.watch
          BY DEF For
        <5> QED BY <5>1, <5>4, <5>5
      <4> QED BY <1>18, <1>19, <4>1, <4>2
    <3> QED BY <2>1, <3>1, <3>2
  <2> QED BY <1>1, <1>11, <2>2 DEF Timely
<1> QED BY <1>10, <1>14, <1>15, <1>20 DEF Accounts

-----------------------------------------------------------------------------
(* The accounts, in numbers.                                               *)

\* What a handler finds in the accounts.
LEMMA AccountsGive ==
    ASSUME NEW s, NEW X, Accounts(s, X)
    PROVE  /\ Kept(s)
           /\ Cardinality(Of(s.pending, {"V"})) \in Nat /\ Cardinality(Of(s.pending, {"Ib"})) \in Nat
           /\ Cardinality(Of(s.pending, Caps)) \in Nat
           /\ Cardinality(For(s.watch, "version_check")) \in Nat
           /\ Cardinality(For(s.watch, "heartbeat")) \in Nat
           /\ s.st \in Fields /\ s.st.caps_left \in Nat
           /\ One("V", X) \in Nat /\ One("Ib", X) \in Nat
           /\ For(s.watch, "version_check") = {} <=> Cardinality(For(s.watch, "version_check")) = 0
<1>1. Kept(s)
  BY DEF Accounts
<1>2. s.st \in Fields
  BY <1>1, KeptIs
<1>3. One("V", X) \in Nat /\ One("Ib", X) \in Nat
  BY DEF One
<1> QED BY <1>1, <1>2, <1>3, ChainsCount

\* A state with other fields, or with another set of replies on their way.
LEMMA FieldsSet ==
    ASSUME NEW s, Kept(s), NEW f \in Fields
    PROVE  LET t == [s EXCEPT !.st = f] IN
           /\ Kept(t) /\ t.pending = s.pending /\ t.timers = s.timers /\ t.watch = s.watch
           /\ t.owed = s.owed /\ t.st = f
<1> DEFINE t == [s EXCEPT !.st = f]
<1>1. /\ s = Rec(s.net, s.pending, s.timers, s.watch, s.st, s.owed)
      /\ s.net \subseteq Cookies /\ DOMAIN s.pending \subseteq Cookies
      /\ s.pending \in [DOMAIN s.pending -> Command] /\ s.timers \in [DOMAIN s.pending -> Nat]
      /\ s.watch \in Seq(WatchTimers) /\ s.owed \in [Calls -> Int]
  BY KeptIs
<1>2. t = Rec(s.net, s.pending, s.timers, s.watch, f, s.owed)
  BY KeptSet
<1> HIDE DEF t
<1>3. Kept(t)
  BY <1>1, <1>2, RecIsKept
<1>4. /\ t.pending = s.pending /\ t.timers = s.timers /\ t.watch = s.watch
      /\ t.owed = s.owed /\ t.st = f
  BY <1>2 DEF Rec
<1> QED BY <1>3, <1>4 DEF t

\* Timely looks at commands and timers only.
LEMMA TimelyKept ==
    ASSUME NEW s, NEW t, Timely(s), t.pending = s.pending, t.timers = s.timers, t.watch = s.watch
    PROVE  Timely(t)
BY DEF Timely

\* A timer of the watch is started.
Armed(s, t, fn, d) ==
    /\ Kept(t) /\ t.pending = s.pending /\ t.timers = s.timers /\ t.st = s.st /\ t.owed = s.owed
    /\ \A g : Cardinality(For(t.watch, g)) = Cardinality(For(s.watch, g)) + (IF fn = g THEN 1 ELSE 0)
    /\ \A g : \A j \in For(t.watch, g) : \/ j \in For(s.watch, g) /\ t.watch[j] = s.watch[j]
                                         \/ g = fn /\ t.watch[j].left = d

LEMMA ArmIs ==
    ASSUME NEW s, Kept(s), NEW fn \in {"heartbeat", "version_check"}, NEW d \in 0..RetrIval
    PROVE  Armed(s, Arm(s, fn, d), fn, d)
<1> DEFINE t == Arm(s, fn, d)
           e == [fn |-> fn, left |-> d]
           w == Append(s.watch, e)
<1>1. /\ s = Rec(s.net, s.pending, s.timers, s.watch, s.st, s.owed)
      /\ s.net \subseteq Cookies /\ DOMAIN s.pending \subseteq Cookies
      /\ s.pending \in [DOMAIN s.pending -> Command] /\ s.timers \in [DOMAIN s.pending -> Nat]
      /\ s.watch \in Seq(WatchTimers) /\ s.st \in Fields /\ s.owed \in [Calls -> Int]
  BY KeptIs
<1>2. e \in WatchTimers /\ e.fn = fn /\ e.left = d
  BY DEF WatchTimers
<1>3. t = Rec(s.net, s.pending, s.timers, w, s.st, s.owed)
  <2>1. [s EXCEPT !.watch = w] = Rec(s.net, s.pending, s.timers, w, s.st, s.owed)
    BY KeptSet
  <2>2. t = [s EXCEPT !.watch = w]
    BY DEF Arm
  <2> HIDE DEF t, w
  <2> QED BY <2>1, <2>2
<1> HIDE DEF e
<1>4. w \in Seq(WatchTimers)
  BY <1>1, <1>2
<1>5. \A g : Cardinality(For(w, g)) = Cardinality(For(s.watch, g)) + (IF fn = g THEN 1 ELSE 0)
  <2> SUFFICES ASSUME NEW g
               PROVE  Cardinality(For(w, g)) = Cardinality(For(s.watch, g)) + (IF fn = g THEN 1 ELSE 0)
    OBVIOUS
  <2>1. Cardinality(For(w, g)) = Cardinality(For(s.watch, g)) + (IF e.fn = g THEN 1 ELSE 0)
    BY <1>1, <1>2, ForAppended
  <2> QED BY <1>2, <2>1
<1>6. \A g : \A j \in For(w, g) : \/ j \in For(s.watch, g) /\ w[j] = s.watch[j]
                                  \/ g = fn /\ w[j].left = d
  BY <1>1, <1>2 DEF For
<1> HIDE DEF t, w
<1>7. Kept(t)
  BY <1>1, <1>3, <1>4, RecIsKept
<1>8. /\ t.pending = s.pending /\ t.timers = s.timers /\ t.st = s.st /\ t.owed = s.owed
      /\ t.watch = w
  BY <1>3 DEF Rec
<1>9. Armed(s, t, fn, d)
  BY <1>5, <1>6, <1>7, <1>8 DEF Armed
<1> QED BY <1>9 DEF t

LEMMA LeftIs ==
    ASSUME NEW s, Kept(s), NEW fn, NEW j \in For(s.watch, fn)
    PROVE  s.watch[j].left \in Nat /\ j \in DOMAIN s.watch
<1>1. s.watch \in Seq(WatchTimers)
  BY KeptIs
<1>2. j \in DOMAIN s.watch
  BY DEF For
<1>3. s.watch[j] \in WatchTimers
  BY <1>1, <1>2
<1>4. RetrIval \in Nat
  BY RtppClientAssumption
<1> QED BY <1>2, <1>3, <1>4 DEF WatchTimers

LEMMA RemainingIs ==
    ASSUME NEW p \in Command, NEW t \in Nat
    PROVE  Remaining(p, t) \in Nat /\ (t > 0 => Remaining(p, t - 1) = Remaining(p, t) - 1)
<1>1. p.next_retr \in Nat /\ p.triesleft \in Int
  BY DEF Command
<1> DEFINE r == IF p.triesleft > 0 THEN 2 * (p.next_retr * (Pow[p.triesleft] - 1)) ELSE 0
<1>2. r \in Nat
  <2>1. CASE p.triesleft > 0
    <3>1. Pow[p.triesleft] - 1 \in Nat
      BY <1>1, <2>1, PowEquation
    <3> DEFINE a == Pow[p.triesleft] - 1
    <3> HIDE DEF a
    <3>2. p.next_retr * a \in Nat
      BY <1>1, <3>1 DEF a
    <3> QED BY <2>1, <3>2 DEF a
  <2> QED BY <2>1
<1>3. \A x : Remaining(p, x) = x + r
  BY DEF Remaining
<1> HIDE DEF r
<1> QED BY <1>2, <1>3
-----------------------------------------------------------------------------
(* The callbacks.                                                          *)

\* Going off line starts the one version check.
LEMMA OfflineAccounts ==
    ASSUME NEW s, NEW X, Accounts(s, X)
    PROVE  /\ Accounts(go_offline(s), X)
           /\ go_offline(s).st.shut_down \/ ~go_offline(s).st.online
<1>1. CASE s.st.shut_down \/ ~s.st.online
  BY <1>1 DEF go_offline
<1>2. CASE ~(s.st.shut_down \/ ~s.st.online)
  <2> DEFINE f == [s.st EXCEPT !.online = FALSE, !.watched = TRUE]
             r == [s EXCEPT !.st = f]
             t == Arm(r, "version_check", RetrIval)
  <2>1. go_offline(s) = t
    BY <1>2 DEF go_offline
  <2>2. Kept(s) /\ Owed(s, X) /\ Chains(s, X) /\ Timely(s) /\ s.st \in Fields
    BY AccountsGive DEF Accounts
  <2>3. /\ f \in Fields /\ f.online = FALSE /\ f.watched = TRUE /\ f.shut_down = s.st.shut_down
        /\ f.caps_left = s.st.caps_left /\ f.caps_done = s.st.caps_done
    BY <2>2 DEF Fields
  <2> HIDE DEF f
  <2>4. /\ Kept(r) /\ r.pending = s.pending /\ r.timers = s.timers /\ r.watch = s.watch
        /\ r.owed = s.owed /\ r.st = f
    BY <2>2, <2>3, FieldsSet
  <2>5. RetrIval \in 0..RetrIval /\ RetrIval \in Nat
    BY RtppClientAssumption
  <2> HIDE DEF r
  <2>6. /\ Kept(t) /\ t.pending = s.pending /\ t.timers = s.timers /\ t.st = f /\ t.owed = s.owed
        /\ Cardinality(For(t.watch, "version_check")) = Cardinality(For(s.watch, "version_check")) + 1
        /\ Cardinality(For(t.watch, "heartbeat")) = Cardinality(For(s.watch, "heartbeat"))
        /\ \A g : \A j \in For(t.watch, g) : \/ j \in For(s.watch, g) /\ t.watch[j] = s.watch[j]
                                             \/ g = "version_check" /\ t.watch[j].left = RetrIval
    <3>1. \A g : Cardinality(For(t.watch, g)) = Cardinality(For(r.watch, g)) + (IF "version_check" = g THEN 1 ELSE 0)
      BY <2>4, <2>5, ArmIs DEF Armed
    <3>2. Cardinality(For(s.watch, "heartbeat")) \in Nat
      BY AccountsGive
    <3>3. Cardinality(For(t.watch, "heartbeat")) = Cardinality(For(s.watch, "heartbeat"))
      BY <2>4, <3>1, <3>2
    <3>4. Cardinality(For(t.watch, "version_check")) = Cardinality(For(s.watch, "version_check")) + 1
      BY <2>4, <3>1
    <3>5. /\ Kept(t) /\ t.pending = r.pending /\ t.timers = r.timers /\ t.st = r.st /\ t.owed = r.owed
          /\ \A g : \A j \in For(t.watch, g) : \/ j \in For(r.watch, g) /\ t.watch[j] = r.watch[j]
                                               \/ g = "version_check" /\ t.watch[j].left = RetrIval
      BY <2>4, <2>5, ArmIs DEF Armed
    <3> QED BY <2>4, <3>3, <3>4, <3>5
  <2> HIDE DEF t
  <2>7. Owed(t, X)
    BY <2>2, <2>6 DEF Owed
  <2>8. Chains(t, X)
    <3>1. For(t.watch, "version_check") # {}
      <4>1. Cardinality(For(t.watch, "version_check")) # 0
        BY <2>6, AccountsGive
      <4> QED BY <2>6, <4>1, ChainsCount
    <3>2. ChecksOf(t, X) = ChecksOf(s, X) + 1
      BY <2>3, <2>6, AccountsGive DEF ChecksOf
    <3>3. BeatsOf(t, X) = BeatsOf(s, X)
      BY <2>6 DEF BeatsOf
    <3>4. ChecksOf(s, X) = 0
      BY <1>2, <2>2 DEF Chains
    <3>5. t.st.caps_left = Cardinality(Of(t.pending, Caps)) + Cardinality(X \cap Caps)
      BY <2>2, <2>3, <2>6 DEF Chains
    <3>6. (t.st.caps_done => t.st.caps_left = 0) /\ BeatsOf(t, X) <= 1
      BY <2>2, <2>3, <2>6, <3>3 DEF Chains
    <3> QED BY <2>3, <2>6, <3>1, <3>2, <3>4, <3>5, <3>6 DEF Chains
  <2>9. Timely(t)
    <3>1. ChecksOf(s, X) = 0
      BY <1>2, <2>2 DEF Chains
    <3>2. Cardinality(For(s.watch, "version_check")) = 0
      <4>1. /\ Cardinality(Of(s.pending, {"V"})) \in Nat /\ One("V", X) \in Nat
            /\ Cardinality(For(s.watch, "version_check")) \in Nat
        BY AccountsGive
      <4> QED BY <3>1, <4>1 DEF ChecksOf
    <3>3. For(s.watch, "version_check") = {}
      BY <3>2, AccountsGive
    <3>4. \A i \in For(t.watch, "version_check") : t.watch[i].left = RetrIval
      BY <2>6, <3>3
    <3>5. \A j \in For(t.watch, "heartbeat") : t.watch[j].left <= HrtbIval /\ t.watch[j].left \in Nat
      <4>1. \A j \in For(t.watch, "heartbeat") : j \in For(s.watch, "heartbeat") /\ t.watch[j] = s.watch[j]
        BY <2>6
      <4>2. \A j \in For(s.watch, "heartbeat") : s.watch[j].left \in Nat
        BY <2>2, LeftIs
      <4>3. \A j \in For(s.watch, "heartbeat") : s.watch[j].left <= HrtbIval
        BY <2>2 DEF Timely
      <4> QED BY <4>1, <4>2, <4>3
    <3>6. \A l \in BeatLives : l \in Nat /\ HrtbIval + l < RetrIval /\ HrtbIval \in Nat
      BY RtppClientAssumption DEF BeatLives
    <3>7. \A c \in Of(t.pending, {"Ib"}) :
            /\ Remaining(t.pending[c], t.timers[c]) \in Nat
            /\ \E l \in BeatLives : Remaining(t.pending[c], t.timers[c]) <= l
      <4> SUFFICES ASSUME NEW c \in Of(s.pending, {"Ib"})
                   PROVE  /\ Remaining(s.pending[c], s.timers[c]) \in Nat
                          /\ \E l \in BeatLives : Remaining(s.pending[c], s.timers[c]) <= l
        BY <2>6
      <4>1. c \in DOMAIN s.pending
        BY DEF Of
      <4>2. s.pending[c] \in Command /\ s.timers[c] \in Nat
        BY <2>2, <4>1, KeptIs
      <4> QED BY <2>2, <4>2, RemainingIs DEF Timely
    <3>8. \A i \in For(t.watch, "version_check") :
             \A j \in For(t.watch, "heartbeat") : \A l \in BeatLives : t.watch[j].left + l < t.watch[i].left
      BY <2>5, <3>4, <3>5, <3>6
    <3>9. \A i \in For(t.watch, "version_check") :
             \A c \in Of(t.pending, {"Ib"}) : Remaining(t.pending[c], t.timers[c]) < t.watch[i].left
      BY <2>5, <3>4, <3>6, <3>7
    <3> QED BY <3>5, <3>7, <3>8, <3>9 DEF Timely
  <2>10. Accounts(t, X)
    BY <2>6, <2>7, <2>8, <2>9 DEF Accounts
  <2> QED BY <2>1, <2>3, <2>6, <2>10
<1> QED BY <1>1, <1>2

\* A reply that changes nothing: after shutdown(), or to a heartbeat when off line.
LEMMA ForgottenAccounts ==
    ASSUME NEW s, NEW k \in {"V", "Ib"}, Accounts(s, {k}),
           s.st.shut_down \/ (k = "Ib" /\ ~s.st.online)
    PROVE  Accounts(s, {})
<1> USE RtppClientAssumption
<1>1. Kept(s) /\ Owed(s, {k}) /\ Chains(s, {k}) /\ Timely(s)
  BY DEF Accounts
<1>2. Owed(s, {})
  <2>1. \A u \in Calls : One(u, {k}) = 0 /\ One(u, {}) = 0
    BY DEF One
  <2> QED BY <1>1, <2>1 DEF Owed
<1>3. {k} \cap Caps = {} \cap Caps
  OBVIOUS
<1>4. /\ One("V", {}) = 0 /\ One("Ib", {}) = 0
      /\ One("V", {k}) = IF k = "V" THEN 1 ELSE 0
      /\ One("Ib", {k}) = IF k = "Ib" THEN 1 ELSE 0
  BY DEF One
<1>5. BeatsOf(s, {}) = BeatsOf(s, {k}) - (IF k = "Ib" THEN 1 ELSE 0) /\ BeatsOf(s, {}) \in Nat
  BY <1>4, AccountsGive DEF BeatsOf
<1>6. ~s.st.shut_down => ChecksOf(s, {}) = ChecksOf(s, {k})
  BY <1>4 DEF ChecksOf
<1>7. Chains(s, {})
  <2>1. /\ s.st.caps_left = Cardinality(Of(s.pending, Caps)) + Cardinality({} \cap Caps)
        /\ s.st.caps_done => s.st.caps_left = 0
    BY <1>1, <1>3 DEF Chains
  <2>2. /\ BeatsOf(s, {k}) <= 1
        /\ ~s.st.shut_down => /\ ChecksOf(s, {k}) = (IF s.st.online THEN 0 ELSE 1)
                              /\ ~s.st.online /\ For(s.watch, "version_check") = {} => BeatsOf(s, {k}) = 0
    BY <1>1 DEF Chains
  <2>3. BeatsOf(s, {}) <= 1 /\ (BeatsOf(s, {k}) = 0 => BeatsOf(s, {}) = 0)
    <3>1. BeatsOf(s, {k}) \in Nat
      BY <1>4, AccountsGive DEF BeatsOf
    <3> QED BY <1>5, <2>2, <3>1
  <2> QED BY <1>6, <2>1, <2>2, <2>3 DEF Chains
<1> QED BY <1>1, <1>2, <1>7 DEF Accounts

\* A command that is not in flight any more is handled next.
LEMMA DroppedAccounts ==
    ASSUME NEW s, Accounts(s, {}), NEW c \in DOMAIN s.pending, NEW n, n \subseteq Cookies
    PROVE  Accounts(Rec(n, Drop(s.pending, c), Drop(s.timers, c), s.watch, s.st, s.owed), {s.pending[c].kind})
<1> DEFINE k  == s.pending[c].kind
           pd == Drop(s.pending, c)
           tms == Drop(s.timers, c)
           t  == Rec(n, pd, tms, s.watch, s.st, s.owed)
<1>1. Kept(s) /\ Owed(s, {}) /\ Chains(s, {}) /\ Timely(s)
  BY DEF Accounts
<1>2. /\ DOMAIN s.pending \subseteq Cookies
      /\ s.pending \in [DOMAIN s.pending -> Command] /\ s.timers \in [DOMAIN s.pending -> Nat]
      /\ s.watch \in Seq(WatchTimers) /\ s.st \in Fields /\ s.owed \in [Calls -> Int]
  BY <1>1, KeptIs
<1>3. /\ DOMAIN pd = DOMAIN s.pending \ {c} /\ pd \in [DOMAIN pd -> Command]
      /\ tms \in [DOMAIN pd -> Nat]
      /\ \A x \in DOMAIN pd : pd[x] = s.pending[x] /\ tms[x] = s.timers[x]
  BY <1>2 DEF Drop
<1>4. /\ t.pending = pd /\ t.timers = tms /\ t.watch = s.watch /\ t.st = s.st /\ t.owed = s.owed
  BY DEF Rec
<1>5. Kept(t)
  <2> HIDE DEF pd, tms
  <2>1. DOMAIN pd \subseteq Cookies
    BY <1>2, <1>3
  <2> QED BY <1>2, <1>3, <2>1, RecIsKept
<1>6. \A K : /\ Of(t.pending, K) = Of(s.pending, K) \ {c}
             /\ Cardinality(Of(s.pending, K)) = Cardinality(Of(t.pending, K)) + One(k, K)
  <2> SUFFICES ASSUME NEW K
               PROVE  /\ Of(pd, K) = Of(s.pending, K) \ {c}
                      /\ Cardinality(Of(s.pending, K)) = Cardinality(Of(pd, K)) + One(k, K)
    BY <1>4
  <2> QED BY <1>2, OfDropped
<1>7. \A x : One(k, {x}) = One(x, {k}) /\ One(x, {}) = 0 /\ One(x, {k}) \in {0, 1}
  BY DEF One
<1> HIDE DEF pd, tms, t, k
<1>8. \A x : /\ Cardinality(Of(s.pending, {x})) = Cardinality(Of(t.pending, {x})) + One(x, {k})
             /\ Cardinality(Of(t.pending, {x})) \in Nat
  BY <1>5, <1>6, <1>7, ChainsCount
<1>9. Owed(t, {k})
  <2> SUFFICES ASSUME NEW u \in Calls
               PROVE  s.owed[u] \in {0, 1} /\ s.owed[u] = Cardinality(Of(t.pending, {u})) + One(u, {k})
    BY <1>4 DEF Owed
  <2>1. s.owed[u] \in {0, 1} /\ s.owed[u] = Cardinality(Of(s.pending, {u})) + One(u, {})
    BY <1>1 DEF Owed
  <2>2. Cardinality(Of(s.pending, {u})) = Cardinality(Of(t.pending, {u})) + One(u, {k})
        /\ Cardinality(Of(t.pending, {u})) \in Nat /\ One(u, {}) = 0 /\ One(u, {k}) \in {0, 1}
    BY <1>7, <1>8
  <2> QED BY <2>1, <2>2
<1>10. Chains(t, {k})
  <2>1. Cardinality({k} \cap Caps) = One(k, Caps) /\ Cardinality({} \cap Caps) = 0
    <3>1. {k} \cap Caps = Caps \cap {k} /\ {} \cap Caps = {}
      OBVIOUS
    <3> QED BY <3>1, OneOf, FS_EmptySet
  <2>2. Cardinality(Of(s.pending, Caps)) = Cardinality(Of(t.pending, Caps)) + One(k, Caps)
    BY <1>6
  <2>3. Cardinality(Of(t.pending, Caps)) \in Nat /\ Cardinality(Of(s.pending, Caps)) \in Nat /\ One(k, Caps) \in {0, 1}
    BY <1>1, <1>5, ChainsCount DEF One
  <2>4. s.st.caps_left = Cardinality(Of(t.pending, Caps)) + Cardinality({k} \cap Caps)
    <3>1. s.st.caps_left = Cardinality(Of(s.pending, Caps)) + Cardinality({} \cap Caps)
      BY <1>1 DEF Chains
    <3> QED BY <2>1, <2>2, <2>3, <3>1
  <2>5. ChecksOf(t, {k}) = ChecksOf(s, {}) /\ BeatsOf(t, {k}) = BeatsOf(s, {})
    <3>1. /\ Cardinality(Of(s.pending, {"V"})) = Cardinality(Of(t.pending, {"V"})) + One("V", {k})
          /\ Cardinality(Of(s.pending, {"Ib"})) = Cardinality(Of(t.pending, {"Ib"})) + One("Ib", {k})
          /\ Cardinality(Of(t.pending, {"V"})) \in Nat /\ Cardinality(Of(t.pending, {"Ib"})) \in Nat
          /\ One("V", {}) = 0 /\ One("Ib", {}) = 0 /\ One("V", {k}) \in {0, 1} /\ One("Ib", {k}) \in {0, 1}
      BY <1>7, <1>8
    <3> QED BY <1>4, <3>1 DEF ChecksOf, BeatsOf
  <2> QED BY <1>1, <1>4, <2>4, <2>5 DEF Chains
<1>11. Timely(t)
  <2>1. \A x \in Of(t.pending, {"Ib"}) :
           /\ x \in Of(s.pending, {"Ib"})
           /\ Remaining(t.pending[x], t.timers[x]) = Remaining(s.pending[x], s.timers[x])
    <3> SUFFICES ASSUME NEW x \in Of(t.pending, {"Ib"})
                 PROVE  x \in Of(s.pending, {"Ib"}) /\ t.pending[x] = s.pending[x] /\ t.timers[x] = s.timers[x]
      OBVIOUS
    <3>1. x \in DOMAIN pd
      BY <1>4 DEF Of
    <3> QED BY <1>3, <1>4, <1>6, <3>1
  <2> QED BY <1>1, <1>4, <2>1 DEF Timely
<1>12. Accounts(t, {k})
  BY <1>5, <1>9, <1>10, <1>11 DEF Accounts
<1> QED BY <1>12 DEF t, pd, tms, k

\* The fields are set: what is in flight and what is about to be are the same.
LEMMA FieldsAccount ==
    ASSUME NEW s, NEW X, NEW Y, Accounts(s, X), NEW f \in Fields,
           \A u \in Calls : One(u, X) = One(u, Y),
           LET t == [s EXCEPT !.st = f] IN Chains(t, Y)
    PROVE  Accounts([s EXCEPT !.st = f], Y)
<1> DEFINE t == [s EXCEPT !.st = f]
<1>1. Kept(s) /\ Owed(s, X) /\ Timely(s)
  BY DEF Accounts
<1>2. /\ Kept(t) /\ t.pending = s.pending /\ t.timers = s.timers /\ t.watch = s.watch
      /\ t.owed = s.owed
  BY <1>1, FieldsSet
<1>3. Chains(t, Y)
  OBVIOUS
<1> HIDE DEF t
<1>4. Owed(t, Y)
  BY <1>1, <1>2 DEF Owed
<1>5. Timely(t)
  BY <1>1, <1>2, TimelyKept
<1>6. Accounts(t, Y)
  BY <1>2, <1>3, <1>4, <1>5 DEF Accounts
<1> QED BY <1>6 DEF t

\* A version check is answered well, or the last query of a capability: queries for
\* all of them are sent, or the client is on line and beats.
LEMMA OnlineAccounts ==
    ASSUME NEW s, Accounts(s, {"V"}), NEW t \in go_online(s)
    PROVE  Accounts(t, {})
<1> USE RtppClientAssumption
<1>1. Kept(s) /\ Owed(s, {"V"}) /\ Chains(s, {"V"}) /\ Timely(s) /\ s.st \in Fields
  BY AccountsGive DEF Accounts
<1>2. CASE s.st.shut_down
  <2>1. t = s
    BY <1>2 DEF go_online
  <2> QED BY <1>2, <2>1, ForgottenAccounts
<1>3. CASE ~s.st.shut_down
  <2>1. /\ Cardinality(Of(s.pending, {"V"})) \in Nat /\ Cardinality(Of(s.pending, {"Ib"})) \in Nat
        /\ Cardinality(Of(s.pending, Caps)) \in Nat
        /\ Cardinality(For(s.watch, "version_check")) \in Nat
        /\ Cardinality(For(s.watch, "heartbeat")) \in Nat
        /\ s.st.caps_left \in Nat
        /\ For(s.watch, "version_check") = {} <=> Cardinality(For(s.watch, "version_check")) = 0
    BY AccountsGive
  <2>2. One("V", {"V"}) = 1 /\ One("Ib", {"V"}) = 0
    BY DEF One
  <2>3. {"V"} \cap Caps = {} /\ Caps \cap Caps = Caps /\ {"Ib"} \cap Caps = {}
    OBVIOUS
  <2>4. ~s.st.online /\ Cardinality(Of(s.pending, {"V"})) = 0
        /\ Cardinality(For(s.watch, "version_check")) = 0 /\ s.st.caps_left = 0
    BY <1>1, <1>3, <2>1, <2>2 DEF Chains, ChecksOf
  <2>5. Cardinality(Of(s.pending, {"Ib"})) = 0 /\ Cardinality(For(s.watch, "heartbeat")) = 0
    BY <1>1, <1>3, <2>1, <2>2, <2>4 DEF Chains, BeatsOf
  <2>6. Cardinality(Of(s.pending, Caps)) = 0
    <3>1. Cardinality({"V"} \cap Caps) = 0
      BY <2>3, FS_EmptySet
    <3> QED BY <1>1, <2>1, <2>4, <3>1 DEF Chains
  <2>7. Cardinality(Caps) \in Nat \ {0}
    BY FS_CardinalityType, FS_EmptySet
  <2>8. CASE ~s.st.caps_done
    <3> DEFINE f == [s.st EXCEPT !.caps_left = Cardinality(Caps)]
               r == [s EXCEPT !.st = f]
    <3>1. t \in send_commands(r, Caps, CmdExp)
      BY <1>3, <2>4, <2>8 DEF go_online, QueryCaps
    <3>2. /\ f \in Fields /\ f.caps_left = Cardinality(Caps) /\ f.online = FALSE
          /\ f.shut_down = FALSE /\ f.caps_done = FALSE
      BY <1>1, <1>3, <2>4, <2>7, <2>8 DEF Fields
    <3> HIDE DEF f
    <3>3. r.pending = s.pending /\ r.watch = s.watch /\ r.st = f
      BY <1>1, <3>2, FieldsSet
    <3> HIDE DEF r
    <3>4. One("V", Caps) = 0 /\ One("Ib", Caps) = 0
      BY DEF One
    <3>5. ChecksOf(r, Caps) = 1 /\ BeatsOf(r, Caps) = 0
      <4>1. r.st.caps_left > 0
        BY <2>7, <3>2, <3>3
      <4>2. ChecksOf(r, Caps) = 0 + 0 + 0 + 1
        BY <2>4, <3>3, <3>4, <4>1 DEF ChecksOf
      <4>3. BeatsOf(r, Caps) = 0 + 0 + 0
        BY <2>5, <3>3, <3>4 DEF BeatsOf
      <4> QED BY <4>2, <4>3
    <3>6. r.st.caps_left = Cardinality(Of(r.pending, Caps)) + Cardinality(Caps \cap Caps)
      <4>1. \A D : D = Caps => Cardinality(D) = Cardinality(Caps)
        OBVIOUS
      <4>2. Cardinality(Caps \cap Caps) = Cardinality(Caps)
        BY <2>3, <4>1
      <4> QED BY <2>6, <2>7, <3>2, <3>3, <4>2
    <3>7. Chains(r, Caps)
      BY <3>2, <3>3, <3>5, <3>6 DEF Chains
    <3>8. \A u \in Calls : One(u, {"V"}) = One(u, Caps)
      BY DEF One
    <3>9. Accounts(r, Caps)
      BY <3>2, <3>7, <3>8, FieldsAccount DEF r
    <3>10. Caps \subseteq Kinds /\ "Ib" \notin Caps /\ CmdExp \in Nat
      BY DEF Kinds
    <3> QED BY <3>1, <3>2, <3>3, <3>9, <3>10, SendsAccount
  <2>9. CASE s.st.caps_done
    <3> DEFINE f == [s.st EXCEPT !.online = TRUE]
               r == [s EXCEPT !.st = f]
    <3>1. t \in heartbeat(r)
      BY <1>3, <2>4, <2>9 DEF go_online
    <3>2. /\ f \in Fields /\ f.caps_left = 0 /\ f.online = TRUE
          /\ f.shut_down = FALSE
      BY <1>1, <1>3, <2>4 DEF Fields
    <3> HIDE DEF f
    <3>3. r.pending = s.pending /\ r.watch = s.watch /\ r.st = f
      BY <1>1, <3>2, FieldsSet
    <3> HIDE DEF r
    <3>4. One("V", {"Ib"}) = 0 /\ One("Ib", {"Ib"}) = 1
      BY DEF One
    <3>5. ChecksOf(r, {"Ib"}) = 0 /\ BeatsOf(r, {"Ib"}) = 1
      BY <2>4, <2>5, <3>2, <3>3, <3>4 DEF ChecksOf, BeatsOf
    <3>6. r.st.caps_left = Cardinality(Of(r.pending, Caps)) + Cardinality({"Ib"} \cap Caps)
      <4>1. Cardinality({"Ib"} \cap Caps) = 0
        BY <2>3, FS_EmptySet
      <4> QED BY <2>6, <3>2, <3>3, <4>1
    <3>7. Chains(r, {"Ib"})
      BY <3>2, <3>3, <3>5, <3>6 DEF Chains
    <3>8. \A u \in Calls : One(u, {"V"}) = One(u, {"Ib"})
      BY DEF One
    <3>9. Accounts(r, {"Ib"})
      BY <3>2, <3>7, <3>8, FieldsAccount DEF r
    <3>10. {"Ib"} \subseteq Kinds /\ HrtbExp \in Nat
      BY DEF Kinds
    <3>11. t \in send_commands(r, {"Ib"}, HrtbExp) /\ ~r.st.shut_down
      BY <3>1, <3>2, <3>3 DEF heartbeat, send_command
    <3>12. For(r.watch, "version_check") = {}
      BY <2>1, <2>4, <3>3
    <3> QED BY <3>9, <3>10, <3>11, <3>12, SendsAccount
  <2> QED BY <2>8, <2>9
<1> QED BY <1>2, <1>3

\* A timer of the watch is started, in time for the others.
LEMMA ArmAccounts ==
    ASSUME NEW s, NEW k \in {"V", "Ib"}, Accounts(s, {k}), ~s.st.shut_down,
           NEW fn \in {"heartbeat", "version_check"}, NEW d \in 0..RetrIval,
           \/ k = "V" /\ fn = "version_check" /\ d = RetrIval
           \/ k = "Ib" /\ fn = "heartbeat" /\ d = HrtbIval /\ For(s.watch, "version_check") = {}
    PROVE  Accounts(Arm(s, fn, d), {})
<1> USE RtppClientAssumption
<1> DEFINE t == Arm(s, fn, d)
<1>1. Kept(s) /\ Owed(s, {k}) /\ Chains(s, {k}) /\ Timely(s)
  BY DEF Accounts
<1>2. /\ Kept(t) /\ t.pending = s.pending /\ t.timers = s.timers /\ t.st = s.st /\ t.owed = s.owed
      /\ \A g : Cardinality(For(t.watch, g)) = Cardinality(For(s.watch, g)) + (IF fn = g THEN 1 ELSE 0)
      /\ \A g : \A j \in For(t.watch, g) :
            \/ j \in For(s.watch, g) /\ t.watch[j] = s.watch[j]
            \/ g = fn /\ t.watch[j].left = d
  <2>1. Armed(s, t, fn, d)
    BY <1>1, ArmIs
  <2> QED BY <2>1 DEF Armed
<1> HIDE DEF t
<1>3. Owed(t, {})
  <2>1. \A u \in Calls : One(u, {k}) = 0 /\ One(u, {}) = 0
    BY DEF One
  <2> QED BY <1>1, <1>2, <2>1 DEF Owed
<1>4. /\ One("V", {}) = 0 /\ One("Ib", {}) = 0
      /\ One("V", {k}) = IF k = "V" THEN 1 ELSE 0
      /\ One("Ib", {k}) = IF k = "Ib" THEN 1 ELSE 0
  BY DEF One
<1>5. /\ Cardinality(Of(s.pending, {"V"})) \in Nat /\ Cardinality(Of(s.pending, {"Ib"})) \in Nat
      /\ Cardinality(For(s.watch, "version_check")) \in Nat
      /\ Cardinality(For(s.watch, "heartbeat")) \in Nat
  BY AccountsGive
<1>6. ChecksOf(t, {}) = ChecksOf(s, {k}) /\ BeatsOf(t, {}) = BeatsOf(s, {k})
  <2>1. /\ Cardinality(For(t.watch, "version_check")) = Cardinality(For(s.watch, "version_check")) + One("V", {k})
        /\ Cardinality(For(t.watch, "heartbeat")) = Cardinality(For(s.watch, "heartbeat")) + One("Ib", {k})
    BY <1>2, <1>4, <1>5
  <2> QED BY <1>2, <1>4, <1>5, <2>1 DEF ChecksOf, BeatsOf
<1>7. Chains(t, {})
  <2>1. {k} \cap Caps = {} \cap Caps
    OBVIOUS
  <2>2. /\ t.st.caps_left = Cardinality(Of(t.pending, Caps)) + Cardinality({} \cap Caps)
        /\ t.st.caps_done => t.st.caps_left = 0
        /\ BeatsOf(t, {}) <= 1
    BY <1>1, <1>2, <1>6, <2>1 DEF Chains
  <2>3. /\ ChecksOf(s, {k}) = (IF s.st.online THEN 0 ELSE 1)
        /\ s.st.online /\ s.st.watched => BeatsOf(s, {k}) = 1
        /\ ~s.st.online /\ For(s.watch, "version_check") = {} => BeatsOf(s, {k}) = 0
    BY <1>1 DEF Chains
  <2>4. ~s.st.online /\ For(t.watch, "version_check") = {} => BeatsOf(s, {k}) = 0
    <3>1. For(t.watch, "version_check") = {} => For(s.watch, "version_check") = {}
      <4>1. For(t.watch, "version_check") = {} => Cardinality(For(t.watch, "version_check")) = 0
        BY FS_EmptySet
      <4>2. Cardinality(For(t.watch, "version_check")) >= Cardinality(For(s.watch, "version_check"))
        BY <1>2, <1>5
      <4>3. Cardinality(For(s.watch, "version_check")) = 0 => For(s.watch, "version_check") = {}
        BY AccountsGive
      <4> QED BY <1>5, <4>1, <4>2, <4>3
    <3> QED BY <2>3, <3>1
  <2> QED BY <1>2, <1>6, <2>2, <2>3, <2>4 DEF Chains
<1>8. Timely(t)
  <2>1. \A l \in BeatLives : l \in Nat /\ HrtbIval + l < RetrIval /\ HrtbIval \in Nat /\ RetrIval \in Nat
    BY DEF BeatLives
  <2>2. \A j \in For(t.watch, "heartbeat") : t.watch[j].left <= HrtbIval /\ t.watch[j].left \in Nat
    <3>1. \A j \in For(s.watch, "heartbeat") : s.watch[j].left \in Nat /\ s.watch[j].left <= HrtbIval
      BY <1>1, LeftIs DEF Timely
    <3>2. fn = "heartbeat" => d = HrtbIval /\ HrtbIval <= HrtbIval /\ HrtbIval \in Nat
      OBVIOUS
    <3> QED BY <1>2, <3>1, <3>2
  <2>3. \A c \in Of(t.pending, {"Ib"}) :
            /\ Remaining(t.pending[c], t.timers[c]) \in Nat
            /\ \E l \in BeatLives : Remaining(t.pending[c], t.timers[c]) <= l
    <3> SUFFICES ASSUME NEW c \in Of(s.pending, {"Ib"})
                 PROVE  /\ Remaining(s.pending[c], s.timers[c]) \in Nat
                        /\ \E l \in BeatLives : Remaining(s.pending[c], s.timers[c]) <= l
      BY <1>2
    <3>1. c \in DOMAIN s.pending
      BY DEF Of
    <3>2. s.pending[c] \in Command /\ s.timers[c] \in Nat
      BY <1>1, <3>1, KeptIs
    <3> QED BY <1>1, <3>2, RemainingIs DEF Timely
  <2>4. ASSUME NEW i \in For(t.watch, "version_check")
        PROVE  /\ \A j \in For(t.watch, "heartbeat") : \A l \in BeatLives : t.watch[j].left + l < t.watch[i].left
               /\ \A c \in Of(t.pending, {"Ib"}) : Remaining(t.pending[c], t.timers[c]) < t.watch[i].left
    <3>1. fn = "version_check" /\ k = "V"
      BY <1>2
    <3>2. CASE t.watch[i].left = RetrIval
      <4>1. \A j \in For(t.watch, "heartbeat") : \A l \in BeatLives : t.watch[j].left + l < t.watch[i].left
        BY <2>1, <2>2, <3>2
      <4>2. \A c \in Of(t.pending, {"Ib"}) : Remaining(t.pending[c], t.timers[c]) < t.watch[i].left
        BY <2>1, <2>3, <3>2
      <4> QED BY <4>1, <4>2
    <3>3. CASE i \in For(s.watch, "version_check") /\ t.watch[i] = s.watch[i]
      <4>1. \A j \in For(t.watch, "heartbeat") : j \in For(s.watch, "heartbeat") /\ t.watch[j] = s.watch[j]
        BY <1>2, <3>1
      <4> QED BY <1>1, <1>2, <3>3, <4>1 DEF Timely
    <3> QED BY <1>2, <3>1, <3>2, <3>3
  <2> QED BY <2>2, <2>3, <2>4 DEF Timely
<1>9. Accounts(t, {})
  BY <1>2, <1>3, <1>7, <1>8 DEF Accounts
<1> QED BY <1>9 DEF t

LEMMA CheckAnswered ==
    ASSUME NEW s, Accounts(s, {"V"}), NEW a, NEW t \in version_check_reply(s, a)
    PROVE  Accounts(t, {})
<1>1. CASE s.st.shut_down
  <2>1. t = s
    BY <1>1 DEF version_check_reply
  <2> QED BY <1>1, <2>1, ForgottenAccounts
<1>2. CASE ~s.st.shut_down /\ a = "good"
  <2>1. t \in go_online(s)
    BY <1>2 DEF version_check_reply
  <2> QED BY <2>1, OnlineAccounts
<1>3. CASE ~s.st.shut_down /\ a # "good"
  <2>1. ~s.st.online
    <3>1. /\ Cardinality(Of(s.pending, {"V"})) \in Nat /\ Cardinality(For(s.watch, "version_check")) \in Nat
          /\ One("V", {"V"}) = 1
      BY AccountsGive DEF One
    <3> QED BY <1>3, <3>1 DEF Accounts, Chains, ChecksOf
  <2>2. t = Arm(s, "version_check", RetrIval)
    BY <1>3, <2>1 DEF version_check_reply
  <2>3. RetrIval \in 0..RetrIval
    BY RtppClientAssumption
  <2> QED BY <1>3, <2>2, <2>3, ArmAccounts
<1> QED BY <1>1, <1>2, <1>3

\* None comes when the client has gone off line.
LEMMA BeatAnswered ==
    ASSUME NEW s, Accounts(s, {"Ib"}), NEW a, a = "None" => s.st.shut_down \/ ~s.st.online
    PROVE  Accounts(heartbeat_reply(s, a), {})
<1>1. CASE s.st.shut_down \/ ~s.st.online
  <2>1. heartbeat_reply(s, a) = s
    BY <1>1 DEF heartbeat_reply
  <2> QED BY <1>1, <2>1, ForgottenAccounts
<1>2. CASE ~(s.st.shut_down \/ ~s.st.online)
  <2>1. heartbeat_reply(s, a) = Arm(s, "heartbeat", HrtbIval)
    BY <1>2 DEF heartbeat_reply
  <2>2. HrtbIval \in 0..RetrIval
    <3>1. HrtbExp \in BeatLives /\ HrtbExp \in Nat /\ HrtbIval \in Nat /\ RetrIval \in Nat
      BY RtppClientAssumption DEF BeatLives
    <3>2. RetrIval > HrtbIval + HrtbExp
      BY <3>1, RtppClientAssumption
    <3> QED BY <3>1, <3>2
  <2>3. For(s.watch, "version_check") = {}
    <3>1. /\ Cardinality(Of(s.pending, {"V"})) \in Nat /\ Cardinality(For(s.watch, "version_check")) \in Nat
          /\ One("V", {"Ib"}) = 0
          /\ For(s.watch, "version_check") = {} <=> Cardinality(For(s.watch, "version_check")) = 0
      BY AccountsGive DEF One
    <3>2. ChecksOf(s, {"Ib"}) = 0
      BY <1>2 DEF Accounts, Chains
    <3>3. Cardinality(For(s.watch, "version_check")) = 0
      BY <3>1, <3>2 DEF ChecksOf
    <3> QED BY <3>1, <3>3
  <2> QED BY <1>2, <2>1, <2>2, <2>3, ArmAccounts
<1> QED BY <1>1, <1>2

LEMMA QueryAnswered ==
    ASSUME NEW s, NEW k \in Caps, Accounts(s, {k}), NEW a, NEW t \in caps_query_done(s, a)
    PROVE  Accounts(t, {})
<1> USE RtppClientAssumption
<1>1. Kept(s) /\ Chains(s, {k}) /\ s.st \in Fields
  BY AccountsGive DEF Accounts
<1>2. /\ Cardinality(Of(s.pending, {"V"})) \in Nat /\ Cardinality(Of(s.pending, Caps)) \in Nat
      /\ Cardinality(Of(s.pending, {"Ib"})) \in Nat
      /\ Cardinality(For(s.watch, "version_check")) \in Nat /\ Cardinality(For(s.watch, "heartbeat")) \in Nat
      /\ s.st.caps_left \in Nat
  BY AccountsGive
<1>3. One("V", {k}) = 0 /\ One("Ib", {k}) = 0 /\ One("V", {}) = 0 /\ One("Ib", {}) = 0
      /\ One("V", {"V"}) = 1 /\ One("Ib", {"V"}) = 0
  BY DEF One
<1>4. Cardinality({k} \cap Caps) = 1 /\ Cardinality({} \cap Caps) = 0 /\ Cardinality({"V"} \cap Caps) = 0
  <2>1. {k} \cap Caps = {k} /\ {} \cap Caps = {} /\ {"V"} \cap Caps = {}
    OBVIOUS
  <2> QED BY <2>1, FS_Singleton, FS_EmptySet
<1>5. /\ s.st.caps_left = Cardinality(Of(s.pending, Caps)) + 1 /\ ~s.st.caps_done
      /\ BeatsOf(s, {k}) <= 1
      /\ ~s.st.shut_down => /\ ChecksOf(s, {k}) = (IF s.st.online THEN 0 ELSE 1)
                            /\ s.st.online /\ s.st.watched => BeatsOf(s, {k}) = 1
                            /\ ~s.st.online /\ For(s.watch, "version_check") = {} => BeatsOf(s, {k}) = 0
  BY <1>1, <1>2, <1>4 DEF Chains
<1>6. \A u \in Calls : One(u, {k}) = One(u, {}) /\ One(u, {k}) = One(u, {"V"})
  BY DEF One
<1>7. ChecksOf(s, {k}) = Cardinality(Of(s.pending, {"V"})) + Cardinality(For(s.watch, "version_check")) + 1
  BY <1>2, <1>3, <1>5 DEF ChecksOf
<1>8. Cardinality(Caps) \in Nat
  BY FS_CardinalityType
<1> DEFINE f == [s.st EXCEPT !.caps_left = @ - 1]
           r == [s EXCEPT !.st = f]
           e == [f EXCEPT !.caps_done = TRUE]
           q == [s EXCEPT !.st = e]
<1>9. /\ f \in Fields /\ f.caps_left = s.st.caps_left - 1 /\ f.caps_done = s.st.caps_done
      /\ f.shut_down = s.st.shut_down /\ f.online = s.st.online /\ f.watched = s.st.watched
  BY <1>1, <1>2, <1>5, <1>8 DEF Fields
<1>10. [s EXCEPT !.st.caps_left = @ - 1] = r
  OBVIOUS
<1>11. r.pending = s.pending /\ r.watch = s.watch /\ r.st = f
  <2> HIDE DEF f
  <2> QED BY <1>1, <1>9, FieldsSet
<1>12. [r EXCEPT !.st.caps_done = TRUE] = q
  <2>1. Kept(r)
    <3> HIDE DEF f
    <3> QED BY <1>1, <1>9, FieldsSet
  <2>2. [r EXCEPT !.st.caps_done = TRUE] = [r EXCEPT !.st = e]
    <3> HIDE DEF r, f
    <3> QED BY <1>11
  <2>3. [s EXCEPT !.st = e] = Rec(s.net, s.pending, s.timers, s.watch, e, s.owed)
    <3> HIDE DEF e
    <3> QED BY <1>1, KeptSet
  <2>4. [s EXCEPT !.st = f] = Rec(s.net, s.pending, s.timers, s.watch, f, s.owed)
    <3> HIDE DEF f
    <3> QED BY <1>1, KeptSet
  <2>5. r.net = s.net /\ r.pending = s.pending /\ r.timers = s.timers /\ r.watch = s.watch /\ r.owed = s.owed
    <3> HIDE DEF f
    <3> QED BY <2>4 DEF Rec
  <2>6. [r EXCEPT !.st = e] = Rec(r.net, r.pending, r.timers, r.watch, e, r.owed)
    <3> HIDE DEF e, r
    <3> QED BY <2>1, KeptSet
  <2> HIDE DEF e, r, f
  <2> QED BY <2>2, <2>3, <2>5, <2>6
<1>13. /\ e \in Fields /\ e.caps_left = f.caps_left /\ e.caps_done = TRUE
       /\ e.shut_down = s.st.shut_down /\ e.online = s.st.online /\ e.watched = s.st.watched
  <2> HIDE DEF f
  <2> QED BY <1>9 DEF Fields
<1>14. q.pending = s.pending /\ q.watch = s.watch /\ q.st = e
  <2> HIDE DEF e
  <2> QED BY <1>1, <1>13, FieldsSet
<1>15. caps_query_done(s, a) = IF r.st.caps_left = 0 THEN go_online(q) ELSE {r}
  <2>1. caps_query_done(s, a)
          = LET x == [s EXCEPT !.st.caps_left = @ - 1]
            IN  IF x.st.caps_left = 0 THEN go_online([x EXCEPT !.st.caps_done = TRUE]) ELSE {x}
    BY DEF caps_query_done
  <2> HIDE DEF r, q, f, e
  <2> QED BY <1>10, <1>12, <2>1
<1> HIDE DEF r, q, f, e
<1>16. CASE s.st.caps_left - 1 = 0
  <2>1. t \in go_online(q)
    BY <1>9, <1>11, <1>15, <1>16
  <2>2. ChecksOf(q, {"V"}) = ChecksOf(s, {k}) /\ BeatsOf(q, {"V"}) = BeatsOf(s, {k})
    <3>1. e.caps_left = 0
      BY <1>9, <1>13, <1>16
    <3>2. ChecksOf(q, {"V"}) = Cardinality(Of(s.pending, {"V"})) + 1 + Cardinality(For(s.watch, "version_check")) + 0
      BY <1>3, <1>14, <3>1 DEF ChecksOf
    <3>3. BeatsOf(q, {"V"}) = BeatsOf(s, {k})
      BY <1>3, <1>14 DEF BeatsOf
    <3> QED BY <1>2, <1>7, <3>2, <3>3
  <2>3. q.st.caps_left = Cardinality(Of(q.pending, Caps)) + Cardinality({"V"} \cap Caps) /\ q.st.caps_left = 0
    <3>1. q.st.caps_left = 0
      BY <1>9, <1>13, <1>14, <1>16
    <3>2. Cardinality(Of(q.pending, Caps)) = 0
      BY <1>2, <1>5, <1>14, <1>16
    <3> QED BY <1>4, <3>1, <3>2
  <2>4. Chains(q, {"V"})
    BY <1>5, <1>13, <1>14, <2>2, <2>3 DEF Chains
  <2>5. Accounts(q, {"V"})
    BY <1>6, <1>13, <2>4, FieldsAccount DEF q
  <2> QED BY <2>1, <2>5, OnlineAccounts
<1>17. CASE s.st.caps_left - 1 # 0
  <2>1. t = r
    BY <1>9, <1>11, <1>15, <1>17
  <2>2. f.caps_left > 0
    BY <1>2, <1>5, <1>9, <1>17
  <2>3. ChecksOf(r, {}) = ChecksOf(s, {k}) /\ BeatsOf(r, {}) = BeatsOf(s, {k})
    <3>1. ChecksOf(r, {}) = Cardinality(Of(s.pending, {"V"})) + 0 + Cardinality(For(s.watch, "version_check")) + 1
      BY <1>3, <1>11, <2>2 DEF ChecksOf
    <3>2. BeatsOf(r, {}) = BeatsOf(s, {k})
      BY <1>3, <1>11 DEF BeatsOf
    <3> QED BY <1>2, <1>7, <3>1, <3>2
  <2>4. r.st.caps_left = Cardinality(Of(r.pending, Caps)) + Cardinality({} \cap Caps)
    BY <1>2, <1>4, <1>5, <1>9, <1>11
  <2>5. Chains(r, {})
    BY <1>5, <1>9, <1>11, <2>3, <2>4 DEF Chains
  <2>6. Accounts(r, {})
    BY <1>6, <1>9, <2>5, FieldsAccount DEF r
  <2> QED BY <2>1, <2>6
<1> QED BY <1>16, <1>17

\* A session gets its answer.
LEMMA CallAnswered ==
    ASSUME NEW s, NEW k \in Calls, Accounts(s, {k})
    PROVE  Accounts([s EXCEPT !.owed[k] = @ - 1], {})
<1> USE RtppClientAssumption
<1> DEFINE o == [s.owed EXCEPT ![k] = @ - 1]
           t == [s EXCEPT !.owed = o]
<1>1. Kept(s) /\ Owed(s, {k}) /\ Chains(s, {k}) /\ Timely(s)
  BY DEF Accounts
<1>2. /\ s.net \subseteq Cookies /\ DOMAIN s.pending \subseteq Cookies
      /\ s.pending \in [DOMAIN s.pending -> Command] /\ s.timers \in [DOMAIN s.pending -> Nat]
      /\ s.watch \in Seq(WatchTimers) /\ s.st \in Fields /\ s.owed \in [Calls -> Int]
  BY <1>1, KeptIs
<1>3. [s EXCEPT !.owed[k] = @ - 1] = t
  OBVIOUS
<1>4. o \in [Calls -> Int]
  BY <1>2
<1>5. \A u \in Calls : o[u] = IF u = k THEN s.owed[u] - 1 ELSE s.owed[u]
  BY <1>2
<1> HIDE DEF o
<1>6. t = Rec(s.net, s.pending, s.timers, s.watch, s.st, o)
  BY <1>1, KeptSet
<1> HIDE DEF t
<1>7. Kept(t)
  BY <1>2, <1>4, <1>6, RecIsKept
<1>8. t.pending = s.pending /\ t.timers = s.timers /\ t.watch = s.watch /\ t.st = s.st /\ t.owed = o
  BY <1>6 DEF Rec
<1>9. Owed(t, {})
  <2> SUFFICES ASSUME NEW u \in Calls
               PROVE  o[u] \in {0, 1} /\ o[u] = Cardinality(Of(s.pending, {u})) + One(u, {})
    BY <1>8 DEF Owed
  <2>1. s.owed[u] \in {0, 1} /\ s.owed[u] = Cardinality(Of(s.pending, {u})) + One(u, {k})
    BY <1>1 DEF Owed
  <2>2. Cardinality(Of(s.pending, {u})) \in Nat
    BY <1>1, ChainsCount
  <2>3. One(u, {}) = 0 /\ One(u, {k}) = IF u = k THEN 1 ELSE 0
    BY DEF One
  <2> QED BY <1>5, <2>1, <2>2, <2>3
<1>10. Chains(t, {})
  <2>1. {k} \cap Caps = {} \cap Caps
    OBVIOUS
  <2>2. One("V", {k}) = One("V", {}) /\ One("Ib", {k}) = One("Ib", {})
    BY DEF One
  <2>3. ChecksOf(t, {}) = ChecksOf(s, {k}) /\ BeatsOf(t, {}) = BeatsOf(s, {k})
    BY <1>8, <2>2 DEF ChecksOf, BeatsOf
  <2> QED BY <1>1, <1>8, <2>1, <2>3 DEF Chains
<1>11. Timely(t)
  BY <1>1, <1>8, TimelyKept
<1>12. Accounts(t, {})
  BY <1>7, <1>9, <1>10, <1>11 DEF Accounts
<1> QED BY <1>3, <1>12

LEMMA CallbackAccounts ==
    ASSUME NEW s, NEW k \in Kinds, Accounts(s, {k}), NEW a, a = "None" => s.st.shut_down \/ ~s.st.online,
           NEW t \in Callback(s, k, a)
    PROVE  Accounts(t, {})
<1> USE RtppClientAssumption
<1>1. CASE k = "V"
  <2>1. t \in version_check_reply(s, a)
    BY <1>1 DEF Callback
  <2> QED BY <1>1, <2>1, CheckAnswered
<1>2. CASE k = "Ib"
  <2>1. t = heartbeat_reply(s, a)
    BY <1>2 DEF Callback
  <2> QED BY <1>2, <2>1, BeatAnswered
<1>3. CASE k \in Caps
  <2>1. t \in caps_query_done(s, a)
    BY <1>3 DEF Callback
  <2> QED BY <1>3, <2>1, QueryAnswered
<1>4. CASE k \in Calls
  <2>1. t = [s EXCEPT !.owed[k] = @ - 1]
    BY <1>4 DEF Callback
  <2> QED BY <1>4, <2>1, CallAnswered
<1> QED BY <1>1, <1>2, <1>3, <1>4 DEF Kinds
-----------------------------------------------------------------------------
(* The steps.                                                              *)

\* What the operations leave behind is the next state.
LEMMA Becomes ==
    ASSUME NEW CONSTANT t, Accounts(t, {}), Become(t)
    PROVE  Accounts(State, {})'
<1>1. Kept(t)
  BY DEF Accounts
<1>2. t = Rec(t.net, t.pending, t.timers, t.watch, t.st, t.owed)
  BY <1>1, KeptIs
<1>3. t.failed = FALSE
  BY <1>2 DEF Rec
<1>4. /\ net' = t.net /\ pending' = t.pending /\ timers' = t.timers
      /\ watch' = t.watch /\ st' = t.st /\ owed' = t.owed /\ failed' = FALSE
  BY <1>3 DEF Become
<1>5. State' = t
  BY <1>2, <1>4 DEF State, Rec
<1> QED BY <1>5

LEMMA StateIs ==
    ASSUME Accounts(State, {})
    PROVE  /\ State = Rec(net, pending, timers, watch, st, owed)
           /\ State.net = net /\ State.pending = pending /\ State.timers = timers
           /\ State.watch = watch /\ State.st = st /\ State.owed = owed /\ failed = FALSE
           /\ net \subseteq Cookies /\ DOMAIN pending \subseteq Cookies
           /\ pending \in [DOMAIN pending -> Command] /\ timers \in [DOMAIN pending -> Nat]
           /\ watch \in Seq(WatchTimers) /\ st \in Fields /\ owed \in [Calls -> Int]
<1>1. /\ State.net = net /\ State.pending = pending /\ State.timers = timers
      /\ State.watch = watch /\ State.st = st /\ State.owed = owed /\ State.failed = failed
  BY DEF State
<1>2. Kept(State)
  BY DEF Accounts
<1>3. State.failed = FALSE
  BY <1>2 DEF Kept, ClientStates
<1>4. State = Rec(net, pending, timers, watch, st, owed)
  BY <1>1, <1>2, KeptIs
<1> QED BY <1>1, <1>2, <1>3, <1>4, KeptIs

LEMMA InitAccounts == RtppInit => Accounts(State, {})
<1> SUFFICES ASSUME RtppInit PROVE Accounts(State, {})
  OBVIOUS
<1> USE RtppClientAssumption
<1>1. /\ net = {} /\ pending = <<>> /\ timers = <<>> /\ owed = [u \in Calls |-> 0] /\ failed = FALSE
      /\ \/ /\ st = [online |-> FALSE, caps_done |-> FALSE, shut_down |-> FALSE,
                     caps_left |-> 0, watched |-> TRUE]
            /\ watch = <<[fn |-> "version_check", left |-> 0]>>
         \/ /\ st = [online |-> TRUE, caps_done |-> TRUE, shut_down |-> FALSE,
                     caps_left |-> 0, watched |-> FALSE]
            /\ watch = <<>>
  BY DEF RtppInit
<1>2. State = Rec(net, pending, timers, watch, st, owed)
  BY <1>1 DEF State, Rec
<1>3. Cardinality(Caps) \in Nat
  BY FS_CardinalityType
<1>4. /\ st \in Fields /\ st.caps_left = 0 /\ st.shut_down = FALSE
      /\ (st.online => watch = <<>> /\ ~st.watched)
      /\ (~st.online => watch = <<[fn |-> "version_check", left |-> 0]>>)
  <2> DEFINE w == <<[fn |-> "version_check", left |-> 0]>>
  <2>1. CASE /\ st = [online |-> FALSE, caps_done |-> FALSE, shut_down |-> FALSE, caps_left |-> 0, watched |-> TRUE]
             /\ watch = w
    <3> HIDE DEF w
    <3>1. st \in Fields /\ st.caps_left = 0 /\ st.shut_down = FALSE /\ st.online = FALSE
      BY <1>3, <2>1 DEF Fields
    <3> QED BY <2>1, <3>1 DEF w
  <2>2. CASE /\ st = [online |-> TRUE, caps_done |-> TRUE, shut_down |-> FALSE, caps_left |-> 0, watched |-> FALSE]
             /\ watch = <<>>
    <3>1. st \in Fields /\ st.caps_left = 0 /\ st.shut_down = FALSE /\ st.online = TRUE /\ st.watched = FALSE
      BY <1>3, <2>2 DEF Fields
    <3> QED BY <2>2, <3>1
  <2> QED BY <1>1, <2>1, <2>2
<1>5. watch \in Seq(WatchTimers)
  <2> DEFINE e == [fn |-> "version_check", left |-> 0]
  <2>1. e \in WatchTimers
    BY DEF WatchTimers
  <2> HIDE DEF e
  <2>2. <<e>> \in Seq(WatchTimers) /\ <<>> \in Seq(WatchTimers)
    BY <2>1
  <2> QED BY <1>1, <2>2 DEF e
<1>6. /\ DOMAIN pending = {} /\ pending \in [DOMAIN pending -> Command] /\ timers \in [DOMAIN pending -> Nat]
  BY <1>1
<1>7. owed \in [Calls -> Int]
  BY <1>1
<1>8. Kept(State)
  <2>1. net \subseteq Cookies /\ DOMAIN pending \subseteq Cookies
    BY <1>1, <1>6
  <2> QED BY <1>2, <1>4, <1>5, <1>6, <1>7, <2>1, RecIsKept
<1>9. /\ State.pending = pending /\ State.timers = timers /\ State.watch = watch /\ State.st = st
      /\ State.owed = owed
  BY DEF State
<1>10. \A K : Of(State.pending, K) = {} /\ Cardinality(Of(State.pending, K)) = 0
  <2>1. \A K : Of(State.pending, K) = {}
    BY <1>6, <1>9 DEF Of
  <2> QED BY <2>1, FS_EmptySet
<1>11. For(State.watch, "heartbeat") = {} /\ Cardinality(For(State.watch, "heartbeat")) = 0
  <2>1. For(State.watch, "heartbeat") = {}
    BY <1>1, <1>9 DEF For
  <2> QED BY <2>1, FS_EmptySet
<1>12. Cardinality(For(State.watch, "version_check")) = IF st.online THEN 0 ELSE 1
  <2>1. For(State.watch, "version_check") = IF st.online THEN {} ELSE {1}
    <3>1. CASE st.online
      <4>1. watch = <<>>
        BY <1>4, <3>1
      <4> QED BY <3>1, <4>1, <1>9 DEF For
    <3>2. CASE ~st.online
      <4>1. watch = <<[fn |-> "version_check", left |-> 0]>>
        BY <1>4, <3>2
      <4>2. DOMAIN watch = {1} /\ watch[1].fn = "version_check"
        BY <4>1
      <4> QED BY <3>2, <4>2, <1>9 DEF For
    <3> QED BY <3>1, <3>2
  <2> QED BY <2>1, FS_EmptySet, FS_Singleton
<1>13. Owed(State, {})
  <2>1. \A u : One(u, {}) = 0
    BY DEF One
  <2> QED BY <1>1, <1>9, <1>10, <2>1 DEF Owed
<1>14. Chains(State, {})
  <2>1. One("V", {}) = 0 /\ One("Ib", {}) = 0
    BY DEF One
  <2>2. Cardinality({} \cap Caps) = 0
    <3>1. {} \cap Caps = {}
      OBVIOUS
    <3> QED BY <3>1, FS_EmptySet
  <2>3. ChecksOf(State, {}) = IF st.online THEN 0 ELSE 1
    BY <1>4, <1>9, <1>10, <1>12, <2>1 DEF ChecksOf
  <2>4. BeatsOf(State, {}) = 0
    BY <1>9, <1>10, <1>11, <2>1 DEF BeatsOf
  <2> QED BY <1>4, <1>9, <1>10, <2>2, <2>3, <2>4 DEF Chains
<1>15. Timely(State)
  BY <1>10, <1>11 DEF Timely
<1> QED BY <1>8, <1>13, <1>14, <1>15 DEF Accounts

LEMMA CommandAccounts ==
    ASSUME Accounts(State, {}), NEW u \in Calls, SessionCommand(u)
    PROVE  Accounts(State, {})'
<1> USE RtppClientAssumption
<1> DEFINE o == [owed EXCEPT ![u] = @ + 1]
           s == Rec(net, pending, timers, watch, st, o)
<1>1. owed[u] = 0 /\ ~st.shut_down
  BY DEF SessionCommand
<1>2. PICK t \in send_command([State EXCEPT !.owed[u] = @ + 1], u, CmdExp) : Become(t)
  BY DEF SessionCommand
<1>3. Kept(State) /\ Owed(State, {}) /\ Chains(State, {}) /\ Timely(State)
  BY DEF Accounts
<1>4. /\ State.pending = pending /\ State.timers = timers
      /\ State.watch = watch /\ State.st = st /\ State.owed = owed /\ State.net = net
      /\ net \subseteq Cookies /\ DOMAIN pending \subseteq Cookies
      /\ pending \in [DOMAIN pending -> Command] /\ timers \in [DOMAIN pending -> Nat]
      /\ watch \in Seq(WatchTimers) /\ st \in Fields /\ owed \in [Calls -> Int]
  BY StateIs
<1>5. o \in [Calls -> Int] /\ \A v \in Calls : o[v] = IF v = u THEN owed[v] + 1 ELSE owed[v]
  BY <1>4
<1>6. [State EXCEPT !.owed[u] = @ + 1] = s
  <2>1. [State EXCEPT !.owed[u] = @ + 1] = [State EXCEPT !.owed = o]
    BY <1>4
  <2> HIDE DEF o
  <2>2. [State EXCEPT !.owed = o] = Rec(State.net, State.pending, State.timers, State.watch, State.st, o)
    BY <1>3, KeptSet
  <2> QED BY <1>4, <2>1, <2>2
<1> HIDE DEF o
<1>7. Kept(s)
  BY <1>4, <1>5, RecIsKept
<1>8. s.pending = pending /\ s.timers = timers /\ s.watch = watch /\ s.st = st /\ s.owed = o
  BY DEF Rec
<1> HIDE DEF s
<1>9. Owed(s, {u})
  <2> SUFFICES ASSUME NEW v \in Calls
               PROVE  o[v] \in {0, 1} /\ o[v] = Cardinality(Of(pending, {v})) + One(v, {u})
    BY <1>8 DEF Owed
  <2>1. owed[v] \in {0, 1} /\ owed[v] = Cardinality(Of(pending, {v})) + One(v, {})
    BY <1>3, <1>4 DEF Owed
  <2>2. Cardinality(Of(pending, {v})) \in Nat
    BY <1>3, <1>4, ChainsCount
  <2>3. One(v, {}) = 0 /\ One(v, {u}) = IF v = u THEN 1 ELSE 0
    BY DEF One
  <2> QED BY <1>1, <1>5, <2>1, <2>2, <2>3
<1>10. Chains(s, {u})
  <2>1. {u} \cap Caps = {} \cap Caps
    OBVIOUS
  <2>2. One("V", {u}) = One("V", {}) /\ One("Ib", {u}) = One("Ib", {})
    BY DEF One
  <2>3. ChecksOf(s, {u}) = ChecksOf(State, {}) /\ BeatsOf(s, {u}) = BeatsOf(State, {})
    BY <1>4, <1>8, <2>2 DEF ChecksOf, BeatsOf
  <2> QED BY <1>3, <1>4, <1>8, <2>1, <2>3 DEF Chains
<1>11. Timely(s)
  BY <1>3, <1>4, <1>8, TimelyKept
<1>12. Accounts(s, {u})
  BY <1>7, <1>9, <1>10, <1>11 DEF Accounts
<1>13. {u} \subseteq Kinds /\ "Ib" \notin {u} /\ CmdExp \in Nat /\ ~s.st.shut_down
  BY <1>1, <1>8 DEF Kinds
<1>14. t \in send_commands(s, {u}, CmdExp)
  BY <1>2, <1>6 DEF send_command
<1>15. Accounts(t, {})
  BY <1>12, <1>13, <1>14, SendsAccount
<1> QED BY <1>2, <1>15, Becomes

\* A command that is sent again takes no longer than it would have.
LEMMA AgainAccounts ==
    ASSUME NEW s, Accounts(s, {}), NEW c \in DOMAIN s.pending, s.timers[c] = 0,
           s.pending[c].triesleft > 0, NEW n, n \subseteq Cookies
    PROVE  LET p == s.pending[c] IN
           Accounts(Rec(n, [s.pending EXCEPT ![c] = [p EXCEPT !.next_retr = 2 * @, !.triesleft = @ - 1]],
                        Put(Drop(s.timers, c), c, 2 * p.next_retr), s.watch, s.st, s.owed), {})
<1> DEFINE p  == s.pending[c]
           q  == [p EXCEPT !.next_retr = 2 * @, !.triesleft = @ - 1]
           pd == [s.pending EXCEPT ![c] = q]
           tms == Put(Drop(s.timers, c), c, 2 * p.next_retr)
           t  == Rec(n, pd, tms, s.watch, s.st, s.owed)
<1>1. Kept(s) /\ Owed(s, {}) /\ Chains(s, {}) /\ Timely(s)
  BY DEF Accounts
<1>2. /\ DOMAIN s.pending \subseteq Cookies
      /\ s.pending \in [DOMAIN s.pending -> Command] /\ s.timers \in [DOMAIN s.pending -> Nat]
      /\ s.watch \in Seq(WatchTimers) /\ s.st \in Fields /\ s.owed \in [Calls -> Int]
  BY <1>1, KeptIs
<1>3. p \in Command
  BY <1>2
<1>4. /\ q \in Command /\ q.kind = p.kind /\ q.next_retr = 2 * p.next_retr /\ q.triesleft = p.triesleft - 1
      /\ p.next_retr \in Nat /\ p.triesleft \in Nat \ {0}
  <2> HIDE DEF p
  <2>1. p.triesleft > 0
    BY DEF p
  <2>2. p.next_retr \in Nat /\ p.triesleft \in Nat \ {0} /\ p.kind \in Kinds
    BY <1>3, <2>1 DEF Command
  <2> DEFINE a == [p EXCEPT !.next_retr = 2 * p.next_retr]
  <2>3. a \in Command /\ a.kind = p.kind /\ a.next_retr = 2 * p.next_retr /\ a.triesleft = p.triesleft
    BY <1>3, <2>2 DEF Command
  <2>4. q = [a EXCEPT !.triesleft = p.triesleft - 1]
    BY <2>3
  <2> HIDE DEF a, q
  <2>5. q \in Command /\ q.kind = a.kind /\ q.next_retr = a.next_retr /\ q.triesleft = p.triesleft - 1
    BY <2>2, <2>3, <2>4 DEF Command
  <2> QED BY <2>2, <2>3, <2>5
<1>5. Remaining(q, 2 * p.next_retr) = Remaining(p, 0)
  <2> DEFINE a == Pow[p.triesleft - 1]
             m == p.next_retr
             x == m * a
  <2>1. p.triesleft - 1 \in Nat /\ (p.triesleft - 1) + 1 = p.triesleft
    BY <1>4
  <2>2. a \in Nat /\ Pow[p.triesleft] = 2 * a
    BY <2>1, PowEquation
  <2>3. Remaining(p, 0) = 2 * (m * (2 * a - 1))
    BY <1>4, <2>2 DEF Remaining
  <2>4. p.triesleft - 1 > 0 => Remaining(q, 2 * m) = 2 * m + 2 * ((2 * m) * (a - 1))
    BY <1>4 DEF Remaining
  <2>5. ~(p.triesleft - 1 > 0) => Remaining(q, 2 * m) = 2 * m /\ a = 1
    BY <1>4, <2>1, PowEquation DEF Remaining
  <2>6. m \in Nat
    BY <1>4
  <2> HIDE DEF a, m
  <2>7. m * (2 * a - 1) = 2 * x - m /\ (2 * m) * (a - 1) = 2 * x - 2 * m /\ x \in Nat
    BY <2>2, <2>6
  <2>8. a = 1 => x = m
    BY <2>6
  <2> HIDE DEF x
  <2>9. Remaining(q, 2 * m) = Remaining(p, 0)
    <3> HIDE DEF p, q
    <3>1. CASE p.triesleft - 1 > 0
      BY <2>3, <2>4, <2>6, <2>7, <3>1
    <3>2. CASE ~(p.triesleft - 1 > 0)
      BY <2>3, <2>5, <2>6, <2>7, <2>8, <3>2
    <3> QED BY <3>1, <3>2
  <2> QED BY <2>9 DEF m
<1>6. /\ DOMAIN pd = DOMAIN s.pending /\ pd \in [DOMAIN pd -> Command]
      /\ pd[c] = q /\ \A x \in DOMAIN s.pending : x # c => pd[x] = s.pending[x]
  <2> HIDE DEF q
  <2> QED BY <1>2, <1>4
<1>7. /\ tms \in [DOMAIN pd -> Nat] /\ tms[c] = 2 * p.next_retr
      /\ \A x \in DOMAIN s.pending : x # c => tms[x] = s.timers[x]
  <2>1. DOMAIN tms = DOMAIN s.pending
    BY <1>2 DEF Put, Drop
  <2>2. 2 * p.next_retr \in Nat
    BY <1>4
  <2> HIDE DEF pd, p
  <2> QED BY <1>2, <1>6, <2>1, <2>2 DEF Put, Drop
<1>8. t.pending = pd /\ t.timers = tms /\ t.watch = s.watch /\ t.st = s.st /\ t.owed = s.owed
  BY DEF Rec
<1>9. \A x \in DOMAIN s.pending :
          /\ t.pending[x].kind = s.pending[x].kind
          /\ Remaining(t.pending[x], t.timers[x]) = Remaining(s.pending[x], s.timers[x])
  <2> SUFFICES ASSUME NEW x \in DOMAIN s.pending
               PROVE  pd[x].kind = s.pending[x].kind /\ Remaining(pd[x], tms[x]) = Remaining(s.pending[x], s.timers[x])
    BY <1>8
  <2> HIDE DEF pd, tms, q
  <2>1. CASE x = c
    BY <1>4, <1>5, <1>6, <1>7, <2>1
  <2>2. CASE x # c
    BY <1>6, <1>7, <2>2
  <2> QED BY <2>1, <2>2
<1> HIDE DEF pd, tms, p, q
<1>10. Kept(t)
  BY <1>2, <1>6, <1>7, RecIsKept
<1> HIDE DEF t
<1>11. \A K : Of(t.pending, K) = Of(s.pending, K)
  BY <1>6, <1>8, <1>9 DEF Of
<1>12. Owed(t, {})
  BY <1>1, <1>8, <1>11 DEF Owed
<1>13. Chains(t, {})
  <2>1. ChecksOf(t, {}) = ChecksOf(s, {}) /\ BeatsOf(t, {}) = BeatsOf(s, {})
    BY <1>8, <1>11 DEF ChecksOf, BeatsOf
  <2> QED BY <1>1, <1>8, <1>11, <2>1 DEF Chains
<1>14. Timely(t)
  <2>1. \A x \in Of(t.pending, {"Ib"}) :
           /\ x \in Of(s.pending, {"Ib"})
           /\ Remaining(t.pending[x], t.timers[x]) = Remaining(s.pending[x], s.timers[x])
    BY <1>9, <1>11 DEF Of
  <2> QED BY <1>1, <1>8, <2>1 DEF Timely
<1>15. Accounts(t, {})
  BY <1>10, <1>12, <1>13, <1>14 DEF Accounts
<1> QED BY <1>15 DEF t, pd, tms, q, p

GivenUp(r, x, y)        == [[r EXCEPT !.timers = x] EXCEPT !.pending = y]
Answered(r, z, x, y)    == [[r EXCEPT !.net = z] EXCEPT !.pending = y, !.timers = x]
SentAgain(r, u, z, x, y) == [[r EXCEPT !.timers = u] EXCEPT !.net = z, !.timers = x, !.pending = y]

LEMMA RecChanged ==
    ASSUME NEW r, Kept(r), NEW x, NEW y
    PROVE  /\ GivenUp(r, x, y) = Rec(r.net, y, x, r.watch, r.st, r.owed)
           /\ \A z : Answered(r, z, x, y) = Rec(z, y, x, r.watch, r.st, r.owed)
           /\ \A z, u : SentAgain(r, u, z, x, y) = Rec(z, y, x, r.watch, r.st, r.owed)
<1> SUFFICES ASSUME NEW z, NEW u
             PROVE  /\ GivenUp(r, x, y) = Rec(r.net, y, x, r.watch, r.st, r.owed)
                    /\ Answered(r, z, x, y) = Rec(z, y, x, r.watch, r.st, r.owed)
                    /\ SentAgain(r, u, z, x, y) = Rec(z, y, x, r.watch, r.st, r.owed)
  OBVIOUS
<1>1. PICK n, pd, tms, w, f, o : r = Rec(n, pd, tms, w, f, o)
  BY KeptIs
<1>2. /\ r.net = n /\ r.watch = w /\ r.st = f /\ r.owed = o
  BY <1>1 DEF Rec
<1>3. PICK b : b = FALSE
  OBVIOUS
<1>4. \A v, pe, ti, wa, sf, ow : Rec(v, pe, ti, wa, sf, ow) = RecOf(v, pe, ti, wa, sf, ow, b)
  BY <1>3 DEF Rec, RecOf
<1>5. r = RecOf(n, pd, tms, w, f, o, b)
  BY <1>1, <1>4
<1> DEFINE q == [r EXCEPT !.timers = x]
           a == [r EXCEPT !.net = z]
           e == [a EXCEPT !.pending = y]
           g == [r EXCEPT !.timers = u]
           h == [g EXCEPT !.net = z]
           j == [h EXCEPT !.timers = x]
<1>6. q = RecOf(n, pd, x, w, f, o, b) /\ a = RecOf(z, pd, tms, w, f, o, b) /\ g = RecOf(n, pd, u, w, f, o, b)
  BY <1>5 DEF RecOf
<1>7. [q EXCEPT !.pending = y] = RecOf(n, y, x, w, f, o, b)
  <2> HIDE DEF q
  <2> QED BY <1>6 DEF RecOf
<1>8. e = RecOf(z, y, tms, w, f, o, b)
  <2> HIDE DEF a
  <2> QED BY <1>6 DEF RecOf
<1>9. [e EXCEPT !.timers = x] = RecOf(z, y, x, w, f, o, b)
  <2> HIDE DEF e
  <2> QED BY <1>8 DEF RecOf
<1>10. h = RecOf(z, pd, u, w, f, o, b)
  <2> HIDE DEF g
  <2> QED BY <1>6 DEF RecOf
<1>11. j = RecOf(z, pd, x, w, f, o, b)
  <2> HIDE DEF h
  <2> QED BY <1>10 DEF RecOf
<1>12. [j EXCEPT !.pending = y] = RecOf(z, y, x, w, f, o, b)
  <2> HIDE DEF j
  <2> QED BY <1>11 DEF RecOf
<1>13. [q EXCEPT !.pending = y] = Rec(r.net, y, x, r.watch, r.st, r.owed)
  <2> HIDE DEF q
  <2> QED BY <1>2, <1>4, <1>7
<1>14. [e EXCEPT !.timers = x] = Rec(z, y, x, r.watch, r.st, r.owed)
  <2> HIDE DEF e
  <2> QED BY <1>2, <1>4, <1>9
<1>15. [j EXCEPT !.pending = y] = Rec(z, y, x, r.watch, r.st, r.owed)
  <2> HIDE DEF j
  <2> QED BY <1>2, <1>4, <1>12
<1> QED BY <1>13, <1>14, <1>15 DEF GivenUp, Answered, SentAgain

LEMMA RetransmitAccounts ==
    ASSUME Accounts(State, {}), NEW c \in Cookies, retransmit(c)
    PROVE  Accounts(State, {})'
<1> DEFINE s == [State EXCEPT !.timers = Drop(@, c)]
           p == pending[c]
<1>1. /\ State = Rec(net, pending, timers, watch, st, owed)
      /\ State.net = net /\ State.pending = pending /\ State.timers = timers
      /\ State.watch = watch /\ State.st = st /\ State.owed = owed /\ failed = FALSE
      /\ net \subseteq Cookies /\ DOMAIN pending \subseteq Cookies
      /\ pending \in [DOMAIN pending -> Command] /\ timers \in [DOMAIN pending -> Nat]
  BY StateIs
<1>2. c \in DOMAIN pending /\ timers[c] = 0
  BY <1>1 DEF retransmit
<1>3. p \in Command /\ p.kind \in Kinds
  BY <1>1, <1>2 DEF Command
<1>4. s = [State EXCEPT !.timers = Drop(timers, c)]
  BY <1>1
<1>5. CASE p.triesleft <= 0 \/ st.shut_down
  <2> DEFINE r == Rec(net, Drop(pending, c), Drop(timers, c), watch, st, owed)
  <2>1. [s EXCEPT !.pending = Drop(@, c)] = r
    <3>1. s.pending = pending
      BY <1>1, <1>4 DEF Rec
    <3>2. [s EXCEPT !.pending = Drop(@, c)] = [s EXCEPT !.pending = Drop(pending, c)]
      BY <3>1
    <3>3. Kept(State)
      BY DEF Accounts
    <3>4. GivenUp(State, Drop(timers, c), Drop(pending, c))
            = Rec(State.net, Drop(pending, c), Drop(timers, c), State.watch, State.st, State.owed)
      BY <3>3, RecChanged
    <3> HIDE DEF s
    <3>5. [s EXCEPT !.pending = Drop(pending, c)] = GivenUp(State, Drop(timers, c), Drop(pending, c))
      BY <1>4 DEF GivenUp
    <3> QED BY <1>1, <3>2, <3>4, <3>5
  <2>2. Accounts(r, {p.kind})
    BY <1>1, <1>2, DroppedAccounts
  <2>3. PICK t \in Callback(go_offline([s EXCEPT !.pending = Drop(@, c)]), p.kind, "None") : Become(t)
    BY <1>2, <1>5 DEF retransmit
  <2> HIDE DEF r, s, p
  <2>4. t \in Callback(go_offline(r), p.kind, "None")
    BY <2>1, <2>3
  <2>5. Accounts(go_offline(r), {p.kind}) /\ (go_offline(r).st.shut_down \/ ~go_offline(r).st.online)
    BY <2>2, OfflineAccounts
  <2>6. Accounts(t, {})
    BY <1>3, <2>4, <2>5, CallbackAccounts
  <2> QED BY <2>3, <2>6, Becomes
<1>6. CASE ~(p.triesleft <= 0 \/ st.shut_down)
  <2> DEFINE q == [p EXCEPT !.next_retr = 2 * @, !.triesleft = @ - 1]
             pd == [pending EXCEPT ![c] = q]
             tms == Put(Drop(timers, c), c, 2 * p.next_retr)
  <2>1. PICK n \in Packets(s, {c}) :
           Become([s EXCEPT !.net = n, !.timers = Put(@, c, 2 * p.next_retr), !.pending[c] = q])
    BY <1>2, <1>6 DEF retransmit
  <2>2. s.pending = pending /\ s.timers = Drop(timers, c) /\ s.net = net
    BY <1>1, <1>4 DEF Rec
  <2>3. n \subseteq Cookies
    <3> HIDE DEF s
    <3> QED BY <1>1, <2>2 DEF Packets
  <2>4. [s EXCEPT !.net = n, !.timers = Put(@, c, 2 * p.next_retr), !.pending[c] = q]
          = [s EXCEPT !.net = n, !.timers = tms, !.pending = pd]
    <3> HIDE DEF s, q, p
    <3> QED BY <2>2
  <2>5. [s EXCEPT !.net = n, !.timers = tms, !.pending = pd] = Rec(n, pd, tms, watch, st, owed)
    <3>1. Kept(State)
      BY DEF Accounts
    <3> HIDE DEF s, pd, tms
    <3>2. SentAgain(State, Drop(timers, c), n, tms, pd)
            = Rec(n, pd, tms, State.watch, State.st, State.owed)
      BY <3>1, RecChanged
    <3>3. [s EXCEPT !.net = n, !.timers = tms, !.pending = pd] = SentAgain(State, Drop(timers, c), n, tms, pd)
      BY <1>4 DEF SentAgain
    <3> QED BY <1>1, <3>2, <3>3
  <2>6. p.triesleft > 0
    BY <1>3, <1>6 DEF Command
  <2>7. Accounts(Rec(n, pd, tms, watch, st, owed), {})
    BY <1>1, <1>2, <2>3, <2>6, AgainAccounts
  <2>8. Become(Rec(n, pd, tms, watch, st, owed))
    <3> HIDE DEF s, q, pd, tms, p
    <3> QED BY <2>1, <2>4, <2>5
  <2> QED BY <2>7, <2>8, Becomes
<1> QED BY <1>5, <1>6

\* Other replies are on their way.
LEMMA NetAccounts ==
    ASSUME NEW s, Accounts(s, {}), NEW n, n \subseteq Cookies
    PROVE  Accounts(Rec(n, s.pending, s.timers, s.watch, s.st, s.owed), {})
<1> DEFINE t == Rec(n, s.pending, s.timers, s.watch, s.st, s.owed)
<1>1. Kept(s) /\ Owed(s, {}) /\ Chains(s, {}) /\ Timely(s)
  BY DEF Accounts
<1>2. Kept(t)
  BY <1>1, KeptIs, RecIsKept
<1>3. t.pending = s.pending /\ t.timers = s.timers /\ t.watch = s.watch /\ t.st = s.st /\ t.owed = s.owed
  BY DEF Rec
<1> HIDE DEF t
<1>4. Owed(t, {})
  BY <1>1, <1>3 DEF Owed
<1>5. Chains(t, {})
  BY <1>1, <1>3 DEF Chains, ChecksOf, BeatsOf
<1>6. Timely(t)
  BY <1>1, <1>3, TimelyKept
<1>7. Accounts(t, {})
  BY <1>2, <1>4, <1>5, <1>6 DEF Accounts
<1> QED BY <1>7 DEF t

LEMMA ReplyAccounts ==
    ASSUME Accounts(State, {}), NEW c \in Cookies, process_reply(c)
    PROVE  Accounts(State, {})'
<1>1. /\ State.net = net /\ State.pending = pending /\ State.timers = timers
      /\ State.watch = watch /\ State.st = st /\ State.owed = owed
      /\ net \subseteq Cookies /\ DOMAIN pending \subseteq Cookies
      /\ pending \in [DOMAIN pending -> Command]
  BY StateIs
<1>2. Kept(State)
  BY DEF Accounts
<1>3. CASE c \notin DOMAIN pending
  <2>1. PICK keep \in {{}} \cup (IF up THEN {} ELSE {{c}}) :
           Become([[State EXCEPT !.net = (@ \ {c}) \cup keep] EXCEPT !.net = @ \ {c}])
    BY <1>3 DEF process_reply
  <2> DEFINE m == (net \ {c}) \cup keep
             s == [State EXCEPT !.net = m]
             n == m \ {c}
  <2>2. keep \in {{}, {c}}
    OBVIOUS
  <2>3. [State EXCEPT !.net = (@ \ {c}) \cup keep] = s
    BY <1>1
  <2>4. n \subseteq Cookies /\ m \subseteq Cookies
    BY <1>1, <2>2
  <2> HIDE DEF m, n
  <2>5. s = Rec(m, pending, timers, watch, st, owed)
    BY <1>1, <1>2, KeptSet
  <2>6. s.net = m /\ s.pending = pending /\ s.timers = timers /\ s.watch = watch /\ s.st = st /\ s.owed = owed
    BY <2>5 DEF Rec
  <2>7. Kept(s)
    BY <1>1, <2>4, <2>5, NetAccounts DEF Accounts
  <2> HIDE DEF s
  <2>8. [s EXCEPT !.net = @ \ {c}] = [s EXCEPT !.net = n]
    BY <2>6 DEF n
  <2>9. [s EXCEPT !.net = n] = Rec(n, pending, timers, watch, st, owed)
    BY <2>6, <2>7, KeptSet
  <2>10. Become(Rec(n, pending, timers, watch, st, owed))
    BY <2>1, <2>3, <2>8, <2>9
  <2>11. Accounts(Rec(n, pending, timers, watch, st, owed), {})
    BY <1>1, <2>4, NetAccounts
  <2> QED BY <2>10, <2>11, Becomes
<1>4. CASE c \in DOMAIN pending
  <2> DEFINE k == pending[c].kind
  <2>1. PICK keep \in {{}} \cup (IF up THEN {} ELSE {{c}}),
             a \in {"good"} \cup (IF pending[c].kind = "V" /\ ~up THEN {"bad"} ELSE {}) :
           \E t \in Callback([[State EXCEPT !.net = (@ \ {c}) \cup keep] EXCEPT
                                 !.pending = Drop(@, c), !.timers = Drop(@, c)], k, a) : Become(t)
    BY <1>4 DEF process_reply
  <2> DEFINE m == (net \ {c}) \cup keep
             s == [State EXCEPT !.net = m]
             r == Rec(m, Drop(pending, c), Drop(timers, c), watch, st, owed)
  <2>2. keep \in {{}, {c}} /\ a # "None"
    OBVIOUS
  <2>3. [State EXCEPT !.net = (@ \ {c}) \cup keep] = s
    BY <1>1
  <2>4. m \subseteq Cookies
    BY <1>1, <2>2
  <2> HIDE DEF m
  <2>5. s = Rec(m, pending, timers, watch, st, owed)
    BY <1>1, <1>2, KeptSet
  <2>6. s.pending = pending /\ s.timers = timers
    BY <2>5 DEF Rec
  <2>7. [s EXCEPT !.pending = Drop(@, c), !.timers = Drop(@, c)]
          = [s EXCEPT !.pending = Drop(pending, c), !.timers = Drop(timers, c)]
    <3> HIDE DEF s
    <3>1. [s EXCEPT !.pending = Drop(pending, c)].timers = s.timers
      BY <2>5 DEF Rec
    <3> QED BY <2>6, <3>1
  <2>8. [s EXCEPT !.pending = Drop(pending, c), !.timers = Drop(timers, c)]
          = Answered(State, m, Drop(timers, c), Drop(pending, c))
    BY DEF Answered
  <2>9. Answered(State, m, Drop(timers, c), Drop(pending, c)) = r
    <3>1. Answered(State, m, Drop(timers, c), Drop(pending, c))
            = Rec(m, Drop(pending, c), Drop(timers, c), State.watch, State.st, State.owed)
      BY <1>2, RecChanged
    <3> QED BY <1>1, <3>1
  <2>10. Accounts(r, {k})
    BY <1>1, <1>4, <2>4, DroppedAccounts
  <2>11. k \in Kinds
    BY <1>1, <1>4 DEF Command
  <2> HIDE DEF s, r, k
  <2>12. PICK t \in Callback(r, k, a) : Become(t)
    BY <2>1, <2>3, <2>7, <2>8, <2>9
  <2>13. Accounts(t, {})
    BY <2>2, <2>10, <2>11, CallbackAccounts
  <2> QED BY <2>12, <2>13, Becomes
<1> QED BY <1>3, <1>4

LEMMA ShutdownAccounts ==
    ASSUME Accounts(State, {}), shutdown
    PROVE  Accounts(State, {})'
<1> DEFINE f == [st EXCEPT !.shut_down = TRUE]
           t == [State EXCEPT !.st = f]
<1>1. Kept(State) /\ Chains(State, {}) /\ State.st = st /\ st \in Fields
  BY StateIs DEF Accounts
<1>2. /\ f \in Fields /\ f.shut_down = TRUE /\ f.caps_left = st.caps_left /\ f.caps_done = st.caps_done
  BY <1>1 DEF Fields
<1>3. [State EXCEPT !.st.shut_down = TRUE] = t
  BY <1>1
<1> HIDE DEF f
<1>4. t.pending = State.pending /\ t.watch = State.watch /\ t.st = f
  BY <1>1, <1>2, FieldsSet
<1> HIDE DEF t
<1>5. BeatsOf(t, {}) = BeatsOf(State, {})
  BY <1>4 DEF BeatsOf
<1>6. Chains(t, {})
  BY <1>1, <1>2, <1>4, <1>5 DEF Chains
<1>7. Accounts(t, {})
  BY <1>2, <1>6, FieldsAccount DEF t
<1>8. Become(t)
  BY <1>3 DEF shutdown
<1> QED BY <1>7, <1>8, Becomes

LEMMA ProxyAccounts ==
    ASSUME Accounts(State, {}), Proxy
    PROVE  Accounts(State, {})'
<1>1. /\ State.net = net /\ State.pending = pending /\ State.timers = timers
      /\ State.watch = watch /\ State.st = st /\ State.owed = owed /\ failed = FALSE /\ net \subseteq Cookies
  BY StateIs
<1>2. /\ net' \subseteq Cookies /\ pending' = pending /\ timers' = timers /\ watch' = watch /\ st' = st
      /\ owed' = owed /\ failed' = FALSE
  BY <1>1 DEF Proxy
<1>3. State' = Rec(net', pending, timers, watch, st, owed)
  BY <1>2 DEF State, Rec
<1>4. Accounts(Rec(net', pending, timers, watch, st, owed), {})
  BY <1>1, <1>2, NetAccounts
<1> QED BY <1>3, <1>4

LEMMA TimerAccounts ==
    ASSUME Accounts(State, {}), NEW i \in DOMAIN watch, WatchTimer(i)
    PROVE  Accounts(State, {})'
<1> USE RtppClientAssumption
<1>1. /\ State.net = net /\ State.pending = pending /\ State.timers = timers
      /\ State.watch = watch /\ State.st = st /\ State.owed = owed
      /\ net \subseteq Cookies /\ DOMAIN pending \subseteq Cookies
      /\ pending \in [DOMAIN pending -> Command] /\ timers \in [DOMAIN pending -> Nat]
      /\ watch \in Seq(WatchTimers) /\ st \in Fields /\ owed \in [Calls -> Int]
  BY StateIs
<1>2. Kept(State) /\ Owed(State, {}) /\ Chains(State, {}) /\ Timely(State)
  BY DEF Accounts
<1>3. watch[i] \in WatchTimers /\ watch[i].left = 0
  BY <1>1 DEF WatchTimer
<1>4. watch[i].fn \in {"heartbeat", "version_check"}
  BY <1>3 DEF WatchTimers
<1> DEFINE w == RemoveAt(watch, i)
           s == Rec(net, pending, timers, w, st, owed)
           k == IF watch[i].fn = "heartbeat" THEN "Ib" ELSE "V"
<1>5. [State EXCEPT !.watch = RemoveAt(@, i)] = s
  <2>1. [State EXCEPT !.watch = RemoveAt(@, i)] = [State EXCEPT !.watch = w]
    BY <1>1
  <2> HIDE DEF w
  <2>2. [State EXCEPT !.watch = w] = Rec(State.net, State.pending, State.timers, w, State.st, State.owed)
    BY <1>2, KeptSet
  <2> QED BY <1>1, <2>1, <2>2
<1>6. PICK t \in IF watch[i].fn = "heartbeat" THEN heartbeat(s) ELSE version_check(s) : Become(t)
  <2>1. \E t \in IF watch[i].fn = "heartbeat" THEN heartbeat([State EXCEPT !.watch = RemoveAt(@, i)])
                 ELSE version_check([State EXCEPT !.watch = RemoveAt(@, i)]) : Become(t)
    BY DEF WatchTimer
  <2> HIDE DEF s
  <2> QED BY <1>5, <2>1
<1>7. w \in Seq(WatchTimers)
  BY <1>1, Removed
<1>8. \A fn : /\ \A j \in For(w, fn) : \E x \in For(watch, fn) : x # i /\ w[j] = watch[x]
              /\ Cardinality(For(watch, fn)) = Cardinality(For(w, fn)) + (IF watch[i].fn = fn THEN 1 ELSE 0)
  BY <1>1, ForRemoved
<1> HIDE DEF w
<1>9. Kept(s)
  BY <1>1, <1>7, RecIsKept
<1>10. s.pending = pending /\ s.timers = timers /\ s.watch = w /\ s.st = st /\ s.owed = owed
  BY DEF Rec
<1> HIDE DEF s
<1>11. /\ One("V", {}) = 0 /\ One("Ib", {}) = 0
       /\ One("V", {k}) = IF watch[i].fn = "version_check" THEN 1 ELSE 0
       /\ One("Ib", {k}) = IF watch[i].fn = "heartbeat" THEN 1 ELSE 0
  BY <1>4 DEF One
<1>12. \A u \in Calls : One(u, {k}) = 0 /\ One(u, {}) = 0
  BY DEF One
<1>13. Owed(s, {k})
  BY <1>1, <1>2, <1>10, <1>12 DEF Owed
<1>14. /\ Cardinality(Of(pending, {"V"})) \in Nat /\ Cardinality(Of(pending, {"Ib"})) \in Nat
       /\ Cardinality(For(w, "version_check")) \in Nat /\ Cardinality(For(w, "heartbeat")) \in Nat
       /\ Cardinality(For(watch, "heartbeat")) \in Nat
       /\ (Cardinality(Of(pending, {"Ib"})) = 0 <=> Of(pending, {"Ib"}) = {})
       /\ (Cardinality(For(watch, "heartbeat")) = 0 <=> For(watch, "heartbeat") = {})
       /\ (Cardinality(For(w, "version_check")) = 0 <=> For(w, "version_check") = {})
       /\ (Cardinality(For(watch, "version_check")) = 0 <=> For(watch, "version_check") = {})
  BY <1>1, <1>2, <1>9, <1>10, ChainsCount
<1>15. ChecksOf(s, {k}) = ChecksOf(State, {}) /\ BeatsOf(s, {k}) = BeatsOf(State, {})
  <2>1. /\ Cardinality(For(watch, "version_check")) = Cardinality(For(w, "version_check")) + One("V", {k})
        /\ Cardinality(For(watch, "heartbeat")) = Cardinality(For(w, "heartbeat")) + One("Ib", {k})
    BY <1>8, <1>11
  <2>2. One("V", {k}) \in Nat /\ One("Ib", {k}) \in Nat
    BY <1>11
  <2> HIDE DEF k
  <2> QED BY <1>1, <1>10, <1>11, <1>14, <2>1, <2>2 DEF ChecksOf, BeatsOf
<1>16. HrtbExp \in BeatLives /\ HrtbExp \in Nat /\ \A l \in BeatLives : l \in Nat
  BY DEF BeatLives
\* The version check comes when no heartbeat is left.
<1>17. ASSUME watch[i].fn = "version_check" PROVE BeatsOf(State, {}) = 0
  <2>1. i \in For(watch, "version_check")
    BY <1>17 DEF For
  <2>2. For(watch, "heartbeat") = {}
    <3> SUFFICES ASSUME NEW j \in For(watch, "heartbeat") PROVE FALSE
      OBVIOUS
    <3>1. watch[j].left \in Nat
      BY <1>1, <1>2, LeftIs
    <3>2. watch[j].left + HrtbExp < watch[i].left
      BY <1>1, <1>2, <1>16, <2>1 DEF Timely
    <3> QED BY <1>3, <1>16, <3>1, <3>2
  <2>3. Of(pending, {"Ib"}) = {}
    <3> SUFFICES ASSUME NEW c \in Of(pending, {"Ib"}) PROVE FALSE
      OBVIOUS
    <3>1. c \in DOMAIN pending
      BY DEF Of
    <3>2. Remaining(pending[c], timers[c]) \in Nat
      BY <1>1, <3>1, RemainingIs
    <3>3. Remaining(pending[c], timers[c]) < watch[i].left
      BY <1>1, <1>2, <2>1 DEF Timely
    <3> QED BY <1>3, <3>2, <3>3
  <2> QED BY <1>1, <1>11, <1>14, <2>2, <2>3 DEF BeatsOf
<1>18. For(w, "version_check") = {} => For(watch, "version_check") = {} \/ BeatsOf(State, {}) = 0
  <2>1. CASE watch[i].fn = "version_check"
    BY <1>17, <2>1
  <2>2. CASE watch[i].fn # "version_check"
    BY <1>8, <1>14, <2>2
  <2> QED BY <2>1, <2>2
<1>19. Chains(s, {k})
  <2>1. {k} \cap Caps = {} \cap Caps
    OBVIOUS
  <2> HIDE DEF k
  <2> QED BY <1>1, <1>2, <1>10, <1>15, <1>18, <2>1 DEF Chains
<1>20. Timely(s)
  <2>1. \A fn : \A j \in For(s.watch, fn) : \E x \in For(watch, fn) : s.watch[j] = watch[x]
    BY <1>8, <1>10
  <2>2. \A j \in For(s.watch, "heartbeat") : s.watch[j].left <= HrtbIval
    BY <1>1, <1>2, <2>1 DEF Timely
  <2>3. \A c \in Of(s.pending, {"Ib"}) : \E l \in BeatLives : Remaining(s.pending[c], s.timers[c]) <= l
    BY <1>1, <1>2, <1>10 DEF Timely
  <2>4. ASSUME NEW j \in For(s.watch, "version_check")
        PROVE  /\ \A x \in For(s.watch, "heartbeat") : \A l \in BeatLives : s.watch[x].left + l < s.watch[j].left
               /\ \A c \in Of(s.pending, {"Ib"}) : Remaining(s.pending[c], s.timers[c]) < s.watch[j].left
    <3>1. PICK y \in For(watch, "version_check") : s.watch[j] = watch[y]
      BY <2>1
    <3>2. /\ \A x \in For(watch, "heartbeat") : \A l \in BeatLives : watch[x].left + l < watch[y].left
          /\ \A c \in Of(pending, {"Ib"}) : Remaining(pending[c], timers[c]) < watch[y].left
      BY <1>1, <1>2 DEF Timely
    <3>3. \A x \in For(s.watch, "heartbeat") : \A l \in BeatLives : s.watch[x].left + l < s.watch[j].left
      BY <2>1, <3>1, <3>2
    <3> QED BY <1>10, <3>1, <3>2, <3>3
  <2> QED BY <2>2, <2>3, <2>4 DEF Timely
<1>21. Accounts(s, {k})
  BY <1>9, <1>13, <1>19, <1>20 DEF Accounts
<1>22. Accounts(t, {})
  <2>1. CASE st.shut_down
    <3>1. t = s
      BY <1>6, <1>10, <2>1 DEF heartbeat, version_check
    <3> QED BY <1>10, <1>21, <2>1, <3>1, ForgottenAccounts
  <2>2. CASE ~st.shut_down /\ watch[i].fn = "heartbeat"
    <3>1. t \in send_commands(s, {"Ib"}, HrtbExp) /\ k = "Ib"
      BY <1>6, <1>10, <2>2 DEF heartbeat, send_command
    <3>2. \A j \in For(s.watch, "version_check") : \A l \in BeatLives : l < s.watch[j].left
      <4> SUFFICES ASSUME NEW j \in For(s.watch, "version_check"), NEW l \in BeatLives PROVE l < s.watch[j].left
        OBVIOUS
      <4>1. PICK y \in For(watch, "version_check") : s.watch[j] = watch[y]
        BY <1>8, <1>10
      <4>2. i \in For(watch, "heartbeat")
        BY <2>2 DEF For
      <4>3. watch[i].left + l < watch[y].left
        BY <1>1, <1>2, <4>2 DEF Timely
      <4>4. watch[y].left \in Nat
        BY <1>1, <1>2, LeftIs
      <4> QED BY <1>3, <1>16, <4>1, <4>3, <4>4
    <3>3. {"Ib"} \subseteq Kinds /\ HrtbExp \in Nat
      BY DEF Kinds
    <3> QED BY <1>10, <1>21, <2>2, <3>1, <3>2, <3>3, SendsAccount
  <2>3. CASE ~st.shut_down /\ watch[i].fn # "heartbeat"
    <3>1. t \in send_commands(s, {"V"}, CmdExp) /\ k = "V"
      BY <1>6, <1>10, <2>3 DEF version_check, send_command
    <3>2. {"V"} \subseteq Kinds /\ CmdExp \in Nat /\ "Ib" \notin {"V"}
      BY DEF Kinds
    <3> QED BY <1>10, <1>21, <2>3, <3>1, <3>2, SendsAccount
  <2> QED BY <2>1, <2>2, <2>3
<1> QED BY <1>6, <1>22, Becomes

LEMMA TickAccounts ==
    ASSUME Accounts(State, {}), Tick
    PROVE  Accounts(State, {})'
<1> USE RtppClientAssumption
<1>1. /\ State.net = net /\ State.pending = pending /\ State.timers = timers
      /\ State.watch = watch /\ State.st = st /\ State.owed = owed /\ failed = FALSE
      /\ net \subseteq Cookies /\ DOMAIN pending \subseteq Cookies
      /\ pending \in [DOMAIN pending -> Command] /\ timers \in [DOMAIN pending -> Nat]
      /\ watch \in Seq(WatchTimers) /\ st \in Fields /\ owed \in [Calls -> Int]
  BY StateIs
<1>2. Kept(State) /\ Owed(State, {}) /\ Chains(State, {}) /\ Timely(State)
  BY DEF Accounts
<1> DEFINE tms == [c \in DOMAIN timers |-> timers[c] - 1]
           w  == [i \in DOMAIN watch |-> [watch[i] EXCEPT !.left = @ - 1]]
           t  == Rec(net, pending, tms, w, st, owed)
<1>3. /\ \A c \in DOMAIN timers : timers[c] > 0
      /\ \A i \in DOMAIN watch : watch[i].left > 0
      /\ timers' = tms /\ watch' = w
      /\ net' = net /\ pending' = pending /\ st' = st /\ owed' = owed /\ failed' = failed
  BY DEF Tick
<1>4. State' = t
  BY <1>1, <1>3 DEF State, Rec
<1>5. DOMAIN timers = DOMAIN pending /\ DOMAIN tms = DOMAIN pending
  BY <1>1
<1>6. \A c \in DOMAIN pending : tms[c] = timers[c] - 1 /\ timers[c] \in Nat /\ timers[c] > 0 /\ tms[c] \in Nat
  BY <1>1, <1>3, <1>5
<1>7. tms \in [DOMAIN pending -> Nat]
  BY <1>5, <1>6
<1>8. DOMAIN w = DOMAIN watch /\ DOMAIN watch = 1..Len(watch) /\ Len(watch) \in Nat
  BY <1>1
<1>9. \A i \in DOMAIN watch : /\ w[i] \in WatchTimers /\ w[i].fn = watch[i].fn /\ w[i].left = watch[i].left - 1
                              /\ watch[i].left \in Nat
  <2> SUFFICES ASSUME NEW i \in DOMAIN watch
               PROVE  /\ w[i] \in WatchTimers /\ w[i].fn = watch[i].fn /\ w[i].left = watch[i].left - 1
                      /\ watch[i].left \in Nat
    OBVIOUS
  <2>1. watch[i] \in WatchTimers /\ watch[i].left > 0
    BY <1>1, <1>3
  <2>2. w[i] = [watch[i] EXCEPT !.left = watch[i].left - 1]
    OBVIOUS
  <2> DEFINE e == watch[i]
  <2> HIDE DEF e, w
  <2>3. e \in WatchTimers /\ e.left > 0 /\ w[i] = [e EXCEPT !.left = e.left - 1]
    BY <2>1, <2>2 DEF e
  <2>4. e.left \in Nat /\ e.left <= RetrIval
    BY <2>3 DEF WatchTimers
  <2>5. w[i] \in WatchTimers /\ w[i].fn = e.fn /\ w[i].left = e.left - 1
    BY <2>3, <2>4 DEF WatchTimers
  <2> QED BY <2>4, <2>5 DEF e
<1>10. w \in Seq(WatchTimers)
  <2>1. w = [i \in 1..Len(watch) |-> w[i]]
    BY <1>8
  <2> HIDE DEF w
  <2>2. \A i \in 1..Len(watch) : w[i] \in WatchTimers
    BY <1>8, <1>9
  <2>3. w \in [1..Len(watch) -> WatchTimers]
    BY <2>1, <2>2
  <2> QED BY <1>8, <2>3
<1> HIDE DEF tms, w
<1>11. Kept(t)
  BY <1>1, <1>7, <1>10, RecIsKept
<1>12. t.pending = pending /\ t.timers = tms /\ t.watch = w /\ t.st = st /\ t.owed = owed
  BY DEF Rec
<1> HIDE DEF t
<1>13. \A fn : For(t.watch, fn) = For(watch, fn) /\ For(watch, fn) \subseteq DOMAIN watch
  BY <1>8, <1>9, <1>12 DEF For
<1>14. Owed(t, {})
  BY <1>1, <1>2, <1>12 DEF Owed
<1>15. Chains(t, {})
  <2>1. ChecksOf(t, {}) = ChecksOf(State, {}) /\ BeatsOf(t, {}) = BeatsOf(State, {})
    BY <1>1, <1>12, <1>13 DEF ChecksOf, BeatsOf
  <2> QED BY <1>1, <1>2, <1>12, <1>13, <2>1 DEF Chains
<1>16. \A c \in Of(pending, {"Ib"}) :
          /\ Remaining(pending[c], timers[c]) \in Nat
          /\ Remaining(t.pending[c], t.timers[c]) = Remaining(pending[c], timers[c]) - 1
  <2> SUFFICES ASSUME NEW c \in Of(pending, {"Ib"})
               PROVE  /\ Remaining(pending[c], timers[c]) \in Nat
                      /\ Remaining(pending[c], tms[c]) = Remaining(pending[c], timers[c]) - 1
    BY <1>12
  <2>1. c \in DOMAIN pending
    BY DEF Of
  <2>2. pending[c] \in Command /\ timers[c] \in Nat /\ timers[c] > 0 /\ tms[c] = timers[c] - 1
    BY <1>1, <1>6, <2>1
  <2> QED BY <2>2, RemainingIs
<1>17. \A l \in BeatLives : l \in Nat
  BY DEF BeatLives
<1>18. \A i \in DOMAIN watch : t.watch[i].left = watch[i].left - 1 /\ watch[i].left \in Nat
  BY <1>9, <1>12
<1>19. Timely(t)
  <2>1. \A c \in Of(t.pending, {"Ib"}) : \E l \in BeatLives : Remaining(t.pending[c], t.timers[c]) <= l
    <3> SUFFICES ASSUME NEW c \in Of(pending, {"Ib"})
                 PROVE  \E l \in BeatLives : Remaining(t.pending[c], t.timers[c]) <= l
      BY <1>12
    <3>1. PICK l \in BeatLives : Remaining(pending[c], timers[c]) <= l
      BY <1>1, <1>2 DEF Timely
    <3> QED BY <1>16, <1>17, <3>1
  <2>2. \A j \in For(t.watch, "heartbeat") : t.watch[j].left <= HrtbIval
    <3> SUFFICES ASSUME NEW j \in For(watch, "heartbeat") PROVE t.watch[j].left <= HrtbIval
      BY <1>13
    <3>1. watch[j].left <= HrtbIval /\ j \in DOMAIN watch
      BY <1>1, <1>2, <1>13 DEF Timely
    <3> QED BY <1>18, <3>1
  <2>3. ASSUME NEW i \in For(t.watch, "version_check")
        PROVE  /\ \A j \in For(t.watch, "heartbeat") : \A l \in BeatLives : t.watch[j].left + l < t.watch[i].left
               /\ \A c \in Of(t.pending, {"Ib"}) : Remaining(t.pending[c], t.timers[c]) < t.watch[i].left
    <3>1. i \in For(watch, "version_check") /\ i \in DOMAIN watch
      BY <1>13
    <3>2. /\ \A j \in For(watch, "heartbeat") : \A l \in BeatLives : watch[j].left + l < watch[i].left
          /\ \A c \in Of(pending, {"Ib"}) : Remaining(pending[c], timers[c]) < watch[i].left
      BY <1>1, <1>2, <3>1 DEF Timely
    <3>3. \A j \in For(t.watch, "heartbeat") : \A l \in BeatLives : t.watch[j].left + l < t.watch[i].left
      <4> SUFFICES ASSUME NEW j \in For(watch, "heartbeat"), NEW l \in BeatLives
                   PROVE  t.watch[j].left + l < t.watch[i].left
        BY <1>13
      <4>1. watch[j].left + l < watch[i].left /\ j \in DOMAIN watch
        BY <1>13, <3>2
      <4> QED BY <1>17, <1>18, <3>1, <4>1
    <3>4. \A c \in Of(t.pending, {"Ib"}) : Remaining(t.pending[c], t.timers[c]) < t.watch[i].left
      <4> SUFFICES ASSUME NEW c \in Of(pending, {"Ib"})
                   PROVE  Remaining(t.pending[c], t.timers[c]) < t.watch[i].left
        BY <1>12
      <4> QED BY <1>16, <1>18, <3>1, <3>2
    <3> QED BY <3>3, <3>4
  <2> QED BY <2>1, <2>2, <2>3 DEF Timely
<1>20. Accounts(t, {})
  BY <1>11, <1>14, <1>15, <1>19 DEF Accounts
<1> QED BY <1>4, <1>20

\* What the accounts say of the client.
LEMMA AccountsSound == up \in BOOLEAN /\ Accounts(State, {}) => ClientSound
<1> SUFFICES ASSUME up \in BOOLEAN, Accounts(State, {}) PROVE ClientSound
  OBVIOUS
<1>1. /\ State.net = net /\ State.pending = pending /\ State.timers = timers
      /\ State.watch = watch /\ State.st = st /\ State.owed = owed /\ failed = FALSE
      /\ net \subseteq Cookies /\ DOMAIN pending \subseteq Cookies
      /\ pending \in [DOMAIN pending -> Command] /\ timers \in [DOMAIN pending -> Nat]
      /\ watch \in Seq(WatchTimers) /\ st \in Fields /\ owed \in [Calls -> Int]
  BY StateIs
<1>2. Kept(State) /\ Owed(State, {}) /\ Chains(State, {})
  BY DEF Accounts
<1>3. RtppTypeOK
  <2>1. \A c \in DOMAIN pending : pending[c] \in [kind : Kinds, next_retr : Nat, triesleft : Int]
    BY <1>1 DEF Command
  <2>2. DOMAIN timers \subseteq Cookies /\ \A c \in DOMAIN timers : timers[c] \in Nat
    BY <1>1
  <2>3. watch \in Seq([fn : {"heartbeat", "version_check"}, left : 0..RetrIval])
    BY <1>1 DEF WatchTimers
  <2>4. st \in [online : BOOLEAN, caps_done : BOOLEAN, shut_down : BOOLEAN,
                caps_left : 0..Cardinality(Caps), watched : BOOLEAN]
    BY <1>1 DEF Fields
  <2>5. up \in BOOLEAN /\ failed \in BOOLEAN
    BY <1>1
  <2> QED BY <1>1, <2>1, <2>2, <2>3, <2>4, <2>5 DEF RtppTypeOK
<1>4. \A k : InFlight(k) = Of(pending, {k})
  BY DEF InFlight, Of
<1>5. \A fn : Started(fn) = For(watch, fn)
  BY DEF Started, For
<1>6. \A k : One(k, {}) = 0
  BY DEF One
<1>7. AnsweredOnce
  <2> SUFFICES ASSUME NEW u \in Calls PROVE owed[u] \in {0, 1} /\ owed[u] = Cardinality(InFlight(u))
    BY DEF AnsweredOnce
  <2>1. Cardinality(Of(pending, {u})) \in Nat
    BY <1>1, <1>2, ChainsCount
  <2>2. owed[u] \in {0, 1} /\ owed[u] = Cardinality(Of(pending, {u})) + One(u, {})
    BY <1>1, <1>2 DEF Owed
  <2> QED BY <1>4, <1>6, <2>1, <2>2
<1>8. NoStrayRetransmit
  BY <1>1 DEF NoStrayRetransmit
<1>9. /\ Cardinality(Of(pending, {"V"})) \in Nat /\ Cardinality(Of(pending, {"Ib"})) \in Nat
      /\ Cardinality(For(watch, "version_check")) \in Nat /\ Cardinality(For(watch, "heartbeat")) \in Nat
  BY <1>1, <1>2, ChainsCount
<1>10. Checks = ChecksOf(State, {})
  <2>1. Checks = Cardinality(Of(pending, {"V"})) + Cardinality(For(watch, "version_check"))
                 + (IF st.caps_left > 0 THEN 1 ELSE 0)
    BY <1>4, <1>5 DEF Checks
  <2> QED BY <1>1, <1>6, <1>9, <2>1 DEF ChecksOf
<1>11. Beats = BeatsOf(State, {})
  <2>1. Beats = Cardinality(Of(pending, {"Ib"})) + Cardinality(For(watch, "heartbeat"))
    BY <1>4, <1>5 DEF Beats
  <2> QED BY <1>1, <1>6, <1>9, <2>1 DEF BeatsOf
<1>12. OneWatch
  <2> SUFFICES /\ Beats <= 1
               /\ ~st.shut_down => Checks = (IF st.online THEN 0 ELSE 1)
               /\ ~st.shut_down /\ st.online /\ st.watched => Beats = 1
    BY DEF OneWatch
  <2> QED BY <1>1, <1>2, <1>10, <1>11 DEF Chains
<1> QED BY <1>3, <1>7, <1>8, <1>12 DEF ClientSound

\* What the RTP proxy's client keeps, for any number of commands and capabilities and
\* whatever the intervals are (as long as a proxy is checked again later than a
\* heartbeat lives): a session's command is answered once, by a reply or by None, no
\* timer outlives its command or sends through a client that was shut down, and the
\* proxy is watched by exactly one chain of checks or heartbeats.
THEOREM ClientIsSound == RtppSpec => []ClientSound
<1> DEFINE Inv == up \in BOOLEAN /\ Accounts(State, {})
<1>1. RtppInit => Inv
  BY InitAccounts DEF RtppInit
<1>2. Inv /\ [RtppNext]_rtppVars => Inv'
  <2> SUFFICES ASSUME Inv, [RtppNext]_rtppVars PROVE Inv'
    OBVIOUS
  <2>1. (up \in BOOLEAN)'
    <3>1. CASE UNCHANGED rtppVars
      BY <3>1 DEF rtppVars
    <3>2. CASE RtppNext
      BY <3>2 DEF RtppNext, SessionCommand, retransmit, process_reply, WatchTimer, shutdown, Proxy, Tick
    <3> QED BY <3>1, <3>2
  <2>2. Accounts(State, {})'
    <3>1. CASE \E u \in Calls : SessionCommand(u)
      BY <3>1, CommandAccounts
    <3>2. CASE \E c \in Cookies : retransmit(c)
      BY <3>2, RetransmitAccounts
    <3>3. CASE \E c \in Cookies : process_reply(c)
      BY <3>3, ReplyAccounts
    <3>4. CASE \E i \in DOMAIN watch : WatchTimer(i)
      BY <3>4, TimerAccounts
    <3>5. CASE shutdown
      BY <3>5, ShutdownAccounts
    <3>6. CASE Proxy
      BY <3>6, ProxyAccounts
    <3>7. CASE Tick
      BY <3>7, TickAccounts
    <3>8. CASE UNCHANGED rtppVars
      <4>1. State' = State
        BY <3>8 DEF rtppVars, State
      <4> QED BY <4>1
    <3> QED BY <3>1, <3>2, <3>3, <3>4, <3>5, <3>6, <3>7, <3>8 DEF RtppNext
  <2> QED BY <2>1, <2>2
<1>3. Inv => ClientSound
  BY AccountsSound
<1> QED BY <1>1, <1>2, <1>3, PTL DEF RtppSpec

-----------------------------------------------------------------------------
(* Registration: header fields as sequences of parameters.                 *)

LEMMA ParamFields ==
    ASSUME NEW n, NEW v, NEW q
    PROVE  Param(n, v, q).name = n /\ Param(n, v, q).value = v
BY DEF Param

LEMMA MaxIsIn ==
    ASSUME NEW n \in Nat, NEW A, A \subseteq 1 .. n, A # {}
    PROVE  Max(A) \in A
<1> DEFINE T == {n - i : i \in A}
<1>1. T \subseteq Nat /\ T # {}
  <2>1. \A i \in A : n - i \in Nat
    OBVIOUS
  <2>2. PICK i : i \in A
    OBVIOUS
  <2>3. n - i \in T
    BY <2>2
  <2> QED BY <2>1, <2>3
<1>2. PICK t \in T : \A u \in T : t <= u
  BY <1>1, LeastNumber
<1>3. PICK x \in A : t = n - x
  BY <1>2
<1>4. \A y \in A : x >= y
  <2> TAKE y \in A
  <2>1. t <= n - y
    BY <1>2
  <2> QED BY <1>3, <2>1
<1> QED BY <1>4 DEF Max

LEMMA MinIsIn ==
    ASSUME NEW n \in Nat, NEW A, A \subseteq 1 .. n, A # {}
    PROVE  Min(A) \in A
<1>1. A \subseteq Nat
  OBVIOUS
<1>2. PICK x \in A : \A y \in A : x <= y
  BY <1>1, LeastNumber
<1> QED BY <1>2 DEF Min

LEMMA ValueEmpty == ASSUME NEW name, NEW d PROVE Value(<<>>, name, d) = d
BY DEF Value

LEMMA TwoParams ==
    ASSUME NEW S, NEW p \in S, NEW q \in S
    PROVE  /\ <<p>> \in Seq(S) /\ Append(<<p>>, q) \in Seq(S) /\ Append(<<p>>, q) = <<p, q>>
<1> DEFINE s == Append(<<p>>, q)
           t == <<p, q>>
<1>1. <<p>> \in Seq(S) /\ Len(<<p>>) = 1 /\ <<p>>[1] = p
  OBVIOUS
<1>2. s \in Seq(S) /\ Len(s) = 2 /\ s[1] = p /\ s[2] = q
  BY <1>1
<1>3. t \in Seq(S) /\ Len(t) = 2 /\ t[1] = p /\ t[2] = q
  OBVIOUS
<1>4. \A i \in 1 .. 2 : i = 1 \/ i = 2
  OBVIOUS
<1> HIDE DEF s, t
<1>5. s = t
  BY <1>2, <1>3, <1>4, SeqEqual
<1> QED BY <1>1, <1>2, <1>5 DEF s, t

LEMMA ParamAdded ==
    ASSUME NEW S, NEW s \in Seq(S), NEW p \in S
    PROVE  s \o <<p>> = Append(s, p) /\ s \o <<>> = s /\ Append(s, p) \in Seq(S)
OBVIOUS

\* The last parameter of a name counts.
LEMMA ValueAppend ==
    ASSUME NEW S, NEW ps \in Seq(S), NEW p \in S, NEW name, NEW d
    PROVE  Value(Append(ps, p), name, d) = IF p.name = name THEN p.value ELSE Value(ps, name, d)
<1> DEFINE n == Len(ps)
           qs == Append(ps, p)
           A == {i \in DOMAIN ps : ps[i].name = name}
           B == {i \in DOMAIN qs : qs[i].name = name}
<1>1. /\ n \in Nat /\ DOMAIN ps = 1 .. n /\ DOMAIN qs = 1 .. n + 1 /\ qs[n + 1] = p
      /\ \A i \in 1 .. n : qs[i] = ps[i]
  OBVIOUS
<1>2. CASE p.name = name
  <2>1. n + 1 \in B /\ (\A i \in B : n + 1 >= i) /\ B \subseteq Nat
    BY <1>1, <1>2
  <2>2. \A x \in B : (\A i \in B : x >= i) => x = n + 1
    BY <1>1, <2>1
  <2> HIDE DEF B
  <2>3. Max(B) = n + 1
    BY <2>1, <2>2 DEF Max
  <2> HIDE DEF qs, n
  <2>4. Value(qs, name, d) = qs[n + 1].value
    BY <2>1, <2>3 DEF Value, B
  <2> QED BY <1>1, <1>2, <2>4 DEF qs
<1>3. CASE p.name # name
  <2>1. A = B
    BY <1>1, <1>3
  <2>2. CASE A = {}
    BY <1>3, <2>1, <2>2 DEF Value
  <2>3. CASE A # {}
    <3>1. A \subseteq 1 .. n
      BY <1>1
    <3>2. Max(A) \in A
      <4> HIDE DEF A, n
      <4> QED BY <1>1, <2>3, <3>1, MaxIsIn
    <3>3. qs[Max(A)] = ps[Max(A)]
      <4> HIDE DEF A, qs
      <4> QED BY <1>1, <3>1, <3>2
    <3>4. Value(qs, name, d) = qs[Max(B)].value
      <4> HIDE DEF qs
      <4> QED BY <2>1, <2>3 DEF Value
    <3>5. Value(ps, name, d) = ps[Max(A)].value
      BY <2>3 DEF Value
    <3> QED BY <1>3, <2>1, <3>3, <3>4, <3>5
  <2> QED BY <2>2, <2>3
<1> QED BY <1>2, <1>3

\* A sequence of one parameter.
LEMMA ValueFirst ==
    ASSUME NEW S, NEW p \in S, NEW name, NEW d
    PROVE  Value(<<p>>, name, d) = IF p.name = name THEN p.value ELSE d
<1>0. <<>> \in Seq(S)
  OBVIOUS
<1>1. PICK e \in Seq(S) : e = <<>>
  BY <1>0
<1>2. Append(e, p) = <<p>>
  BY <1>1
<1>3. Value(Append(e, p), name, d) = IF p.name = name THEN p.value ELSE Value(e, name, d)
  BY ValueAppend
<1>4. Value(e, name, d) = d
  BY <1>1, ValueEmpty
<1> QED BY <1>2, <1>3, <1>4

-----------------------------------------------------------------------------
(* Nonces: the time above, one mask below.                                 *)

MaskSet == {1, 2, 4, 8, 16, 32}

LEMMA MaskIn == ASSUME NEW alg \in Algorithms PROVE AlgMask(alg) \in MaskSet
BY DEF Algorithms, AlgMask, MaskSet, None

\* The only bit below the time that is set is the one of the mask.
LEMMA BitsApart ==
    ASSUME NEW t \in Nat, NEW m \in MaskSet, NEW b \in MaskSet
    PROVE  /\ ~HasBit(t * 64, b) /\ (HasBit(t * 64 + m, b) <=> b = m)
           /\ (t * 64 + m) \div 64 = t
<1>1. (t * 64 + m) \div 64 = t
  BY DEF MaskSet
<1>2. CASE b = 1
  BY <1>1, <1>2 DEF MaskSet, HasBit
<1>3. CASE b = 2
  BY <1>1, <1>3 DEF MaskSet, HasBit
<1>4. CASE b = 4
  BY <1>1, <1>4 DEF MaskSet, HasBit
<1>5. CASE b = 8
  BY <1>1, <1>5 DEF MaskSet, HasBit
<1>6. CASE b = 16
  BY <1>1, <1>6 DEF MaskSet, HasBit
<1>7. CASE b = 32
  BY <1>1, <1>7 DEF MaskSet, HasBit
<1> QED BY <1>2, <1>3, <1>4, <1>5, <1>6, <1>7 DEF MaskSet

LEMMA NonceFacts ==
    ASSUME NEW t \in Nat, NEW alg \in Algorithms
    PROVE  LET n == emit_challenge(t, alg) IN
           /\ n \in Nat /\ n # 0 /\ n \div Masks = t
           /\ \A b \in Algorithms : HasBit(n, AlgMask(b)) <=> AlgMask(b) = AlgMask(alg)
<1>1. AlgMask(alg) \in MaskSet
  BY MaskIn
<1>2. emit_challenge(t, alg) = t * 64 + AlgMask(alg)
  BY <1>1, BitsApart DEF emit_challenge, WithBit, Masks
<1>3. t * 64 + AlgMask(alg) \in Nat /\ t * 64 + AlgMask(alg) # 0
  BY <1>1 DEF MaskSet
<1>4. (t * 64 + AlgMask(alg)) \div 64 = t
  BY <1>1, BitsApart
<1>5. \A b \in Algorithms : HasBit(t * 64 + AlgMask(alg), AlgMask(b)) <=> AlgMask(b) = AlgMask(alg)
  BY <1>1, MaskIn, BitsApart
<1> QED BY <1>2, <1>3, <1>4, <1>5 DEF Masks

-----------------------------------------------------------------------------
(* A challenge as the agent reads it.                                      *)

LEMMA ChallengeRead ==
    ASSUME NEW alg, NEW qop \in Seq(STRING), clock \in Nat
    PROVE  LET ch == parseChallenge(Challenge(alg, qop))
               known == IF alg \in Algorithms THEN alg ELSE "MD5" IN
           /\ ch.realm = "realm" /\ ch.nonce = emit_challenge(clock, known)
           /\ ch.algorithm = (IF alg = "md5" THEN "MD5" ELSE alg)
           /\ ch.qop = qop /\ ch.opaque = None
<1> DEFINE known == IF alg \in Algorithms THEN alg ELSE "MD5"
           n == emit_challenge(clock, known)
           p1 == Param("realm", <<"realm">>, TRUE)
           p2 == Param("nonce", <<n>>, TRUE)
           p3 == Param("qop", qop, QuotesList(qop))
           p4 == Param("algorithm", <<alg>>, FALSE)
           S == {p1, p2, p3, p4}
           s1 == <<p1>>
           s2 == Append(s1, p2)
           s3 == IF qop # <<>> THEN Append(s2, p3) ELSE s2
           s4 == IF alg # None THEN Append(s3, p4) ELSE s3
<1>2. /\ p1.name = "realm" /\ p1.value = <<"realm">> /\ p2.name = "nonce" /\ p2.value = <<n>>
      /\ p3.name = "qop" /\ p3.value = qop /\ p4.name = "algorithm" /\ p4.value = <<alg>>
  <2> HIDE DEF n
  <2> QED BY DEF Param
<1>3. p1 \in S /\ p2 \in S /\ p3 \in S /\ p4 \in S /\ <<>> \in Seq(S)
  <2> HIDE DEF p1, p2, p3, p4
  <2> QED OBVIOUS
<1>1. Challenge(alg, qop) = s4 /\ s1 \in Seq(S) /\ s2 \in Seq(S) /\ s3 \in Seq(S)
  <2> DEFINE ch == [[WWWAuthenticate(known, clock) EXCEPT !.algorithm = alg] EXCEPT !.qop = qop]
  <2>1. ch.realm = "realm" /\ ch.nonce = n /\ ch.algorithm = alg /\ ch.qop = qop /\ ch.opaque = None
    BY DEF WWWAuthenticate
  <2>2. Challenge(alg, qop) = localStr(ch)
    BY DEF Challenge
  <2> HIDE DEF ch, n
  <2>3. localStr(ch) = <<p1, p2>> \o If(qop # <<>>, <<p3>>) \o If(alg # None, <<p4>>) \o <<>>
    BY <2>1 DEF localStr, If
  <2> HIDE DEF p1, p2, p3, p4, S
  <2>4. s1 \in Seq(S) /\ s2 \in Seq(S) /\ s2 = <<p1, p2>>
    BY <1>3, TwoParams
  <2> HIDE DEF s2
  <2>5. <<p1, p2>> \o If(qop # <<>>, <<p3>>) = s3 /\ s3 \in Seq(S)
    <3>1. s2 \o <<p3>> = Append(s2, p3) /\ s2 \o <<>> = s2 /\ Append(s2, p3) \in Seq(S)
      BY <1>3, <2>4, ParamAdded
    <3> QED BY <2>4, <3>1, Zenon DEF If
  <2> HIDE DEF s3
  <2>6. s3 \o If(alg # None, <<p4>>) = s4 /\ s4 \in Seq(S)
    <3>1. s3 \o <<p4>> = Append(s3, p4) /\ s3 \o <<>> = s3 /\ Append(s3, p4) \in Seq(S)
      BY <1>3, <2>5, ParamAdded
    <3> QED BY <2>5, <3>1, Zenon DEF If
  <2> HIDE DEF s4
  <2>7. s4 \o <<>> = s4
    BY <2>6
  <2>8. localStr(ch) = s4
    BY <2>3, <2>5, <2>6, <2>7
  <2> QED BY <2>2, <2>4, <2>5, <2>8
<1> HIDE DEF n, p1, p2, p3, p4, S
<1>9. ASSUME NEW name, NEW d
      PROVE  Value(s4, name, d) = IF alg # None /\ "algorithm" = name THEN <<alg>>
                                  ELSE IF qop # <<>> /\ "qop" = name THEN qop
                                  ELSE IF "nonce" = name THEN <<n>>
                                  ELSE IF "realm" = name THEN <<"realm">> ELSE d
  <2>1. Value(s1, name, d) = IF p1.name = name THEN p1.value ELSE d
    BY <1>3, ValueFirst
  <2> HIDE DEF s1
  <2>2. Value(s2, name, d) = IF p2.name = name THEN p2.value ELSE Value(s1, name, d)
    BY <1>1, <1>3, ValueAppend
  <2> HIDE DEF s2
  <2>3. Value(Append(s2, p3), name, d) = IF p3.name = name THEN p3.value ELSE Value(s2, name, d)
    BY <1>1, <1>3, ValueAppend
  <2>4. Value(s3, name, d) = IF qop # <<>> /\ p3.name = name THEN p3.value ELSE Value(s2, name, d)
    BY <2>3, Zenon
  <2> HIDE DEF s3
  <2>5. Value(Append(s3, p4), name, d) = IF p4.name = name THEN p4.value ELSE Value(s3, name, d)
    BY <1>1, <1>3, ValueAppend
  <2>6. Value(s4, name, d) = IF alg # None /\ p4.name = name THEN p4.value ELSE Value(s3, name, d)
    BY <2>5, Zenon
  <2> HIDE DEF s4
  <2> QED BY <1>2, <2>1, <2>2, <2>4, <2>6
<1> HIDE DEF s4
<1>10. /\ Value(s4, "realm", <<None>>) = <<"realm">>
       /\ Value(s4, "nonce", <<0>>) = <<n>>
       /\ Value(s4, "qop", <<>>) = qop
       /\ Value(s4, "opaque", <<None>>) = <<None>>
       /\ Value(s4, "algorithm", <<None>>) = <<alg>>
  BY <1>9
<1> QED BY <1>1, <1>10 DEF parseChallenge, n

-----------------------------------------------------------------------------
(* Credentials as the registrar reads them.                                *)

LEMMA Appended ==
    ASSUME NEW S, NEW s \in Seq(S), NEW n \in Nat, Len(s) = n, NEW e \in S
    PROVE  /\ Append(s, e) \in Seq(S) /\ Len(Append(s, e)) = n + 1 /\ Append(s, e)[n + 1] = e
           /\ \A i \in 1 .. n : Append(s, e)[i] = s[i]
OBVIOUS

LEMMA FourParams ==
    ASSUME NEW S, NEW p \in S, NEW q \in S, NEW r \in S, NEW u \in S
    PROVE  /\ <<p>> \in Seq(S) /\ Append(<<p>>, q) \in Seq(S) /\ Append(Append(<<p>>, q), r) \in Seq(S)
           /\ Append(Append(Append(<<p>>, q), r), u) \in Seq(S)
           /\ Append(Append(Append(<<p>>, q), r), u) = <<p, q, r, u>>
<1> DEFINE s2 == Append(<<p>>, q)
           s3 == Append(s2, r)
           s == Append(s3, u)
           t == <<p, q, r, u>>
<1>1. <<p>> \in Seq(S) /\ Len(<<p>>) = 1 /\ <<p>>[1] = p
  OBVIOUS
<1>2. s2 \in Seq(S) /\ Len(s2) = 2 /\ s2[1] = p /\ s2[2] = q
  BY <1>1
<1> HIDE DEF s2
<1>3. s3 \in Seq(S) /\ Len(s3) = 3 /\ s3[1] = p /\ s3[2] = q /\ s3[3] = r
  <2>0. PICK n \in Nat : n = 2
    OBVIOUS
  <2>1. s3 \in Seq(S) /\ Len(s3) = n + 1 /\ s3[n + 1] = r /\ \A i \in 1 .. n : s3[i] = s2[i]
    <3>1. s2 \in Seq(S) /\ Len(s2) = n
      BY <1>2, <2>0
    <3> QED BY <3>1, Appended
  <2> HIDE DEF s3
  <2> QED BY <1>2, <2>0, <2>1
<1> HIDE DEF s3
<1>4. s \in Seq(S) /\ Len(s) = 4 /\ s[1] = p /\ s[2] = q /\ s[3] = r /\ s[4] = u
  <2>0. PICK n \in Nat : n = 3
    OBVIOUS
  <2>1. s \in Seq(S) /\ Len(s) = n + 1 /\ s[n + 1] = u /\ \A i \in 1 .. n : s[i] = s3[i]
    <3>1. s3 \in Seq(S) /\ Len(s3) = n
      BY <1>3, <2>0
    <3> QED BY <3>1, Appended
  <2> HIDE DEF s
  <2> QED BY <1>3, <2>0, <2>1
<1>5. t \in Seq(S) /\ Len(t) = 4 /\ t[1] = p /\ t[2] = q /\ t[3] = r /\ t[4] = u
  OBVIOUS
<1>6. \A i \in 1 .. 4 : i = 1 \/ i = 2 \/ i = 3 \/ i = 4
  OBVIOUS
<1> HIDE DEF s, t
<1>7. s = t
  BY <1>4, <1>5, <1>6, SeqEqual
<1> QED BY <1>1, <1>2, <1>3, <1>4, <1>7 DEF s, t, s3, s2

LEMMA ThreeMore ==
    ASSUME NEW S, NEW s \in Seq(S), NEW p \in S, NEW q \in S, NEW r \in S
    PROVE  /\ s \o <<p, q, r>> = Append(Append(Append(s, p), q), r)
           /\ Append(s, p) \in Seq(S) /\ Append(Append(s, p), q) \in Seq(S)
           /\ Append(Append(Append(s, p), q), r) \in Seq(S)
<1> DEFINE n == Len(s)
           t == <<p, q, r>>
           a1 == Append(s, p)
           a2 == Append(a1, q)
           a == Append(a2, r)
           c == s \o t
<1>1. n \in Nat /\ t \in Seq(S) /\ Len(t) = 3 /\ t[1] = p /\ t[2] = q /\ t[3] = r
  OBVIOUS
<1> HIDE DEF t
<1>2. a1 \in Seq(S) /\ Len(a1) = n + 1 /\ a1[n + 1] = p /\ \A i \in 1 .. n : a1[i] = s[i]
  OBVIOUS
<1> HIDE DEF a1
<1>3. a2 \in Seq(S) /\ Len(a2) = n + 2 /\ a2[n + 2] = q /\ a2[n + 1] = p /\ \A i \in 1 .. n : a2[i] = s[i]
  BY <1>1, <1>2
<1> HIDE DEF a2
<1>4. /\ a \in Seq(S) /\ Len(a) = n + 3 /\ a[n + 3] = r /\ a[n + 2] = q /\ a[n + 1] = p
      /\ \A i \in 1 .. n : a[i] = s[i]
  BY <1>1, <1>3
<1>5. /\ c \in Seq(S) /\ Len(c) = n + 3 /\ c[n + 3] = r /\ c[n + 2] = q /\ c[n + 1] = p
      /\ \A i \in 1 .. n : c[i] = s[i]
  <2>1. /\ c \in Seq(S) /\ Len(c) = n + 3
        /\ \A i \in 1 .. n + 3 : c[i] = IF i <= n THEN s[i] ELSE t[i - n]
    <3>1. /\ c \in Seq(S) /\ Len(c) = Len(s) + Len(t)
          /\ \A i \in 1 .. Len(s) + Len(t) : c[i] = IF i <= Len(s) THEN s[i] ELSE t[i - Len(s)]
      BY <1>1, ConcatProperties
    <3>2. Len(s) + Len(t) = n + 3
      BY <1>1
    <3> HIDE DEF c
    <3> QED BY <3>1, <3>2
  <2>2. /\ n + 1 \in 1 .. n + 3 /\ n + 2 \in 1 .. n + 3 /\ n + 3 \in 1 .. n + 3
        /\ (n + 1) - n = 1 /\ (n + 2) - n = 2 /\ (n + 3) - n = 3
        /\ ~(n + 1 <= n) /\ ~(n + 2 <= n) /\ ~(n + 3 <= n)
        /\ \A i \in 1 .. n : i \in 1 .. n + 3 /\ i <= n
    BY <1>1
  <2> HIDE DEF c, n
  <2> QED BY <1>1, <2>1, <2>2
<1>6. \A i \in 1 .. n + 3 : i \in 1 .. n \/ i = n + 1 \/ i = n + 2 \/ i = n + 3
  BY <1>1
<1> HIDE DEF a, c, n
<1>7. a = c
  BY <1>1, <1>4, <1>5, <1>6, SeqEqual
<1> QED BY <1>2, <1>3, <1>4, <1>7 DEF a, c, a2, a1, t

Credential(realm, nonce, uri, username, algorithm, opaque, qop, nc, cnonce) ==
    [realm |-> realm, nonce |-> nonce, uri |-> uri, username |-> username, algorithm |-> algorithm,
     opaque |-> opaque, qop |-> qop, nc |-> nc, cnonce |-> cnonce]

LEMMA AuthRead ==
    ASSUME NEW realm, NEW nonce, NEW uri, NEW username, NEW algorithm, NEW opaque, NEW qop, NEW nc,
           NEW cnonce, NEW response, qop = None => nc = None /\ cnonce = None
    PROVE  LET h == [a |-> Credential(realm, nonce, uri, username, algorithm, opaque, qop, nc, cnonce),
                     response |-> response] IN
           parseAuthorization(strAuthorization(h), h.response) = h
<1> DEFINE a == Credential(realm, nonce, uri, username, algorithm, opaque, qop, nc, cnonce)
           h == [a |-> a, response |-> response]
           p1 == Param("username", <<username>>, TRUE)
           p2 == Param("realm", <<realm>>, TRUE)
           p3 == Param("nonce", <<nonce>>, TRUE)
           p4 == Param("uri", <<uri>>, TRUE)
           p5 == Param("algorithm", <<algorithm>>, FALSE)
           p6 == Param("qop", <<qop>>, FALSE)
           p7 == Param("nc", <<nc>>, FALSE)
           p8 == Param("cnonce", <<cnonce>>, TRUE)
           p9 == Param("opaque", <<opaque>>, TRUE)
           S == {p1, p2, p3, p4, p5, p6, p7, p8, p9}
           s1 == <<p1>>
           s2 == Append(s1, p2)
           s3 == Append(s2, p3)
           s4 == Append(s3, p4)
           s5 == IF algorithm # None THEN Append(s4, p5) ELSE s4
           s6 == Append(s5, p6)
           s7 == Append(s6, p7)
           s8 == IF qop # None THEN Append(s7, p8) ELSE s5
           s9 == IF opaque # None THEN Append(s8, p9) ELSE s8
<1>1. /\ p1.name = "username" /\ p1.value = <<username>> /\ p2.name = "realm" /\ p2.value = <<realm>>
      /\ p3.name = "nonce" /\ p3.value = <<nonce>> /\ p4.name = "uri" /\ p4.value = <<uri>>
      /\ p5.name = "algorithm" /\ p5.value = <<algorithm>> /\ p6.name = "qop" /\ p6.value = <<qop>>
      /\ p7.name = "nc" /\ p7.value = <<nc>> /\ p8.name = "cnonce" /\ p8.value = <<cnonce>>
      /\ p9.name = "opaque" /\ p9.value = <<opaque>>
  BY DEF Param
<1>2. /\ p1 \in S /\ p2 \in S /\ p3 \in S /\ p4 \in S /\ p5 \in S /\ p6 \in S /\ p7 \in S /\ p8 \in S
      /\ p9 \in S
  <2> HIDE DEF p1, p2, p3, p4, p5, p6, p7, p8, p9
  <2> QED OBVIOUS
<1>3. strAuthorization(h) = <<p1, p2, p3, p4>> \o If(algorithm # None, <<p5>>)
                            \o If(qop # None, <<p6, p7, p8>>) \o If(opaque # None, <<p9>>)
  <2>1. /\ h.a = a /\ a.realm = realm /\ a.nonce = nonce /\ a.uri = uri /\ a.username = username
        /\ a.algorithm = algorithm /\ a.opaque = opaque /\ a.qop = qop /\ a.nc = nc /\ a.cnonce = cnonce
    BY DEF Credential
  <2> HIDE DEF h, a
  <2> QED BY <2>1, Zenon DEF strAuthorization
<1> HIDE DEF p1, p2, p3, p4, p5, p6, p7, p8, p9, S
<1>4. s1 \in Seq(S) /\ s2 \in Seq(S) /\ s3 \in Seq(S) /\ s4 \in Seq(S)
  BY <1>2, FourParams
<1>e. s4 = <<p1, p2, p3, p4>>
  BY <1>2, FourParams
<1> HIDE DEF s4
<1>5. s4 \o If(algorithm # None, <<p5>>) = s5 /\ s5 \in Seq(S)
  <2>1. s4 \o <<p5>> = Append(s4, p5) /\ s4 \o <<>> = s4 /\ Append(s4, p5) \in Seq(S)
    BY <1>2, <1>4, ParamAdded
  <2> QED BY <1>4, <2>1, Zenon DEF If
<1> HIDE DEF s5
<1>6. s5 \o If(qop # None, <<p6, p7, p8>>) = s8 /\ s6 \in Seq(S) /\ s7 \in Seq(S) /\ s8 \in Seq(S)
  <2>1. /\ s5 \o <<p6, p7, p8>> = Append(s7, p8) /\ s6 \in Seq(S) /\ s7 \in Seq(S)
        /\ Append(s7, p8) \in Seq(S)
    BY <1>2, <1>5, ThreeMore
  <2>2. s5 \o <<>> = s5
    BY <1>5
  <2> HIDE DEF s7, s6
  <2> QED BY <1>5, <2>1, <2>2, Zenon DEF If
<1> HIDE DEF s8
<1>7. s8 \o If(opaque # None, <<p9>>) = s9
  <2>1. s8 \o <<p9>> = Append(s8, p9) /\ s8 \o <<>> = s8
    BY <1>2, <1>6, ParamAdded
  <2> QED BY <1>6, <2>1, Zenon DEF If
<1>8. strAuthorization(h) = s9
  <2> HIDE DEF s9, h
  <2> QED BY <1>3, <1>e, <1>5, <1>6, <1>7
<1>9. ASSUME NEW name, NEW d
      PROVE  Value(s9, name, d) =
                 IF opaque # None /\ "opaque" = name THEN <<opaque>>
                 ELSE IF qop # None /\ "cnonce" = name THEN <<cnonce>>
                 ELSE IF qop # None /\ "nc" = name THEN <<nc>>
                 ELSE IF qop # None /\ "qop" = name THEN <<qop>>
                 ELSE IF algorithm # None /\ "algorithm" = name THEN <<algorithm>>
                 ELSE IF "uri" = name THEN <<uri>>
                 ELSE IF "nonce" = name THEN <<nonce>>
                 ELSE IF "realm" = name THEN <<realm>>
                 ELSE IF "username" = name THEN <<username>> ELSE d
  <2>1. Value(s1, name, d) = IF p1.name = name THEN p1.value ELSE d
    BY <1>2, ValueFirst
  <2> HIDE DEF s1
  <2>2. Value(s2, name, d) = IF p2.name = name THEN p2.value ELSE Value(s1, name, d)
    BY <1>2, <1>4, ValueAppend
  <2> HIDE DEF s2
  <2>3. Value(s3, name, d) = IF p3.name = name THEN p3.value ELSE Value(s2, name, d)
    BY <1>2, <1>4, ValueAppend
  <2> HIDE DEF s3
  <2>4. Value(s4, name, d) = IF p4.name = name THEN p4.value ELSE Value(s3, name, d)
    BY <1>2, <1>4, ValueAppend DEF s4
  <2>5. Value(Append(s4, p5), name, d) = IF p5.name = name THEN p5.value ELSE Value(s4, name, d)
    BY <1>2, <1>4, ValueAppend
  <2>6. Value(s5, name, d) = IF algorithm # None /\ p5.name = name THEN p5.value ELSE Value(s4, name, d)
    BY <2>5, Zenon DEF s5
  <2>7. Value(s6, name, d) = IF p6.name = name THEN p6.value ELSE Value(s5, name, d)
    BY <1>2, <1>5, ValueAppend
  <2>8. Value(s7, name, d) = IF p7.name = name THEN p7.value ELSE Value(s6, name, d)
    <3> HIDE DEF s6
    <3> QED BY <1>2, <1>6, ValueAppend
  <2> HIDE DEF s6
  <2>9. Value(Append(s7, p8), name, d) = IF p8.name = name THEN p8.value ELSE Value(s7, name, d)
    <3> HIDE DEF s7
    <3> QED BY <1>2, <1>6, ValueAppend
  <2> HIDE DEF s7
  <2>10. Value(s8, name, d) = IF qop # None THEN Value(Append(s7, p8), name, d) ELSE Value(s5, name, d)
    BY Zenon DEF s8
  <2>11. Value(Append(s8, p9), name, d) = IF p9.name = name THEN p9.value ELSE Value(s8, name, d)
    BY <1>2, <1>6, ValueAppend
  <2>12. Value(s9, name, d) = IF opaque # None /\ p9.name = name THEN p9.value ELSE Value(s8, name, d)
    BY <2>11, Zenon
  <2> HIDE DEF s9
  <2> QED BY <1>1, <2>1, <2>2, <2>3, <2>4, <2>6, <2>7, <2>8, <2>9, <2>10, <2>12
<1> HIDE DEF s9
<1>10. /\ Value(s9, "realm", <<None>>)[1] = realm /\ Value(s9, "nonce", <<None>>)[1] = nonce
       /\ Value(s9, "uri", <<None>>)[1] = uri /\ Value(s9, "username", <<None>>)[1] = username
       /\ Value(s9, "algorithm", <<None>>)[1] = algorithm /\ Value(s9, "opaque", <<None>>)[1] = opaque
       /\ Value(s9, "qop", <<None>>)[1] = qop /\ Value(s9, "nc", <<None>>)[1] = nc
       /\ Value(s9, "cnonce", <<None>>)[1] = cnonce
  BY <1>9
<1>11. parseAuthorization(s9, response) = h
  BY <1>10, Zenon DEF parseAuthorization, Credential
<1>12. h.response = response
  OBVIOUS
<1> HIDE DEF h
<1>13. parseAuthorization(strAuthorization(h), h.response) = h
  BY <1>8, <1>11, <1>12
<1> QED BY <1>13 DEF h

LEMMA OneOnTheWay ==
    ASSUME NEW h, NEW i \in DOMAIN <<h>>
    PROVE  i = 1 /\ <<h>>[i] = h /\ RemoveAt(<<h>>, i) = <<>>
<1>1. DOMAIN <<h>> = {1}
  OBVIOUS
<1>2. i = 1
  BY <1>1
<1>3. <<h>> \in Seq({h}) /\ Len(<<h>>) = 1
  OBVIOUS
<1>4. SubSeq(<<h>>, 1, 0) = <<>> /\ SubSeq(<<h>>, 2, 1) = <<>>
  BY <1>3
<1>5. <<>> \o <<>> = <<>>
  OBVIOUS
<1> QED BY <1>2, <1>3, <1>4, <1>5 DEF RemoveAt

\* What the agent answers with is a qop that it knows, for an algorithm that it knows.
LEMMA SupportedFacts ==
    ASSUME NEW ch, ch.qop \in Seq(STRING)
    PROVE  /\ supportedAlgorithm(ch).qop \in Supported \cup {None}
           /\ supportedAlgorithm(ch).ok => ch.algorithm \in Algorithms
<1> DEFINE at == {i \in DOMAIN ch.qop : ch.qop[i] \in Supported}
<1>1. CASE ch.qop # <<>>
  <2>1. /\ supportedAlgorithm(ch).qop = IF at = {} THEN None ELSE ch.qop[Min(at)]
        /\ supportedAlgorithm(ch).ok <=> at # {} /\ ch.algorithm \in Algorithms
    BY <1>1 DEF supportedAlgorithm
  <2>2. at # {} => ch.qop[Min(at)] \in Supported
    <3> SUFFICES ASSUME at # {} PROVE ch.qop[Min(at)] \in Supported
      OBVIOUS
    <3>1. PICK n \in Nat : n = Len(ch.qop)
      OBVIOUS
    <3>2. at \subseteq 1 .. n
      BY <3>1
    <3>3. Min(at) \in at
      <4> HIDE DEF at
      <4> QED BY <3>2, MinIsIn
    <3> QED BY <3>3
  <2> QED BY <2>1, <2>2
<1>2. CASE ch.qop = <<>>
  <2>1. /\ supportedAlgorithm(ch).qop = None
        /\ supportedAlgorithm(ch).ok <=> ch.algorithm \in {None, "MD5"}
    BY <1>2 DEF supportedAlgorithm
  <2> QED BY <2>1 DEF Algorithms
<1> QED BY <1>1, <1>2

\* The credentials of the agent: the registrar reads what the agent wrote.
LEMMA WireKept ==
    ASSUME NEW ch, NEW pw, NEW qop \in Supported \cup {None}, ch.algorithm \in Algorithms
    PROVE  LET h == genAuthHF(ch, "user", pw, "REGISTER", Uri, "", qop) IN
           /\ h.a.algorithm = ch.algorithm /\ h.a.nonce = ch.nonce /\ h.a.qop \in Supported \cup {None}
           /\ h.response = DigestCalcResponse(h.a, DigestCalcHA1(h.a, pw), "REGISTER", "")
           /\ Wire(h) = h
<1> DEFINE h == genAuthHF(ch, "user", pw, "REGISTER", Uri, "", qop)
           counted == ch.qop # <<>> /\ qop # None
           q == IF counted THEN qop ELSE None
           nc == IF counted THEN "00000001" ELSE None
           cnonce == IF counted THEN "cnonce" ELSE None
           a == Credential(ch.realm, ch.nonce, Uri, "user", ch.algorithm, ch.opaque, q, nc, cnonce)
           response == DigestCalcResponse(a, DigestCalcHA1(a, pw), "REGISTER", "")
           g == [a |-> a, response |-> response]
<1>1. h = g
  BY Zenon DEF genAuthHF, Credential
<1>2. /\ a.algorithm = ch.algorithm /\ a.nonce = ch.nonce /\ a.qop = q
  BY DEF Credential
<1>3. q \in Supported \cup {None} /\ (q = None => nc = None /\ cnonce = None)
  OBVIOUS
<1> HIDE DEF q, nc, cnonce, response
<1>4. parseAuthorization(strAuthorization(g), g.response) = g
  BY <1>3, AuthRead
<1> HIDE DEF a
<1>5. g.a = a /\ g.response = response
  OBVIOUS
<1> HIDE DEF g
<1>6. g # NoAuth
  <2>1. NoAuth.a.algorithm = "absent"
    BY DEF NoAuth
  <2>2. g.a.algorithm \in Algorithms
    BY <1>2, <1>5
  <2> QED BY <2>1, <2>2 DEF Algorithms, None
<1>7. Wire(g) = g
  BY <1>4, <1>6 DEF Wire
<1> HIDE DEF h
<1>8. /\ h.a.algorithm = ch.algorithm /\ h.a.nonce = ch.nonce /\ h.a.qop \in Supported \cup {None}
      /\ h.response = DigestCalcResponse(h.a, DigestCalcHA1(h.a, pw), "REGISTER", "")
      /\ Wire(h) = h
  BY <1>1, <1>2, <1>3, <1>5, <1>7 DEF response
<1> QED BY <1>8 DEF h

-----------------------------------------------------------------------------
(* Registration: the invariant.                                            *)

KnownAlg(alg) == IF alg \in Algorithms THEN alg ELSE "MD5"

\* Credentials made from the password for a challenge of the past.
Credentials(h, pw, instant) ==
    /\ h.a.algorithm \in Algorithms /\ h.a.qop \in Supported \cup {None}
    /\ \E t \in 0 .. instant : h.a.nonce = emit_challenge(t, h.a.algorithm)
    /\ h.response = DigestCalcResponse(h.a, DigestCalcHA1(h.a, pw), "REGISTER", "")
    /\ Wire(h) = h

Held(h, pw, instant) == h = NoAuth \/ Credentials(h, pw, instant)

\* The last challenge was made at its time for its algorithm.
Made(n, instant) ==
    n.nonce # 0 => n.at \in 0 .. instant /\ n.nonce = emit_challenge(n.at, KnownAlg(n.algorithm))

\* One REGISTER is on the way, or one timer runs, or neither.
RegChain ==
    \/ sent = <<>> /\ regtimers \in {0, 1}
    \/ \E h : sent = <<h>> /\ Held(h, passw, clock) /\ regtimers = 0 /\ burst <= atries + 1

\* Neither only if the agent was stopped or has raised.
RegAlive == sent = <<>> /\ regtimers = 0 => dead \/ regraised

RegInv ==
    /\ passw \in {Secret, "wrong", None} /\ clock \in 0 .. MaxClock
    /\ dead \in BOOLEAN /\ regraised \in BOOLEAN /\ atries \in 0 .. 3 /\ burst \in 0 .. 4
    /\ RegAlive
    /\ Held(auth, passw, clock)
    /\ Made(issued, clock)
    /\ RegChain

\* The registrar judges credentials by the password and by the age of the nonce.
LEMMA Judged ==
    ASSUME NEW h, NEW pw, Credentials(h, pw, clock), clock \in Nat, VTime \in Nat
    PROVE  Accepts(h) <=> pw = Secret /\ clock - (h.a.nonce \div Masks) <= VTime
<1> DEFINE alg == h.a.algorithm
           R(p) == DigestCalcResponse(h.a, DigestCalcHA1(h.a, p), "REGISTER", "")
<1>1. /\ alg \in Algorithms /\ h.a.qop \in Supported \cup {None} /\ h.response = R(pw)
  BY DEF Credentials
<1>2. PICK t \in 0 .. clock : h.a.nonce = emit_challenge(t, alg)
  BY DEF Credentials
<1>3. /\ h.a.nonce \div Masks = t /\ HasBit(h.a.nonce, AlgMask(alg))
  <2>1. t \in Nat
    OBVIOUS
  <2> DEFINE n == emit_challenge(t, alg)
  <2>2. n \div Masks = t /\ \A b \in Algorithms : HasBit(n, AlgMask(b)) <=> AlgMask(b) = AlgMask(alg)
    <3> HIDE DEF alg
    <3> QED BY <1>1, <2>1, NonceFacts
  <2>3. HasBit(n, AlgMask(alg))
    BY <1>1, <2>2
  <2> QED BY <1>2, <2>2, <2>3
<1>4. R(Secret) = R(pw) <=> pw = Secret
  <2>1. \A p : R(p).HA1.password = p
    BY DEF DigestCalcResponse, DigestCalcHA1
  <2> HIDE DEF R
  <2> QED BY <2>1
<1>5. h # NoAuth
  <2>1. NoAuth.a.algorithm = "absent"
    BY DEF NoAuth
  <2> QED BY <1>1, <2>1 DEF Algorithms, None
<1>6. validate_challenge(h.a.nonce, alg, clock) <=> clock - t <= VTime
  BY <1>2, <1>3 DEF validate_challenge
<1>7. verify(h, Secret, "REGISTER", "", clock) <=> pw = Secret /\ clock - t <= VTime
  <2> HIDE DEF alg
  <2>1. verify(h, Secret, "REGISTER", "", clock) <=>
            /\ h.a.qop \in Supported \cup {None} /\ validate_challenge(h.a.nonce, alg, clock)
            /\ R(Secret) = h.response
    BY DEF verify, alg
  <2> HIDE DEF R
  <2> QED BY <1>1, <1>4, <1>6, <2>1
<1> QED BY <1>3, <1>5, <1>7 DEF Accepts

LEMMA HeldLater ==
    ASSUME NEW h, NEW pw, NEW instant \in Nat, NEW later \in Nat, instant <= later, Held(h, pw, instant)
    PROVE  Held(h, pw, later)
<1>1. CASE h = NoAuth
  BY <1>1 DEF Held
<1>2. CASE Credentials(h, pw, instant)
  <2>1. 0 .. instant \subseteq 0 .. later
    OBVIOUS
  <2>2. Credentials(h, pw, later)
    BY <1>2, <2>1, Zenon DEF Credentials
  <2> QED BY <2>2 DEF Held
<1> QED BY <1>1, <1>2 DEF Held

LEMMA WiredHeld == ASSUME NEW h, NEW pw, NEW instant, Held(h, pw, instant) PROVE Wire(h) = h
BY DEF Held, Credentials, Wire

\* What the agent makes of a challenge that it can answer.
LEMMA ChallengeAnswered ==
    ASSUME NEW alg, NEW qop \in Seq(STRING), NEW pw, clock \in Nat
    PROVE  LET ch == parseChallenge(Challenge(alg, qop))
               sup == supportedAlgorithm(ch) IN
           /\ ch.nonce = emit_challenge(clock, KnownAlg(ch.algorithm))
           /\ sup.ok => Credentials(genAuthHF(ch, "user", pw, "REGISTER", Uri, "", sup.qop), pw, clock)
<1> DEFINE ch == parseChallenge(Challenge(alg, qop))
           known == IF alg \in Algorithms THEN alg ELSE "MD5"
           sup == supportedAlgorithm(ch)
           h == genAuthHF(ch, "user", pw, "REGISTER", Uri, "", sup.qop)
<1>1. /\ ch.nonce = emit_challenge(clock, known) /\ ch.qop = qop
      /\ ch.algorithm = (IF alg = "md5" THEN "MD5" ELSE alg)
  BY ChallengeRead
<1> HIDE DEF ch
<1>2. known = KnownAlg(ch.algorithm)
  BY <1>1 DEF KnownAlg, Algorithms, None
<1>3. sup.qop \in Supported \cup {None} /\ (sup.ok => ch.algorithm \in Algorithms)
  BY <1>1, SupportedFacts
<1>4. ASSUME ch.algorithm \in Algorithms PROVE Credentials(h, pw, clock)
  <2>0. PICK u, c : u = sup.qop /\ c = ch
    OBVIOUS
  <2> DEFINE g == genAuthHF(c, "user", pw, "REGISTER", Uri, "", u)
  <2>1. /\ g.a.algorithm = c.algorithm /\ g.a.nonce = c.nonce /\ g.a.qop \in Supported \cup {None}
        /\ g.response = DigestCalcResponse(g.a, DigestCalcHA1(g.a, pw), "REGISTER", "")
        /\ Wire(g) = g
    <3>1. u \in Supported \cup {None} /\ c.algorithm \in Algorithms
      BY <1>3, <1>4, <2>0
    <3> QED BY <3>1, WireKept
  <2>2. g = h /\ c = ch
    BY <2>0
  <2> HIDE DEF g, h
  <2>3. ch.nonce = emit_challenge(clock, ch.algorithm) /\ clock \in 0 .. clock
    BY <1>1, <1>2, <1>4 DEF KnownAlg
  <2>4. Credentials(g, pw, clock)
    BY <1>4, <2>1, <2>2, <2>3, Zenon DEF Credentials
  <2> QED BY <2>2, <2>4
<1>5. ch.nonce = emit_challenge(clock, KnownAlg(ch.algorithm))
  BY <1>1, <1>2
<1>6. sup.ok => Credentials(h, pw, clock)
  <2> HIDE DEF h
  <2> QED BY <1>3, <1>4
<1> QED BY <1>5, <1>6 DEF ch

LEMMA RegInvInit == RegInit => RegInv
<1> SUFFICES ASSUME RegInit PROVE RegInv
  OBVIOUS
<1>1. Held(auth, passw, clock)
  BY DEF RegInit, Held
<1>2. Made(issued, clock)
  BY DEF RegInit, Made
<1>3. RegChain
  BY DEF RegInit, RegChain
<1>4. /\ clock \in 0 .. MaxClock /\ dead \in BOOLEAN /\ regraised \in BOOLEAN
      /\ atries \in 0 .. 3 /\ burst \in 0 .. 4
  <2>1. dead \in BOOLEAN /\ regraised \in BOOLEAN
    BY Zenon DEF RegInit
  <2>2. MaxClock \in Nat
    BY RegAssumption
  <2>3. clock = 0 /\ atries = 0 /\ burst = 0
    BY DEF RegInit
  <2> QED BY <2>1, <2>2, <2>3
<1>5. RegAlive
  BY DEF RegInit, RegAlive
<1> QED BY <1>1, <1>2, <1>3, <1>4, <1>5 DEF RegInit, RegInv

LEMMA RegInvStep == RegInv /\ [RegNext]_regVars => RegInv'
<1> SUFFICES ASSUME RegInv, [RegNext]_regVars PROVE RegInv'
  OBVIOUS
<1>0. /\ passw \in {Secret, "wrong", None} /\ clock \in 0 .. MaxClock /\ clock \in Nat
      /\ dead \in BOOLEAN /\ atries \in 0 .. 3 /\ burst \in 0 .. 4 /\ MaxClock \in Nat
      /\ regraised \in BOOLEAN
  BY RegAssumption DEF RegInv
<1>h. Held(auth, passw, clock) /\ Made(issued, clock) /\ RegChain /\ RegAlive
  BY DEF RegInv
<1>1. CASE UNCHANGED regVars
  <2>1. /\ passw' = passw /\ clock' = clock /\ dead' = dead /\ atries' = atries /\ auth' = auth
        /\ sent' = sent /\ regtimers' = regtimers /\ issued' = issued /\ burst' = burst
        /\ regraised' = regraised
    BY <1>1 DEF regVars
  <2>2. RegChain' /\ RegAlive'
    BY <1>h, <2>1, Zenon DEF RegChain, RegAlive
  <2> QED BY <1>0, <1>h, <2>1, <2>2 DEF RegInv
<1>2. CASE doregister
  <2>1. /\ regtimers > 0 /\ regtimers' = regtimers - 1
        /\ UNCHANGED <<passw, clock, dead, atries, auth, issued, regraised>>
    BY <1>2 DEF doregister
  <2>2. sent = <<>> /\ regtimers = 1
    BY <1>h, <2>1 DEF RegChain
  <2>3. CASE dead
    <3>1. sent' = sent /\ burst' = burst
      BY <1>2, <2>3 DEF doregister
    <3>2. RegChain'
      BY <2>1, <2>2, <3>1 DEF RegChain
    <3>3. RegAlive'
      BY <2>1, <2>3, Zenon DEF RegAlive
    <3> QED BY <1>0, <1>h, <2>1, <3>1, <3>2, <3>3 DEF RegInv
  <2>4. CASE ~dead
    <3>1. sent' = Append(sent, Wire(auth)) /\ burst' = 1
      BY <1>2, <2>4 DEF doregister
    <3>2. sent' = <<auth>>
      <4>1. Wire(auth) = auth
        BY <1>h, WiredHeld
      <4> QED BY <2>2, <3>1, <4>1
    <3>3. regtimers' = 0 /\ burst' <= atries' + 1
      BY <1>0, <2>1, <2>2, <3>1
    <3>4. RegChain'
      BY <1>h, <2>1, <3>2, <3>3, Zenon DEF RegChain
    <3>5. RegAlive'
      BY <3>2 DEF RegAlive
    <3> QED BY <1>0, <1>h, <2>1, <3>1, <3>4, <3>5 DEF RegInv
  <2> QED BY <2>3, <2>4
<1>3. CASE stopregister
  <2>1. /\ dead' = TRUE /\ UNCHANGED <<passw, clock, atries, auth, sent, regtimers, issued, burst, regraised>>
    BY <1>3 DEF stopregister
  <2>2. RegChain' /\ RegAlive'
    BY <1>h, <2>1, Zenon DEF RegChain, RegAlive
  <2> QED BY <1>0, <1>h, <2>1, <2>2 DEF RegInv
<1>4. CASE RegTick
  <2>1. /\ clock' = clock + 1 /\ clock < MaxClock
        /\ UNCHANGED <<passw, dead, atries, auth, sent, regtimers, issued, burst, regraised>>
    BY <1>4 DEF RegTick
  <2>2. PICK instant \in Nat, later \in Nat : instant = clock /\ later = clock' /\ instant <= later /\ later \in 0 .. MaxClock
    BY <1>0, <2>1
  <2>3. PICK pw : pw = passw
    OBVIOUS
  <2>4. \A h : Held(h, pw, instant) => Held(h, pw, later)
    BY <2>2, HeldLater
  <2>5. Held(auth, passw, clock)'
    BY <1>h, <2>1, <2>2, <2>3, <2>4
  <2>6. Made(issued, clock)'
    <3>1. 0 .. clock \subseteq 0 .. clock'
      BY <1>0, <2>1
    <3> QED BY <1>h, <2>1, <3>1, Zenon DEF Made
  <2>7. RegChain'
    <3>1. CASE sent = <<>> /\ regtimers \in {0, 1}
      BY <2>1, <3>1 DEF RegChain
    <3>2. CASE \E h : sent = <<h>> /\ Held(h, passw, clock) /\ regtimers = 0 /\ burst <= atries + 1
      <4>1. PICK h : sent = <<h>> /\ Held(h, passw, clock) /\ regtimers = 0 /\ burst <= atries + 1
        BY <3>2
      <4>2. Held(h, passw', clock')
        BY <2>1, <2>2, <2>3, <2>4, <4>1
      <4> QED BY <2>1, <4>1, <4>2, Zenon DEF RegChain
    <3> QED BY <1>h, <3>1, <3>2 DEF RegChain
  <2>8. RegAlive'
    BY <1>h, <2>1, Zenon DEF RegAlive
  <2> QED BY <1>0, <2>1, <2>2, <2>5, <2>6, <2>7, <2>8 DEF RegInv
<1>5. CASE FinalAnswer
  <2>1. PICK i \in DOMAIN sent :
            \/ gotreplyOk(i) \/ gotreplyFail(i) \/ Raises(i) \/ gotreplyOkRaises(i)
            \/ \E alg \in Offers, qop \in Qops : gotreplyChallenge(i, alg, qop)
    BY <1>5, Zenon DEF FinalAnswer, gotreplyOkUnread, gotreplyFailRaises, gotreplyChallengeUnread
  <2>2. PICK h : sent = <<h>> /\ Held(h, passw, clock) /\ regtimers = 0 /\ burst <= atries + 1
    <3>1. sent # <<>>
      BY <2>1
    <3> QED BY <1>h, <3>1 DEF RegChain
  <2>3. RemoveAt(sent, i) = <<>>
    BY <2>1, <2>2, OneOnTheWay
  <2>4. ASSUME sent' = RemoveAt(sent, i), regtimers' = regtimers + (IF dead THEN 0 ELSE 1),
               atries' = IF dead THEN atries ELSE 0,
               passw' = passw, clock' = clock, dead' = dead, auth' = auth, burst' = burst,
               Made(issued, clock)', regraised' = regraised
        PROVE  RegInv'
    <3>1. sent' = <<>> /\ regtimers' \in {0, 1} /\ atries' \in 0 .. 3
      BY <1>0, <2>2, <2>3, <2>4
    <3>2. RegChain'
      BY <3>1 DEF RegChain
    <3>3. RegAlive'
      <4>1. CASE dead
        BY <2>4, <4>1, Zenon DEF RegAlive
      <4>2. CASE ~dead
        <5>1. regtimers' = 1
          BY <2>2, <2>4, <4>2
        <5> QED BY <5>1 DEF RegAlive
      <4> QED BY <4>1, <4>2
    <3> QED BY <1>0, <1>h, <2>4, <3>1, <3>2, <3>3 DEF RegInv
  <2>5. CASE gotreplyOk(i)
    <3>1. Made(issued, clock)'
      BY <1>h, <2>5, Zenon DEF gotreplyOk
    <3> QED BY <2>4, <2>5, <3>1 DEF gotreplyOk
  <2>6. CASE gotreplyFail(i)
    <3>1. Made(issued, clock)'
      BY <1>h, <2>6, Zenon DEF gotreplyFail
    <3> QED BY <2>4, <2>6, <3>1 DEF gotreplyFail, Later
  <2>7. ASSUME NEW alg \in Offers, NEW qop \in Qops, gotreplyChallenge(i, alg, qop)
        PROVE  RegInv'
    <3> DEFINE ch == parseChallenge(Challenge(alg, qop))
               sup == supportedAlgorithm(ch)
               g == genAuthHF(ch, "user", passw, "REGISTER", Uri, "", sup.qop)
    <3>1. /\ IF ~dead /\ passw # None /\ atries < 3 /\ sup.ok THEN Answers(i, g) ELSE Later(i)
          /\ issued' = [nonce |-> ch.nonce, algorithm |-> ch.algorithm, at |-> clock]
          /\ UNCHANGED <<passw, clock, dead, regraised>>
      BY <2>7, Zenon DEF gotreplyChallenge, Willing
    <3>2. /\ ch.nonce = emit_challenge(clock, KnownAlg(ch.algorithm))
          /\ sup.ok => Credentials(g, passw, clock)
      <4>1. qop \in Seq(STRING)
        BY RegAssumption
      <4>2. PICK pw : pw = passw
        OBVIOUS
      <4> QED BY <1>0, <4>1, <4>2, ChallengeAnswered
    <3> HIDE DEF ch, g
    <3>3. Made(issued, clock)'
      <4>1. issued'.nonce = ch.nonce /\ issued'.algorithm = ch.algorithm /\ issued'.at = clock
        BY <3>1
      <4>2. clock' = clock /\ clock \in 0 .. clock
        BY <1>0, <3>1
      <4> QED BY <3>2, <4>1, <4>2 DEF Made
    <3>4. CASE ~dead /\ passw # None /\ atries < 3 /\ sup.ok
      <4>1. Answers(i, g)
        BY <3>1, <3>4
      <4>2. /\ auth' = g /\ atries' = atries + 1 /\ burst' = burst + 1 /\ regtimers' = regtimers
            /\ sent' = Append(RemoveAt(sent, i), Wire(g))
        BY <4>1 DEF Answers
      <4>3. Held(g, passw, clock)
        BY <3>2, <3>4 DEF Held
      <4>4. Wire(g) = g
        BY <4>3, WiredHeld
      <4>5. sent' = <<g>>
        BY <2>3, <4>2, <4>4
      <4>6. /\ atries' \in 0 .. 3 /\ burst' \in 0 .. 4 /\ burst' <= atries' + 1 /\ regtimers' = 0
        BY <1>0, <2>2, <3>4, <4>2
      <4>7. Held(g, passw', clock')
        BY <3>1, <4>3
      <4>8. RegChain'
        BY <4>5, <4>6, <4>7, Zenon DEF RegChain
      <4>9. RegAlive'
        BY <4>5 DEF RegAlive
      <4> QED BY <1>0, <3>1, <3>3, <4>2, <4>6, <4>7, <4>8, <4>9 DEF RegInv
    <3>5. CASE ~(~dead /\ passw # None /\ atries < 3 /\ sup.ok)
      <4>1. Later(i)
        BY <3>1, <3>5
      <4> QED BY <2>4, <3>1, <3>3, <4>1 DEF Later
    <3> QED BY <3>4, <3>5
  <2>8. ASSUME sent' = RemoveAt(sent, i), regtimers' \in {0, 1}, atries' = atries,
               passw' = passw, clock' = clock, dead' = dead, auth' = auth, burst' = burst,
               issued' = issued, regraised' \in BOOLEAN, regraised' \/ regtimers' = 1
        PROVE  RegInv'
    <3>0. sent' = <<>> /\ regtimers' \in {0, 1}
      BY <2>3, <2>8
    <3>1. RegChain'
      BY <3>0 DEF RegChain
    <3>2. RegAlive'
      <4>1. CASE regraised'
        BY <4>1, Zenon DEF RegAlive
      <4>2. CASE regtimers' = 1
        BY <4>2 DEF RegAlive
      <4> QED BY <2>8, <4>1, <4>2
    <3>3. Made(issued, clock)' /\ Held(auth, passw, clock)'
      BY <1>h, <2>8, Zenon
    <3> QED BY <1>0, <2>8, <3>1, <3>2, <3>3 DEF RegInv
  <2>9. CASE Raises(i)
    <3>1. regraised' = TRUE /\ regtimers' = 0
      BY <2>2, <2>9 DEF Raises
    <3> QED BY <2>8, <2>9, <3>1, Zenon DEF Raises
  <2>10. CASE gotreplyOkRaises(i)
    <3>1. regtimers' = 1
      BY <2>2, <2>10 DEF gotreplyOkRaises
    <3> QED BY <1>0, <2>8, <2>10, <3>1, Zenon DEF gotreplyOkRaises
  <2> QED BY <2>1, <2>5, <2>6, <2>7, <2>9, <2>10
<1> QED BY <1>1, <1>2, <1>3, <1>4, <1>5 DEF RegNext

LEMMA RegInvSound == RegInv => RegistrationSound
<1> SUFFICES ASSUME RegInv PROVE RegistrationSound
  OBVIOUS
<1>0. /\ passw \in {Secret, "wrong", None} /\ clock \in 0 .. MaxClock /\ clock \in Nat
      /\ dead \in BOOLEAN /\ atries \in 0 .. 3 /\ burst \in 0 .. 4 /\ VTime \in Nat
      /\ regraised \in BOOLEAN
  BY RegAssumption DEF RegInv
<1>h. Made(issued, clock) /\ RegChain /\ RegAlive
  BY DEF RegInv
<1>s. ASSUME NEW i \in DOMAIN sent
      PROVE  Held(sent[i], passw, clock)
  <2>1. sent # <<>>
    OBVIOUS
  <2>2. PICK h : sent = <<h>> /\ Held(h, passw, clock)
    BY <1>h, <2>1 DEF RegChain
  <2>3. sent[i] = h
    BY <2>2, OneOnTheWay
  <2> QED BY <2>2, <2>3
<1>1. OneChain
  <2>1. CASE sent = <<>> /\ regtimers \in {0, 1}
    <3>1. Len(sent) = 0
      BY <2>1
    <3> QED BY <1>h, <2>1, <3>1 DEF OneChain, RegAlive
  <2>2. CASE \E h : sent = <<h>> /\ regtimers = 0
    <3>1. Len(sent) = 1
      BY <2>2
    <3> QED BY <2>2, <3>1 DEF OneChain
  <2> QED BY <1>h, <2>1, <2>2 DEF RegChain
<1>2. NoHammering
  BY <1>0 DEF NoHammering
<1>3. RegTypeOK
  <2>1. regtimers \in Nat
    BY <1>h DEF RegChain
  <2>2. ASSUME NEW i \in DOMAIN sent PROVE sent[i].a.algorithm \in Algorithms \cup {"absent"}
    <3>1. CASE sent[i] = NoAuth
      BY <3>1 DEF NoAuth
    <3>2. CASE Credentials(sent[i], passw, clock)
      BY <3>2 DEF Credentials
    <3> QED BY <1>s, <3>1, <3>2 DEF Held
  <2> QED BY <1>0, <2>1, <2>2 DEF RegTypeOK
<1>4. CredentialsJudged
  <2> SUFFICES ASSUME NEW i \in DOMAIN sent, sent[i] # NoAuth
               PROVE  Accepts(sent[i]) <=> passw = Secret /\ clock - (sent[i].a.nonce \div Masks) <= VTime
    BY DEF CredentialsJudged
  <2>1. Credentials(sent[i], passw, clock)
    BY <1>s DEF Held
  <2>2. PICK h, pw : h = sent[i] /\ pw = passw
    OBVIOUS
  <2>3. Accepts(h) <=> pw = Secret /\ clock - (h.a.nonce \div Masks) <= VTime
    BY <1>0, <2>1, <2>2, Judged
  <2> QED BY <2>2, <2>3
<1>5. NonceMeans
  <2> SUFFICES ASSUME issued.nonce # 0, NEW alg \in Algorithms
               PROVE  validate_challenge(issued.nonce, alg, clock) =
                        (/\ issued.algorithm \in Algorithms => AlgMask(alg) = AlgMask(issued.algorithm)
                         /\ issued.algorithm \notin Algorithms => AlgMask(alg) = 1
                         /\ clock - issued.at <= VTime)
    BY DEF NonceMeans
  <2> DEFINE known == KnownAlg(issued.algorithm)
  <2>1. /\ issued.at \in 0 .. clock /\ issued.nonce = emit_challenge(issued.at, known)
    BY <1>h DEF Made
  <2>2. known \in Algorithms
    BY DEF KnownAlg, Algorithms
  <2>3. PICK t \in Nat, k \in Algorithms : t = issued.at /\ k = known /\ t <= clock
    BY <1>0, <2>1, <2>2
  <2> HIDE DEF known
  <2>4. /\ issued.nonce \div Masks = t
        /\ HasBit(issued.nonce, AlgMask(alg)) <=> AlgMask(alg) = AlgMask(k)
    BY <2>1, <2>3, NonceFacts
  <2>5. AlgMask(k) = IF issued.algorithm \in Algorithms THEN AlgMask(issued.algorithm) ELSE 1
    <3>1. AlgMask("MD5") = 1
      BY DEF AlgMask, None
    <3> QED BY <2>3, <3>1 DEF known, KnownAlg
  <2>6. validate_challenge(issued.nonce, alg, clock) <=>
            AlgMask(alg) = AlgMask(k) /\ clock - t <= VTime
    BY <1>0, <2>3, <2>4 DEF validate_challenge
  <2> QED BY <2>3, <2>5, <2>6 DEF validate_challenge
<1> QED BY <1>1, <1>2, <1>3, <1>4, <1>5 DEF RegistrationSound

\* Whatever the registrar offers, answers or leaves unanswered, and whenever the agent
\* is stopped: what one side computes, writes and reads of a digest is what the other
\* side computes, and one chain of at most four REGISTERs in a row goes on until
\* gotreply() raises before its timer.
THEOREM RegistrationIsSound == RegSpec => []RegistrationSound
<1>1. RegInit => RegInv
  BY RegInvInit
<1>2. RegInv /\ [RegNext]_regVars => RegInv'
  BY RegInvStep
<1>3. RegInv => RegistrationSound
  BY RegInvSound
<1> QED BY <1>1, <1>2, <1>3, PTL DEF RegSpec

-----------------------------------------------------------------------------
(* Accounting records.                                                     *)

RecordTypes == {"Start", "Alive", "Stop"}
Record == [type : RecordTypes, time : Int]
Times == Nat \cup {Unknown}

\* Which records there are and what they say.
RecordOK(r, i, last, closed, answered, ended) ==
    /\ r.type = "Stop" => /\ i = last /\ closed = "yes"
                          /\ r.time = (IF answered = Unknown THEN 0 ELSE ended - answered)
    /\ r.type = "Start" => i = 1
    /\ r.type = "Alive" => answered # Unknown

Closed == IF drec THEN "yes" ELSE "no"

\* Where the leg and its record are, and what has been sent for it.
RadInv ==
    /\ leg \in {"setup", "connected", "over"} /\ now \in Nat
    /\ connectTs \in Times /\ endTs \in Times
    /\ made \in BOOLEAN /\ crec \in BOOLEAN /\ drec \in BOOLEAN /\ el \in BOOLEAN
    /\ records \in Seq(Record)
    /\ drec <=> leg = "over" /\ made
    /\ endTs = Unknown <=> leg # "over"
    /\ leg = "setup" => connectTs = Unknown /\ records = <<>> /\ ~crec
    /\ leg = "connected" => connectTs # Unknown
    /\ el => leg = "connected" /\ made
    /\ ~made => records = <<>> /\ connectTs = Unknown /\ leg # "connected"
    /\ drec => Len(records) > 0 /\ records[Len(records)].type = "Stop"
    /\ \A i \in 1 .. Len(records) : RecordOK(records[i], i, Len(records), Closed, connectTs, endTs)

LEMMA RecordSent ==
    ASSUME NEW rs \in Seq(Record), NEW type \in RecordTypes, NEW time \in Int
    PROVE  LET r == [type |-> type, time |-> time] IN
           /\ r \in Record /\ Append(rs, r) \in Seq(Record) /\ Len(Append(rs, r)) = Len(rs) + 1
           /\ Append(rs, r)[Len(rs) + 1] = r /\ r.type = type /\ r.time = time
           /\ \A i \in 1 .. Len(rs) : Append(rs, r)[i] = rs[i]
<1> DEFINE r == [type |-> type, time |-> time]
<1>1. r \in Record /\ r.type = type /\ r.time = time
  BY DEF Record
<1> HIDE DEF r
<1>2. /\ Append(rs, r) \in Seq(Record) /\ Len(Append(rs, r)) = Len(rs) + 1
      /\ Append(rs, r)[Len(rs) + 1] = r /\ \A i \in 1 .. Len(rs) : Append(rs, r)[i] = rs[i]
  BY <1>1
<1> QED BY <1>1, <1>2 DEF r

LEMMA RadInvInit == RadInit => RadInv
<1> SUFFICES ASSUME RadInit PROVE RadInv
  OBVIOUS
<1>1. leg = "setup" /\ now = 0 /\ connectTs = Unknown /\ endTs = Unknown /\ records = <<>>
  BY DEF RadInit
<1>2. made = FALSE /\ crec = FALSE /\ drec = FALSE /\ el = FALSE
  BY DEF RadInit
<1>3. /\ made \in BOOLEAN /\ crec \in BOOLEAN /\ drec \in BOOLEAN /\ el \in BOOLEAN
      /\ ~made /\ ~crec /\ ~drec /\ ~el
  BY <1>2, Zenon
<1>4. <<>> \in Seq(Record) /\ Len(<<>>) = 0
  OBVIOUS
<1>5. \A i \in 1 .. Len(records) : RecordOK(records[i], i, Len(records), Closed, connectTs, endTs)
  BY <1>1, <1>4
<1> QED BY <1>1, <1>3, <1>4, <1>5 DEF RadInv, Times, Unknown

\* A Stop closes the record with the time that the leg took.
LEMMA ClosesRecord ==
    ASSUME RadInv, disc, made, made' = made, leg' = "over", connectTs' = connectTs,
           endTs' = Known(endTs, now), now' = now, crec' = crec
    PROVE  RadInv'
<1>0. /\ leg \in {"setup", "connected", "over"} /\ now \in Nat
      /\ connectTs \in Times /\ endTs \in Times /\ records \in Seq(Record)
  BY DEF RadInv
<1>1. endTs' \in Nat /\ endTs' # Unknown
  BY <1>0 DEF Known, Times, Unknown
<1>2. drec' = TRUE /\ drec' \in BOOLEAN /\ Closed' = "yes"
  BY Zenon DEF disc, Closed
<1>3. CASE drec
  <2>1. records' = records /\ el' = el
    BY <1>3 DEF disc
  <2>2. endTs' = endTs
    BY <1>3 DEF RadInv, Known
  <2>3. Closed = "yes"
    BY <1>3 DEF Closed
  <2> QED BY <1>1, <1>2, <1>3, <2>1, <2>2, <2>3 DEF RadInv
<1>4. CASE ~drec
  <2>1. el' = FALSE /\ el' \in BOOLEAN
    BY <1>4, Zenon DEF disc
  <2>2. leg # "over" /\ endTs = Unknown /\ endTs' = now /\ Closed = "no"
    BY <1>4 DEF RadInv, Known, Closed
  <2> DEFINE time == IF connectTs = Unknown THEN 0 ELSE now - connectTs
             n == Len(records)
  <2>3. records' = Append(records, [type |-> "Stop", time |-> time])
    BY <1>4, <2>2 DEF disc, asend, Duration, Known
  <2>4. time \in Int /\ "Stop" \in RecordTypes /\ n \in Nat
    BY <1>0 DEF Times, Unknown, RecordTypes
  <2>5. time = IF connectTs' = Unknown THEN 0 ELSE endTs' - connectTs'
    BY <2>2
  <2>6. PICK x \in Int, rs \in Seq(Record) : x = time /\ rs = records
    BY <1>0, <2>4
  <2> HIDE DEF time
  <2>7. /\ records' \in Seq(Record) /\ Len(records') = n + 1
        /\ records'[n + 1].type = "Stop" /\ records'[n + 1].time = time
        /\ \A i \in 1 .. n : records'[i] = records[i]
    BY <2>3, <2>4, <2>6, RecordSent
  <2>8. ASSUME NEW i \in 1 .. n + 1
        PROVE  RecordOK(records'[i], i, n + 1, Closed', connectTs', endTs')
    <3>1. CASE i = n + 1
      BY <1>2, <2>5, <2>7, <3>1 DEF RecordOK
    <3>2. CASE i \in 1 .. n
      <4>1. RecordOK(records[i], i, n, Closed, connectTs, endTs)
        BY <3>2 DEF RadInv
      <4>2. records'[i] = records[i]
        BY <2>7, <3>2
      <4> QED BY <2>2, <4>1, <4>2 DEF RecordOK
    <3> QED BY <2>4, <3>1, <3>2
  <2>9. Len(records') > 0 /\ records'[Len(records')].type = "Stop"
    BY <2>4, <2>7
  <2>10. /\ \A i \in 1 .. Len(records') : RecordOK(records'[i], i, Len(records'), Closed', connectTs', endTs')
    BY <2>7, <2>8
  <2> HIDE DEF n
  <2> QED BY <1>0, <1>1, <1>2, <2>1, <2>7, <2>9, <2>10 DEF RadInv, Times
<1> QED BY <1>3, <1>4

LEMMA RadInvStep == RadInv /\ [RadNext]_radVars => RadInv'
<1> SUFFICES ASSUME RadInv, [RadNext]_radVars PROVE RadInv'
  OBVIOUS
<1>0. /\ leg \in {"setup", "connected", "over"} /\ now \in Nat
      /\ connectTs \in Times /\ endTs \in Times /\ records \in Seq(Record)
  BY DEF RadInv
<1>b. /\ made \in BOOLEAN /\ crec \in BOOLEAN /\ drec \in BOOLEAN /\ el \in BOOLEAN
  BY DEF RadInv
<1>1. CASE UNCHANGED radVars
  <2>1. UNCHANGED <<leg, now, connectTs, endTs, made, crec, drec, el, records>>
    BY <1>1 DEF radVars
  <2> QED BY <2>1 DEF RadInv, Closed
<1>2. CASE RadTick
  <2>1. now' = now + 1 /\ UNCHANGED <<leg, connectTs, endTs, made, crec, drec, el, records>>
    BY <1>2 DEF RadTick
  <2>2. now' \in Nat
    BY <1>0, <2>1
  <2> QED BY <2>1, <2>2 DEF RadInv, Closed
<1>3. CASE conn
  <2>1. /\ made /\ leg = "setup" /\ leg' = "connected" /\ connectTs' = now
        /\ now' = now /\ endTs' = endTs /\ made' = made /\ drec' = drec
    BY <1>3 DEF conn
  <2>2. connectTs = Unknown /\ records = <<>> /\ ~crec /\ ~drec /\ endTs = Unknown /\ Len(records) = 0
    BY <2>1 DEF RadInv
  <2>3. crec' = TRUE /\ crec' \in BOOLEAN /\ el' \in BOOLEAN /\ ~drec' /\ Closed' = "no"
    <3>1. crec' = TRUE /\ crec' \in BOOLEAN
      BY <1>3, Zenon DEF conn
    <3>2. el' \in BOOLEAN
      BY <1>3 DEF conn
    <3>3. ~drec'
      BY <2>1, <2>2, Zenon
    <3> QED BY <3>1, <3>2, <3>3 DEF Closed
  <2>4. now # Unknown
    BY <1>0 DEF Unknown
  <2>5. CASE ~sendStart
    <3>1. records' = records
      BY <1>3, <2>5 DEF conn
    <3>2. \A i \in 1 .. Len(records') : RecordOK(records'[i], i, Len(records'), Closed', connectTs', endTs')
      BY <2>2, <3>1
    <3> QED BY <1>0, <1>b, <2>1, <2>2, <2>3, <2>4, <3>1, <3>2 DEF RadInv, Times
  <2>6. CASE sendStart
    <3>1. records' = Append(records, [type |-> "Start", time |-> 0])
      BY <1>3, <2>2, <2>6 DEF conn, asend, Duration
    <3>2. PICK rs \in Seq(Record) : rs = records /\ Len(rs) = 0
      BY <1>0, <2>2
    <3>3. /\ records' \in Seq(Record) /\ Len(records') = 0 + 1
          /\ records'[0 + 1].type = "Start"
      <4>1. "Start" \in RecordTypes /\ 0 \in Int
        BY DEF RecordTypes
      <4>2. /\ records' \in Seq(Record) /\ Len(records') = Len(rs) + 1
            /\ records'[Len(rs) + 1].type = "Start" /\ records'[Len(rs) + 1].time = 0
        <5>1. PICK x \in Int : x = 0
          BY <4>1
        <5>2. records' = Append(rs, [type |-> "Start", time |-> x])
          BY <3>1, <3>2, <5>1
        <5> DEFINE r == [type |-> "Start", time |-> x]
        <5>3. /\ Append(rs, r) \in Seq(Record) /\ Len(Append(rs, r)) = Len(rs) + 1
              /\ Append(rs, r)[Len(rs) + 1] = r /\ r.type = "Start" /\ r.time = x
          BY <4>1, RecordSent
        <5> HIDE DEF r
        <5> QED BY <5>1, <5>2, <5>3 DEF r
      <4> QED BY <3>2, <4>2
    <3>4. \A i \in 1 .. Len(records') : RecordOK(records'[i], i, Len(records'), Closed', connectTs', endTs')
      BY <3>3 DEF RecordOK
    <3> QED BY <1>0, <1>b, <2>1, <2>2, <2>3, <2>4, <3>3, <3>4 DEF RadInv, Times
  <2> QED BY <2>5, <2>6
<1>4. CASE alive
  <2>1. el /\ UNCHANGED <<leg, now, connectTs, endTs, made, crec, drec, el>>
    BY <1>4 DEF alive
  <2>2. leg = "connected" /\ made /\ ~drec /\ connectTs # Unknown /\ Closed = "no"
    BY <2>1 DEF RadInv, Closed
  <2> DEFINE time == now + WallOffset - connectTs
             n == Len(records)
  <2>3. records' = Append(records, [type |-> "Alive", time |-> time])
    BY <1>4 DEF alive, asend, Duration
  <2>4. time \in Int /\ n \in Nat
    BY <1>0, RadAssumption DEF Times, Unknown
  <2>5. PICK x \in Int, rs \in Seq(Record) : x = time /\ rs = records
    BY <1>0, <2>4
  <2> HIDE DEF time
  <2>6. /\ records' \in Seq(Record) /\ Len(records') = n + 1 /\ records'[n + 1].type = "Alive"
        /\ \A i \in 1 .. n : records'[i] = records[i]
    BY <2>3, <2>5, RecordSent DEF RecordTypes
  <2>7. Closed' = "no"
    BY <2>1, <2>2 DEF Closed
  <2>8. ASSUME NEW i \in 1 .. n + 1
        PROVE  RecordOK(records'[i], i, n + 1, Closed', connectTs', endTs')
    <3>1. CASE i = n + 1
      BY <2>1, <2>2, <2>6, <3>1 DEF RecordOK
    <3>2. CASE i \in 1 .. n
      <4>1. RecordOK(records[i], i, n, Closed, connectTs, endTs)
        BY <3>2 DEF RadInv
      <4>2. records'[i] = records[i]
        BY <2>6, <3>2
      <4> QED BY <2>1, <2>2, <4>1, <4>2 DEF RecordOK
    <3> QED BY <2>4, <3>1, <3>2
  <2>9. /\ \A i \in 1 .. Len(records') : RecordOK(records'[i], i, Len(records'), Closed', connectTs', endTs')
    BY <2>6, <2>8
  <2> HIDE DEF n
  <2> QED BY <2>1, <2>2, <2>6, <2>9 DEF RadInv
<1>5. CASE legEnds
  <2>1. /\ leg' = "over" /\ endTs' = Known(endTs, now) /\ now' = now /\ connectTs' = connectTs
        /\ made' = made /\ crec' = crec
    BY <1>5 DEF legEnds
  <2>2. CASE made
    <3>1. disc
      BY <1>5, <2>2 DEF legEnds
    <3> QED BY <2>1, <2>2, <3>1, ClosesRecord
  <2>3. CASE ~made
    <3>1. UNCHANGED <<drec, el, records>>
      BY <1>5, <2>3 DEF legEnds
    <3>2. endTs' \in Nat /\ endTs' # Unknown
      BY <1>0, <2>1 DEF Known, Times, Unknown
    <3>3. records = <<>> /\ connectTs = Unknown /\ ~el /\ ~drec
      BY <2>3 DEF RadInv
    <3>4. \A i \in 1 .. Len(records') : RecordOK(records'[i], i, Len(records'), Closed', connectTs', endTs')
      BY <3>1, <3>3
    <3> QED BY <1>0, <1>b, <2>1, <2>3, <3>1, <3>2, <3>3, <3>4 DEF RadInv, Times
  <2> QED BY <2>2, <2>3
<1>6. CASE make
  <2>1. /\ ~made /\ made' = TRUE /\ UNCHANGED <<leg, now, connectTs, endTs, crec>>
    BY <1>6 DEF make
  <2>2. made' \in BOOLEAN /\ made'
    BY <2>1, Zenon
  <2>3. records = <<>> /\ connectTs = Unknown /\ ~el /\ ~drec /\ leg # "connected" /\ Len(records) = 0
    BY <2>1 DEF RadInv
  <2>4. CASE leg # "over"
    <3>1. UNCHANGED <<drec, el, records>>
      BY <1>6, <2>4 DEF make
    <3>2. \A i \in 1 .. Len(records') : RecordOK(records'[i], i, Len(records'), Closed', connectTs', endTs')
      BY <2>3, <3>1
    <3> QED BY <2>1, <2>2, <2>3, <2>4, <3>1, <3>2 DEF RadInv
  <2>5. CASE leg = "over"
    <3>1. records' = Append(records, [type |-> "Stop", time |-> 0])
      BY <1>6, <2>3, <2>5 DEF make, disc, asend, Duration
    <3>2. drec' = TRUE /\ drec' \in BOOLEAN /\ drec' /\ el' = FALSE /\ el' \in BOOLEAN /\ ~el' /\ Closed' = "yes"
      BY <1>6, <2>3, <2>5, Zenon DEF make, disc, Closed
    <3>3. PICK rs \in Seq(Record) : rs = records /\ Len(rs) = 0
      BY <1>0, <2>3
    <3>4. /\ records' \in Seq(Record) /\ Len(records') = 0 + 1
          /\ records'[0 + 1].type = "Stop" /\ records'[0 + 1].time = 0
      <4>1. "Stop" \in RecordTypes /\ 0 \in Int
        BY DEF RecordTypes
      <4>2. /\ records' \in Seq(Record) /\ Len(records') = Len(rs) + 1
            /\ records'[Len(rs) + 1].type = "Stop" /\ records'[Len(rs) + 1].time = 0
        <5>1. PICK x \in Int : x = 0
          BY <4>1
        <5>2. records' = Append(rs, [type |-> "Stop", time |-> x])
          BY <3>1, <3>3, <5>1
        <5> DEFINE r == [type |-> "Stop", time |-> x]
        <5>3. /\ Append(rs, r) \in Seq(Record) /\ Len(Append(rs, r)) = Len(rs) + 1
              /\ Append(rs, r)[Len(rs) + 1] = r /\ r.type = "Stop" /\ r.time = x
          BY <4>1, RecordSent
        <5> HIDE DEF r
        <5> QED BY <5>1, <5>2, <5>3 DEF r
      <4> QED BY <3>3, <4>2
    <3>5. \A i \in 1 .. Len(records') : RecordOK(records'[i], i, Len(records'), Closed', connectTs', endTs')
      BY <2>1, <2>3, <3>2, <3>4 DEF RecordOK
    <3> QED BY <2>1, <2>2, <2>3, <2>5, <3>2, <3>4, <3>5 DEF RadInv
  <2> QED BY <2>4, <2>5
<1> QED BY <1>1, <1>2, <1>3, <1>4, <1>5, <1>6 DEF RadNext

LEMMA RadInvSound == RadInv => RecordsSound
<1> SUFFICES ASSUME RadInv PROVE RecordsSound
  OBVIOUS
<1>1. /\ records \in Seq(Record) /\ DOMAIN records = 1 .. Len(records) /\ Len(records) \in Nat
      /\ made \in BOOLEAN /\ drec \in BOOLEAN
  BY DEF RadInv
<1>2. \A i \in 1 .. Len(records) : RecordOK(records[i], i, Len(records), Closed, connectTs, endTs)
  BY DEF RadInv
<1>3. drec => Len(records) > 0 /\ records[Len(records)].type = "Stop"
  BY DEF RadInv
<1>4. drec <=> leg = "over" /\ made
  BY DEF RadInv
<1>5. Types \in Seq(RecordTypes) /\ Len(Types) = Len(records) /\ \A i \in 1 .. Len(records) : Types[i] = records[i].type
  <2>1. \A i \in 1 .. Len(records) : records[i].type \in RecordTypes
    <3>1. records \in Seq(Record)
      BY <1>1
    <3>2. \A r \in Record : r.type \in RecordTypes
      BY DEF Record
    <3>3. \A i \in 1 .. Len(records) : records[i] \in Record
      BY <3>1
    <3> QED BY <3>2, <3>3
  <2>2. PICK n \in Nat : n = Len(records)
    BY <1>1
  <2> DEFINE T == [i \in 1 .. n |-> records[i].type]
  <2>3. T \in [1 .. n -> RecordTypes]
    BY <2>1, <2>2
  <2>4. Types = T /\ \A i \in 1 .. n : T[i] = records[i].type
    BY <1>1, <2>2 DEF Types
  <2> HIDE DEF T
  <2>5. T \in Seq(RecordTypes) /\ Len(T) = n
    BY <2>3
  <2> QED BY <2>2, <2>4, <2>5
<1>6. Contains(Types, "Stop") <=> drec
  <2>1. ASSUME drec PROVE Contains(Types, "Stop")
    <3>1. Len(records) \in 1 .. Len(records)
      BY <1>1, <1>3, <2>1
    <3> QED BY <1>3, <1>5, <2>1, <3>1 DEF Contains
  <2>2. ASSUME Contains(Types, "Stop") PROVE drec
    <3>1. PICK i \in 1 .. Len(records) : records[i].type = "Stop"
      BY <1>5, <2>2 DEF Contains
    <3>2. Closed = "yes"
      BY <1>2, <3>1 DEF RecordOK
    <3> QED BY <3>2 DEF Closed
  <2> QED BY <2>1, <2>2
<1>7. (leg = "over" /\ made) = Contains(Types, "Stop")
  BY <1>4, <1>6, Zenon DEF Contains
<1>8. \A i \in DOMAIN records :
         /\ records[i].type = "Stop" => i = Len(records)
         /\ records[i].type = "Start" => i = 1
         /\ records[i].type = "Alive" => connectTs # Unknown
  BY <1>1, <1>2 DEF RecordOK
<1>9. ChargedTime
  BY <1>1, <1>2 DEF RecordOK, ChargedTime
<1> QED BY <1>7, <1>8, <1>9 DEF RecordsSound, StopIsLast

\* The record of a leg is closed by one Stop, also if the leg was over before the
\* record was made or says again that it is over, nothing follows it, and it charges
\* for the time between the answer and the end, for any times and number of records.
THEOREM RecordsAreSound == RadSpec => []RecordsSound
<1>1. RadInit => RadInv
  BY RadInvInit
<1>2. RadInv /\ [RadNext]_radVars => RadInv'
  BY RadInvStep
<1>3. RadInv => RecordsSound
  BY RadInvSound
<1> QED BY <1>1, <1>2, <1>3, PTL DEF RadSpec
=============================================================================
