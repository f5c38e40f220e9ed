--------------------------- MODULE UacCall_proofs ---------------------------
(***************************************************************************)
(* AnsweredIsEnded, SetupTimed, CreditEnforced and EndsLast of UacCall,    *)
(* for every choice of the leg's times, any number of events and of        *)
(* challenges.                                                             *)
(***************************************************************************)
EXTENDS UacCall, UaEvents_proofs

Running == timers \cap SetupTimer

\* A leg whose offer is with the RTP proxy has not started its call; no timer
\* runs before the call starts.
Held  == tryHeld => st \in {"Idle", "Dead"}
Fresh == st \in {"None", "Idle"} => timers = {}

\* The timers of the last states run in these states only.
LastOnly == /\ "goDead" \in timers => st \in {"Disconnected", "Failed"}
            /\ "te" \in timers => st = "Cancelling"

OneTimer == \A a, b \in Running : a = b
Watched  == st \in {"Trying", "Ringing"} /\ times["expire"] # 0 => Running # {}
Quiet    == st \in {"Connected", "Cancelling", "Disconnected"} => Running = {}

\* In Ringing only the expire timer is left: it is the only one that state stops.
Rung     == st = "Ringing" => Running \subseteq {"expire"}

IInv ==
    /\ times \in [Which -> 0 .. NoReplyLimit]
    /\ Held /\ Fresh /\ LastOnly
    /\ OneTimer /\ Watched /\ Quiet /\ Rung
    /\ CreditEnforced /\ AnsweredIsEnded

LEMMA UacInit == Init => IInv
BY DEF Init, IInv, Held, Fresh, LastOnly, OneTimer, Watched, Quiet, Rung, Running,
       CreditEnforced, AnsweredIsEnded, SetupTimer

\* The call starts with the first of its timers.
LEMMA StartKeeps ==
    ASSUME IInv, st \in {"None", "Idle"}, StartsCall, ~tryHeld',
           UNCHANGED <<pending_tr, dialog>>
    PROVE  IInv'
<1>1. times' \in [Which -> 0 .. NoReplyLimit]
  <2>1. 0 \in 0 .. NoReplyLimit
    BY UacAssumption
  <2>2. times \in [Which -> 0 .. NoReplyLimit]
    BY DEF IInv
  <2>3. Effective \in [Which -> 0 .. NoReplyLimit]
    BY <2>1, <2>2 DEF Effective, Which
  <2> QED BY <2>3 DEF StartsCall
<1>2. st' = "Trying" /\ timers' = FirstTimer(times')
  BY DEF StartsCall, IInv, Fresh
<1>3. dialog' # "up"
  BY DEF IInv, AnsweredIsEnded
<1> QED BY <1>1, <1>2, <1>3 DEF IInv, Held, Fresh, LastOnly, OneTimer, Watched, Quiet, Rung,
           Running, CreditEnforced, AnsweredIsEnded, SetupTimer, FirstTimer

\* The end of the call, in each state.
LEMMA EndedKeeps ==
    ASSUME IInv, NEW ts \in SUBSET timers, Ended(ts),
           st = "Connected" => pending_tr \/ ts = timers \/ ~Raises,
           UNCHANGED <<times, tryHeld, pending_tr>>
    PROVE  IInv'
<1> USE DEF IInv, Held, Fresh, LastOnly, OneTimer, Watched, Quiet, Rung, Running,
            CreditEnforced, AnsweredIsEnded, SetupTimer
<1>1. CASE st \in {"None", "Idle"}
  BY <1>1 DEF Ended
<1>2. CASE st \in {"Trying", "Ringing"}
  <2>1. /\ st' = "Cancelling" /\ dialog' = dialog
        /\ timers' = (ts \ StoppedByEnd) \cup {"te"}
    BY <1>2 DEF Ended
  <2>2. CASE st = "Trying"
    BY <2>1, <2>2 DEF StoppedByEnd
  <2>3. CASE st = "Ringing"
    BY <2>1, <2>3 DEF StoppedByEnd
  <2> QED BY <1>2, <2>2, <2>3
<1>3. CASE st = "Connected"
  BY <1>3 DEF Ended, Raises, LastTimer
<1>4. CASE st \in {"Cancelling", "Disconnected", "Failed", "Dead"}
  BY <1>4 DEF Ended
<1> QED BY <1>1, <1>2, <1>3, <1>4 DEF Ended

LEMMA UacStep == IInv /\ [Next]_vars => IInv'
<1> SUFFICES ASSUME IInv, [Next]_vars PROVE IInv'
  OBVIOUS
<1> USE DEF IInv, Held, Fresh, LastOnly, OneTimer, Watched, Quiet, Rung, Running,
            CreditEnforced, AnsweredIsEnded, SetupTimer
<1>1. CASE recvTry
  <2>1. CASE StartsCall /\ UNCHANGED tryHeld
    <3>1. st = "None"
      BY <1>1 DEF recvTry
    <3>2. ~tryHeld'
      BY <2>1, <3>1
    <3> QED BY <1>1, <2>1, <3>2, StartKeeps DEF recvTry
  <2>2. CASE st' = "Idle" /\ UNCHANGED <<times, timers>>
    <3>1. st = "None" /\ UNCHANGED <<pending_tr, dialog>>
      BY <1>1 DEF recvTry
    <3> QED BY <2>2, <3>1
  <2> QED BY <1>1, <2>1, <2>2 DEF recvTry
<1>2. ASSUME NEW ok \in BOOLEAN, LocalSdpDone(ok) PROVE IInv'
  <2>1. CASE st = "Dead"
    BY <1>2, <2>1 DEF LocalSdpDone
  <2>2. CASE st # "Dead" /\ ok
    BY <1>2, <2>2, StartKeeps DEF LocalSdpDone
  <2>3. CASE st # "Dead" /\ ~ok
    BY <1>2, <2>3 DEF LocalSdpDone
  <2> QED BY <2>1, <2>2, <2>3
<1>3. CASE recvEnd
  BY <1>3, EndedKeeps DEF recvEnd, sdp, Raises
<1>4. ASSUME NEW x, TimerExpires(x) PROVE IInv'
  BY <1>4, EndedKeeps DEF TimerExpires, disconnect, sdp, Raises
<1>5. ASSUME NEW e, NEW ok \in BOOLEAN, RemoteSdpDone(e, ok) PROVE IInv'
  <2>1. CASE ok
    BY <1>5, <2>1 DEF RemoteSdpDone
  <2>2. CASE ~ok
    BY <1>5, <2>2, EndedKeeps DEF RemoteSdpDone, Raises
  <2> QED BY <2>1, <2>2
<1>6. CASE Response100
  BY <1>6 DEF Response100, After100, ThenExpire, sdp
<1>7. ASSUME NEW body, Response1xx(body) PROVE IInv'
  <2>1. CASE st = "Trying"
    <3>1. /\ times' = times /\ tryHeld' = tryHeld /\ pending_tr' = pending_tr
          /\ dialog' = dialog
      BY <1>7 DEF Response1xx
    <3>2. \/ st' = "Ringing" /\ timers' = After1xx
          \/ st' = "Failed" /\ timers' = After1xx \cup LastTimer
      BY <1>7, <2>1 DEF Response1xx
    <3>3. CASE timers \cap {"no_reply", "no_progress"} = {}
      BY <2>1, <3>1, <3>2, <3>3 DEF After1xx, LastTimer
    <3>4. CASE timers \cap {"no_reply", "no_progress"} # {}
      BY <2>1, <3>1, <3>2, <3>4 DEF After1xx, LastTimer, ThenExpire
    <3> QED BY <3>3, <3>4
  <2>2. CASE st = "Ringing"
    BY <1>7, <2>2 DEF Response1xx, LastTimer
  <2>3. CASE st \notin {"Trying", "Ringing"}
    BY <1>7, <2>3 DEF Response1xx, evq
  <2> QED BY <2>1, <2>2, <2>3
<1>8. CASE Response2xx
  <2>1. times' = times /\ tryHeld' = tryHeld
    BY <1>8 DEF Response2xx
  <2>2. ASSUME NEW body, Answered(body) PROVE IInv'
    <3>1. AfterFinal \cap SetupTimer = {} /\ AfterFinal \subseteq timers
      BY <2>2 DEF Answered, AfterFinal
    <3>2. /\ pending_tr' \/ timers' \ LastTimer = WithCredit(AfterFinal)
          /\ timers' \subseteq AfterFinal \cup LastTimer \cup {"credit"}
          /\ \/ st' = "Connected" /\ "goDead" \notin timers'
             \/ st' = "Failed" /\ dialog' = "over"
      BY <2>2 DEF Answered, WithCredit, LastTimer, AfterFinal
    <3> QED BY <2>1, <2>2, <3>1, <3>2 DEF WithCredit, LastTimer, Answered
  <2>3. CASE AnsweredWithoutTag
    BY <2>1, <2>3 DEF AnsweredWithoutTag, AfterFinal, LastTimer
  <2>4. CASE AnsweredTooLate
    BY <2>1, <2>4 DEF AnsweredTooLate, ByeSent, LastTimer
  <2>5. CASE AnsweredUnheard
    BY <2>1, <2>5 DEF AnsweredUnheard
  <2> QED BY <1>8, <2>2, <2>3, <2>4, <2>5 DEF Response2xx
<1>9. CASE ResponseFail
  BY <1>9 DEF ResponseFail, AfterFinal, LastTimer, sdp
<1>10. ASSUME NEW k, Challenged(k) PROVE IInv'
  BY <1>10 DEF Challenged, sdp
<1>11. CASE ByeArrives
  BY <1>11 DEF ByeArrives, Raises, LastTimer, sdp
<1>12. CASE InfoArrives
  BY <1>12 DEF InfoArrives, sdp
<1>13. CASE recvConnect
  BY <1>13 DEF recvConnect, WithCredit, sdp
<1>14. CASE goIdle \/ goDead
  BY <1>14 DEF goIdle, goDead, sdp
<1>15. CASE UNCHANGED vars
  BY <1>15 DEF vars, sdp
<1> HIDE DEF IInv
<1> QED
  BY <1>1, <1>2, <1>3, <1>4, <1>5, <1>6, <1>7, <1>8, <1>9, <1>10, <1>11, <1>12, <1>13,
     <1>14, <1>15 DEF Next, recvResponse

\* A callee whose answer is heard is connected or is sent a BYE, whichever way
\* the answer, the CANCEL, the timers and the RTP proxy interleave.
THEOREM UacAnsweredIsEnded == Spec => []AnsweredIsEnded
<1>1. IInv => AnsweredIsEnded
  BY DEF IInv
<1> QED BY <1>1, UacInit, UacStep, PTL DEF Spec

\* An outgoing call that neither progresses nor fails is ended by its timer, and
\* no setup timer outlives the setup.
THEOREM UacSetupTimed == Spec => []SetupTimed
<1>1. IInv => SetupTimed
  BY DEF IInv, OneTimer, Watched, Quiet, Running, SetupTimed
<1> QED BY <1>1, UacInit, UacStep, PTL DEF Spec

\* No billed call is connected without its credit timer.
THEOREM UacCreditEnforced == Spec => []CreditEnforced
<1>1. IInv => CreditEnforced
  BY DEF IInv
<1> QED BY <1>1, UacInit, UacStep, PTL DEF Spec

\* A leg is never without the timer that would end it.
THEOREM UacLegGuarded == Spec => []LegGuarded
<1>1. SetupTimed /\ CreditEnforced => LegGuarded
  BY DEF LegGuarded
<1> QED BY <1>1, UacSetupTimed, UacCreditEnforced, PTL

-----------------------------------------------------------------------------
(* The types.                                                              *)

TrType == [n : 0 .. MaxInvites, state : {"none", "calling", "proceeding", "done"},
           auth : {"none", "www", "proxy"}, cancel : {"no", "pending", "sent"}]

Timers == Which \cup {"te", "goDead"}

\* No INVITE has gone out before the call starts: the first one is within MaxInvites.
NotCalled == st \in {"None", "Idle"} => tr.n = 0 /\ tr.state = "none"

TInv ==
    /\ st \in States /\ timers \in SUBSET Timers /\ tr \in TrType /\ NotCalled
    /\ tryHeld \in BOOLEAN /\ late_media \in BOOLEAN /\ pending_tr \in BOOLEAN
    /\ dialog \in {"none", "up", "over", "unheard"} /\ hup \in BOOLEAN

LEMMA UacTypeInit == Init => TInv
<1> SUFFICES ASSUME Init PROVE TInv
  OBVIOUS
<1>1. tr \in TrType /\ tr.n = 0 /\ tr.state = "none"
  BY UacAssumption DEF Init, TrType
<1> QED BY <1>1 DEF Init, TInv, NotCalled, States

\* What becomes of the transaction is a transaction again.
LEMMA TrIs ==
    ASSUME tr \in TrType
    PROVE  /\ Progressed \in TrType /\ Done \in TrType /\ Cancelled(tr) \in TrType
           /\ Cancelled(Progressed) \in TrType
           /\ \A a \in {"none", "www", "proxy"} : tr.n < MaxInvites => NewInvite(a) \in TrType
<1>1. \A t \in TrType : Cancelled(t) \in TrType
  BY DEF Cancelled, TrType
<1>2. Progressed \in TrType /\ Done \in TrType
  BY DEF Progressed, Done, TrType
<1>3. \A a \in {"none", "www", "proxy"} : tr.n < MaxInvites => NewInvite(a) \in TrType
  <2>1. tr.n \in 0 .. MaxInvites /\ MaxInvites \in Nat
    BY UacAssumption DEF TrType
  <2> QED BY <2>1 DEF NewInvite, TrType
<1> QED BY <1>1, <1>2, <1>3

LEMMA StartTyped ==
    ASSUME TInv, st \in {"None", "Idle"}, StartsCall
    PROVE  st' = "Trying" /\ tr' \in TrType /\ timers' \in SUBSET Timers
<1>1. tr.n < MaxInvites
  BY UacAssumption DEF TInv, NotCalled
<1>2. tr' \in TrType
  BY <1>1, TrIs DEF StartsCall, TInv
<1>3. timers' \in SUBSET Timers
  BY DEF StartsCall, FirstTimer, TInv, Timers, Which
<1> QED BY <1>2, <1>3 DEF StartsCall

LEMMA EndedTyped ==
    ASSUME TInv, NEW ts \in SUBSET timers, Ended(ts)
    PROVE  /\ st' \in States /\ tr' \in TrType /\ timers' \in SUBSET Timers /\ NotCalled'
           /\ dialog' \in {"none", "up", "over", "unheard"}
<1>1. tr' \in TrType
  BY TrIs DEF Ended, TInv
<1>2. timers' \in SUBSET Timers
  BY DEF Ended, TInv, Timers, LastTimer
<1>3. /\ st' \in States /\ dialog' \in {"none", "up", "over", "unheard"}
      /\ st' \in {"None", "Idle"} => FALSE
  BY DEF Ended, TInv, States
<1> QED BY <1>1, <1>2, <1>3 DEF NotCalled

LEMMA UacTypeStep == IInv /\ TInv /\ [Next]_vars => TInv'
<1> SUFFICES ASSUME IInv, TInv, [Next]_vars PROVE TInv'
  OBVIOUS
<1>b. LateMedia \in BOOLEAN
  BY UacAssumption
<1>t. /\ tr \in TrType /\ timers \in SUBSET Timers
  BY DEF TInv
<1>a. /\ After100 \in SUBSET Timers /\ After1xx \in SUBSET Timers /\ AfterFinal \in SUBSET Timers
      /\ WithCredit(AfterFinal) \in SUBSET Timers
      /\ WithCredit(timers \ {"expire", "credit"}) \in SUBSET Timers
      /\ LastTimer \in SUBSET Timers
  BY <1>t DEF After100, After1xx, AfterFinal, ThenExpire, WithCredit, LastTimer, Timers, Which
<1>1. CASE recvTry
  <2>1. CASE StartsCall /\ late_media' \in {FALSE, LateMedia} /\ UNCHANGED tryHeld
    BY <1>1, <1>b, <2>1, StartTyped DEF recvTry, TInv, NotCalled, States
  <2>2. CASE st' = "Idle" /\ tryHeld' = TRUE /\ UNCHANGED <<times, timers, tr, late_media>>
    BY <1>1, <2>2 DEF recvTry, TInv, NotCalled, States
  <2> QED BY <1>1, <2>1, <2>2 DEF recvTry
<1>2. ASSUME NEW ok \in BOOLEAN, LocalSdpDone(ok) PROVE TInv'
  <2>1. CASE st = "Dead"
    BY <1>2, <2>1 DEF LocalSdpDone, TInv, NotCalled, States
  <2>2. CASE st # "Dead" /\ ok
    <3>1. st \in {"None", "Idle"}
      BY <1>2, <2>2 DEF LocalSdpDone, IInv, Held
    <3> QED BY <1>2, <2>2, <3>1, StartTyped DEF LocalSdpDone, TInv, NotCalled, States
  <2>3. CASE st # "Dead" /\ ~ok
    BY <1>2, <2>3 DEF LocalSdpDone, TInv, NotCalled, States
  <2> QED BY <2>1, <2>2, <2>3
<1>3. CASE recvEnd
  BY <1>3, EndedTyped DEF recvEnd, sdp, TInv
<1>4. ASSUME NEW x, TimerExpires(x) PROVE TInv'
  BY <1>4, EndedTyped DEF TimerExpires, disconnect, sdp, TInv
<1>5. ASSUME NEW e, NEW ok \in BOOLEAN, RemoteSdpDone(e, ok) PROVE TInv'
  <2>1. CASE ok
    BY <1>5, <2>1 DEF RemoteSdpDone, TInv, NotCalled
  <2>2. CASE ~ok
    BY <1>5, <2>2, EndedTyped DEF RemoteSdpDone, TInv
  <2> QED BY <2>1, <2>2
<1>6. CASE Response100
  BY <1>6, <1>a, <1>t, TrIs DEF Response100, sdp, TInv, NotCalled, States
<1>7. ASSUME NEW body, Response1xx(body) PROVE TInv'
  <2>1. tr' \in TrType
    BY <1>7, <1>t, TrIs DEF Response1xx
  <2>2. timers' \in SUBSET Timers
    BY <1>7, <1>a, <1>t DEF Response1xx
  <2>3. st' \in States \ {"None", "Idle"}
    BY <1>7 DEF Response1xx, States
  <2> QED BY <1>7, <2>1, <2>2, <2>3 DEF Response1xx, TInv, NotCalled
<1>8. CASE Response2xx
  <2>1. tr' \in TrType /\ UNCHANGED <<tryHeld, hup>>
    BY <1>8, <1>t, TrIs DEF Response2xx
  <2>2. ASSUME NEW body, Answered(body) PROVE TInv'
    <3>1. timers' \in SUBSET Timers
      BY <2>2, <1>a DEF Answered
    <3> QED BY <2>1, <2>2, <3>1 DEF Answered, TInv, NotCalled, States
  <2>3. CASE AnsweredWithoutTag
    BY <2>1, <2>3, <1>a DEF AnsweredWithoutTag, TInv, NotCalled, States
  <2>4. CASE AnsweredTooLate
    BY <2>1, <2>4, <1>a, <1>t DEF AnsweredTooLate, ByeSent, TInv, NotCalled, States
  <2>5. CASE AnsweredUnheard
    BY <2>1, <2>5 DEF AnsweredUnheard, TInv, NotCalled
  <2> QED BY <1>8, <2>2, <2>3, <2>4, <2>5 DEF Response2xx
<1>9. CASE ResponseFail
  BY <1>9, <1>a, <1>t, TrIs DEF ResponseFail, sdp, TInv, NotCalled, States
<1>10. ASSUME NEW k \in {"www", "proxy"}, Challenged(k) PROVE TInv'
  <2>1. tr' \in TrType
    BY <1>10, <1>t, TrIs DEF Challenged
  <2>2. st \notin {"None", "Idle"}
    BY <1>10 DEF Challenged, InProgress, TInv, NotCalled
  <2> QED BY <1>10, <2>1, <2>2 DEF Challenged, sdp, TInv, NotCalled
<1>11. CASE ByeArrives
  BY <1>11, <1>a, <1>t DEF ByeArrives, sdp, TInv, NotCalled, States
<1>12. CASE InfoArrives
  BY <1>12 DEF InfoArrives, sdp, TInv, NotCalled
<1>13. CASE recvConnect
  BY <1>13, <1>a DEF recvConnect, sdp, TInv, NotCalled
<1>14. CASE goIdle \/ goDead
  BY <1>14 DEF goIdle, goDead, sdp, TInv, NotCalled, States
<1>15. CASE UNCHANGED vars
  BY <1>15 DEF vars, sdp, TInv, NotCalled
<1> QED
  BY <1>1, <1>2, <1>3, <1>4, <1>5, <1>6, <1>7, <1>8, <1>9, <1>10, <1>11, <1>12, <1>13,
     <1>14, <1>15 DEF Next, recvResponse

-----------------------------------------------------------------------------
(* The events.                                                             *)

\* A leg that has ended, or that has heard of the end and cannot say so: it creates no
\* event but an End any more.
Over == \/ st \in {"Cancelling", "Disconnected", "Failed", "Dead"}
        \/ st = "Connected" /\ dialog = "over"

EInv == /\ OnTheWay(seq, cc, equeue, delayed)
        /\ \A e \in delayed : e.kind \in {"Ring", "Connect"}
        /\ ~Over => NoEnd(cc, equeue)

LEMMA CreatedIs ==
    ASSUME NEW S, NEW q \in Seq(S), NEW k, Event(k, seq + 1) \in S
    PROVE  /\ q \o Created(<<>>) = q /\ q \o Created(<<k>>) = Append(q, Event(k, seq + 1))
           /\ Len(<<>>) = 0 /\ Len(<<k>>) = 1
<1> DEFINE e == Event(k, seq + 1)
<1>1. Created(<<>>) = <<>> /\ Created(<<k>>) = <<e>>
  <2>1. Created(<<>>) = <<>>
    BY DEF Created
  <2>2. Created(<<k>>) = [i \in {1} |-> e]
    BY DEF Created
  <2> HIDE DEF e
  <2>3. [i \in {1} |-> e] = <<e>>
    OBVIOUS
  <2> QED BY <2>1, <2>2, <2>3
<1> HIDE DEF e
<1>2. e \in S
  BY DEF e
<1>3. q \o <<>> = q /\ q \o <<e>> = Append(q, e)
  BY <1>2
<1> QED BY <1>1, <1>3 DEF e

\* Nothing, an End, or another event of a leg that has not ended, is queued, and what is
\* in the queue is handed over or stays there.
LEMMA Queues ==
    ASSUME EInv, NEW k \in Kinds
    PROVE  /\ Queue(<<>>) => seq' = seq /\ equeue' = equeue /\ cc' = cc
           /\ Queue(<<k>>) => seq' = seq + 1 /\ equeue' = Append(equeue, Event(k, seq + 1)) /\ cc' = cc
           /\ st # "Dead" /\ QueueAndEmit(<<>>) =>
                 seq' = seq /\ equeue' = <<>> /\ cc' = GivenAll(cc, equeue)
           /\ st # "Dead" /\ QueueAndEmit(<<k>>) =>
                 /\ seq' = seq + 1 /\ equeue' = <<>>
                 /\ cc' = GivenAll(cc, Append(equeue, Event(k, seq + 1)))
           /\ st = "Dead" => (QueueAndEmit(<<k>>) <=> Queue(<<k>>)) /\ (QueueAndEmit(<<>>) <=> Queue(<<>>))
<1>1. seq \in Nat /\ equeue \in Seq(Numbers(seq))
  BY DEF EInv, OnTheWay
<1>2. equeue \in Seq(Numbers(seq + 1)) /\ Event(k, seq + 1) \in Numbers(seq + 1)
  BY <1>1, WayOn
<1>3. /\ equeue \o Created(<<>>) = equeue
      /\ equeue \o Created(<<k>>) = Append(equeue, Event(k, seq + 1))
      /\ Len(<<>>) = 0 /\ Len(<<k>>) = 1
  BY <1>2, CreatedIs
<1>4. seq + 0 = seq
  BY <1>1
<1> QED BY <1>3, <1>4 DEF Queue, QueueAndEmit

LEMMA SaysNothing ==
    ASSUME EInv, Queue(<<>>) \/ QueueAndEmit(<<>>), delayed' = delayed, ~Over' => ~Over
    PROVE  EInv'
<1>1. "End" \in Kinds
  BY DEF Kinds
<1>2. CASE seq' = seq /\ equeue' = equeue /\ cc' = cc
  BY <1>2 DEF EInv
<1>3. CASE seq' = seq /\ equeue' = <<>> /\ cc' = GivenAll(cc, equeue)
  BY <1>3, WayGiven DEF EInv
<1> QED BY <1>1, <1>2, <1>3, Queues

LEMMA SaysEnd ==
    ASSUME EInv, Queue(<<"End">>) \/ QueueAndEmit(<<"End">>), Over',
           delayed' = delayed \/ \E e \in delayed : delayed' = delayed \ {e}
    PROVE  EInv'
<1> DEFINE q == Append(equeue, Event("End", seq + 1))
<1>0. "End" \in Kinds
  BY DEF Kinds
<1>1. OnTheWay(seq, cc, equeue, delayed') /\ \A e \in delayed' : e.kind \in {"Ring", "Connect"}
  <2>1. CASE delayed' = delayed
    BY <2>1 DEF EInv
  <2>2. ASSUME NEW e \in delayed, delayed' = delayed \ {e}
        PROVE  OnTheWay(seq, cc, equeue, delayed') /\ \A d \in delayed' : d.kind \in {"Ring", "Connect"}
    <3>1. OnTheWay(seq, cc, equeue, delayed \ {e})
      BY WayLess DEF EInv
    <3> QED BY <2>2, <3>1 DEF EInv
  <2> QED BY <2>1, <2>2
<1>2. OnTheWay(seq + 1, cc, q, delayed')
  BY <1>1, WayEnd
<1>3. OnTheWay(seq + 1, GivenAll(cc, q), <<>>, delayed')
  BY <1>2, WayGiven
<1>4. /\ seq' = seq + 1
      /\ (equeue' = q /\ cc' = cc) \/ (equeue' = <<>> /\ cc' = GivenAll(cc, q))
  BY <1>0, Queues
<1> QED BY <1>1, <1>2, <1>3, <1>4 DEF EInv

LEMMA SaysMore ==
    ASSUME EInv, ~Over, NEW k \in Kinds \ {"End"},
           \/ QueueAndEmit(<<k>>) /\ delayed' = delayed
           \/ Delay(k) /\ k \in {"Ring", "Connect"}
    PROVE  EInv'
<1> DEFINE q == Append(equeue, Event(k, seq + 1))
<1>0. st # "Dead" /\ NoEnd(cc, equeue) /\ k \in Kinds
  BY DEF Over, EInv
<1>1. /\ OnTheWay(seq + 1, cc, q, delayed) /\ NoEnd(cc, q)
      /\ OnTheWay(seq + 1, cc, equeue, delayed \cup {Event(k, seq + 1)})
  BY <1>0, WayNew DEF EInv
<1>2. CASE QueueAndEmit(<<k>>) /\ delayed' = delayed
  <2>1. seq' = seq + 1 /\ equeue' = <<>> /\ cc' = GivenAll(cc, q)
    BY <1>0, <1>2, Queues
  <2>2. OnTheWay(seq + 1, GivenAll(cc, q), <<>>, delayed) /\ NoEnd(GivenAll(cc, q), <<>>)
    BY <1>1, WayGiven
  <2> QED BY <1>2, <2>1, <2>2 DEF EInv
<1>3. CASE Delay(k) /\ k \in {"Ring", "Connect"}
  <2>1. /\ seq' = seq + 1 /\ delayed' = delayed \cup {Event(k, seq + 1)}
        /\ equeue' = <<>> /\ cc' = GivenAll(cc, equeue)
    BY <1>3 DEF Delay
  <2>2. OnTheWay(seq + 1, GivenAll(cc, equeue), <<>>, delayed') /\ NoEnd(GivenAll(cc, equeue), <<>>)
    BY <1>0, <1>1, <2>1, WayGiven
  <2>3. \A e \in delayed' : e.kind \in {"Ring", "Connect"}
    BY <1>3, <2>1 DEF EInv, Event
  <2> QED BY <2>1, <2>2, <2>3 DEF EInv
<1> QED BY <1>2, <1>3

LEMMA EndedIsOver == ASSUME NEW ts, Ended(ts) PROVE Over'
BY DEF Ended, Over

\* Before the call has started nothing is on the queue.
Unasked == st \in {"None", "Idle"} => equeue = <<>>

LEMMA UacEventInit == Init => EInv /\ Unasked
<1> SUFFICES ASSUME Init PROVE EInv /\ Unasked
  OBVIOUS
<1>1. /\ seq = 0 /\ equeue = <<>> /\ delayed = {} /\ cc = [last |-> 0, kinds |-> {}, late |-> {}]
  BY DEF Init, Nothing
<1>2. cc \in Knows(0) /\ cc.late = {} /\ cc.kinds = {}
  BY <1>1 DEF Knows
<1>3. <<>> \in Seq(Numbers(0)) /\ DOMAIN <<>> = {}
  OBVIOUS
<1>4. OnTheWay(seq, cc, equeue, delayed)
  BY <1>1, <1>2, <1>3 DEF OnTheWay, Kept
<1>5. NoEnd(cc, equeue)
  BY <1>1, <1>2, <1>3 DEF NoEnd
<1> QED BY <1>1, <1>4, <1>5 DEF EInv, Unasked

LEMMA UacEventStep == IInv /\ TInv /\ EInv /\ Unasked /\ [Next]_vars => EInv'
<1> SUFFICES ASSUME IInv, TInv, EInv, Unasked, [Next]_vars PROVE EInv'
  OBVIOUS
<1>0. ASSUME UNCHANGED <<evq, delayed>>, ~Over' => ~Over PROVE EInv'
  BY <1>0 DEF EInv, evq
<1>k. "End" \in Kinds /\ {"Ring", "Connect", "Info"} \subseteq Kinds \ {"End"}
  BY DEF Kinds
<1>1. CASE recvTry
  BY <1>1, <1>0 DEF recvTry, Over
<1>2. ASSUME NEW ok \in BOOLEAN, LocalSdpDone(ok) PROVE EInv'
  <2>1. CASE st = "Dead"
    BY <1>2, <2>1, <1>0 DEF LocalSdpDone, Over
  <2>2. CASE st # "Dead"
    <3>1. st \in {"None", "Idle"} /\ equeue = <<>>
      BY <1>2, <2>2 DEF LocalSdpDone, IInv, Held, Unasked
    <3>2. CASE ok
      BY <1>2, <2>2, <3>1, <3>2, <1>0 DEF LocalSdpDone, Over
    <3>3. CASE ~ok
      <4>1. <<>> \o Created(<<"End">>) = Created(<<"End">>)
        BY DEF Created
      <4>2. QueueAndEmit(<<"End">>)
        BY <1>2, <2>2, <3>1, <3>3, <4>1 DEF LocalSdpDone, QueueAndEmit
      <4>3. Over' /\ delayed' = delayed
        BY <1>2, <2>2, <3>3 DEF LocalSdpDone, Over
      <4> QED BY <4>2, <4>3, SaysEnd
    <3> QED BY <3>2, <3>3
  <2> QED BY <2>1, <2>2
<1>3. CASE recvEnd
  <2>1. Over' /\ delayed' = delayed
    BY <1>3, EndedIsOver DEF recvEnd, sdp
  <2>2. Queue(<<>>) \/ QueueAndEmit(<<>>)
    BY <1>3 DEF recvEnd
  <2> QED BY <2>1, <2>2, SaysNothing
<1>4. ASSUME NEW x, TimerExpires(x) PROVE EInv'
  <2>1. Over' /\ delayed' = delayed
    BY <1>4, EndedIsOver DEF TimerExpires, disconnect, sdp
  <2>2. Queue(<<"End">>) \/ QueueAndEmit(<<"End">>)
    BY <1>4 DEF TimerExpires, disconnect
  <2> QED BY <2>1, <2>2, SaysEnd
<1>5. ASSUME NEW e \in delayed, NEW ok \in BOOLEAN, RemoteSdpDone(e, ok) PROVE EInv'
  <2>1. CASE ok
    <3>1. /\ OnTheWay(seq, cc, Append(equeue, e), delayed \ {e})
          /\ NoEnd(cc, equeue) => NoEnd(cc, Append(equeue, e))
      BY WayOld DEF EInv
    <3>2. /\ OnTheWay(seq, GivenAll(cc, Append(equeue, e)), <<>>, delayed \ {e})
          /\ NoEnd(cc, Append(equeue, e)) => NoEnd(GivenAll(cc, Append(equeue, e)), <<>>)
      BY <3>1, WayGiven
    <3>3. delayed' = delayed \ {e} /\ seq' = seq /\ (Over' <=> Over)
      BY <1>5, <2>1 DEF RemoteSdpDone, Over
    <3>4. CASE equeue' = Append(equeue, e) /\ cc' = cc
      BY <3>1, <3>3, <3>4 DEF EInv
    <3>5. CASE equeue' = <<>> /\ cc' = GivenAll(cc, Append(equeue, e))
      BY <3>1, <3>2, <3>3, <3>5 DEF EInv
    <3> QED BY <1>5, <2>1, <3>4, <3>5 DEF RemoteSdpDone
  <2>2. CASE ~ok
    <3>1. Over' /\ delayed' = delayed \ {e}
      BY <1>5, <2>2, EndedIsOver DEF RemoteSdpDone
    <3>2. Len(<<"End">>) = 1
      OBVIOUS
    <3>3. Queue(<<"End">>) \/ QueueAndEmit(<<"End">>)
      BY <1>5, <2>2, <3>2 DEF RemoteSdpDone, QueueAndEmit
    <3> QED BY <3>1, <3>3, SaysEnd
  <2> QED BY <2>1, <2>2
<1>6. CASE Response100
  <2>1. ~Over /\ delayed' = delayed /\ QueueAndEmit(<<"Ring">>)
    BY <1>6 DEF Response100, Over, sdp
  <2> QED BY <2>1, <1>k, SaysMore
<1>7. ASSUME NEW body, Response1xx(body) PROVE EInv'
  <2>1. CASE st \in {"Trying", "Ringing"} /\ body # "error"
    <3>1. ~Over /\ (Delay("Ring") \/ (QueueAndEmit(<<"Ring">>) /\ delayed' = delayed))
      BY <1>7, <2>1 DEF Response1xx, Over
    <3> QED BY <3>1, <1>k, SaysMore
  <2>2. CASE st \in {"Trying", "Ringing"} /\ body = "error"
    <3>1. Over' /\ QueueAndEmit(<<"End">>) /\ delayed' = delayed
      BY <1>7, <2>2 DEF Response1xx, Over
    <3> QED BY <3>1, SaysEnd
  <2>3. CASE st \in {"Cancelling", "Failed", "Dead"}
    BY <1>7, <2>3, <1>0 DEF Response1xx, Over
  <2> QED BY <1>7, <2>1, <2>2, <2>3 DEF Response1xx
<1>8. CASE Response2xx
  <2>1. ASSUME NEW body, Answered(body) PROVE EInv'
    <3>1. CASE st' = "Connected"
      <4>1. ~Over /\ (Delay("Connect") \/ (QueueAndEmit(<<"Connect">>) /\ delayed' = delayed))
        BY <2>1, <3>1 DEF Answered, Over
      <4> QED BY <4>1, <1>k, SaysMore
    <3>2. CASE st' = "Failed"
      <4>1. Over' /\ QueueAndEmit(<<"End">>) /\ delayed' = delayed
        BY <2>1, <3>2 DEF Answered, Over
      <4> QED BY <4>1, SaysEnd
    <3> QED BY <2>1, <3>1, <3>2 DEF Answered
  <2>2. CASE AnsweredWithoutTag
    <3>1. Over' /\ QueueAndEmit(<<"End">>) /\ delayed' = delayed
      BY <2>2 DEF AnsweredWithoutTag, Over
    <3> QED BY <3>1, SaysEnd
  <2>3. CASE AnsweredTooLate
    BY <2>3, <1>0 DEF AnsweredTooLate, Over
  <2>4. CASE AnsweredUnheard
    BY <2>4, <1>0 DEF AnsweredUnheard, Over
  <2> QED BY <1>8, <2>1, <2>2, <2>3, <2>4 DEF Response2xx
<1>9. CASE ResponseFail
  <2>1. CASE st \in {"Trying", "Ringing"}
    <3>1. Over' /\ QueueAndEmit(<<"End">>) /\ delayed' = delayed
      BY <1>9, <2>1 DEF ResponseFail, Over, sdp
    <3> QED BY <3>1, SaysEnd
  <2>2. CASE st \in {"Cancelling", "Failed", "Dead"}
    BY <1>9, <2>2, <1>0 DEF ResponseFail, Over, sdp
  <2> QED BY <1>9, <2>1, <2>2 DEF ResponseFail
<1>10. ASSUME NEW k, Challenged(k) PROVE EInv'
  BY <1>10, <1>0 DEF Challenged, Over, sdp
<1>11. CASE ByeArrives
  <2>1. Over' /\ delayed' = delayed
    BY <1>11 DEF ByeArrives, Over, sdp
  <2>2. Queue(<<"End">>) \/ QueueAndEmit(<<"End">>)
    BY <1>11 DEF ByeArrives
  <2> QED BY <2>1, <2>2, SaysEnd
<1>12. CASE InfoArrives
  <2>1. ~Over /\ delayed' = delayed /\ QueueAndEmit(<<"Info">>)
    BY <1>12 DEF InfoArrives, Over, sdp
  <2> QED BY <2>1, <1>k, SaysMore
<1>13. CASE recvConnect \/ goIdle \/ goDead
  BY <1>13, <1>0 DEF recvConnect, goIdle, goDead, Over, sdp
<1>14. CASE UNCHANGED vars
  BY <1>14, <1>0 DEF vars, sdp, Over
<1> QED
  BY <1>1, <1>2, <1>3, <1>4, <1>5, <1>6, <1>7, <1>8, <1>9, <1>10, <1>11, <1>12, <1>13,
     <1>14 DEF Next, recvResponse

LEMMA UacUnaskedStep == Unasked /\ [Next]_vars => Unasked'
<1> SUFFICES ASSUME Unasked, [Next]_vars, st' \in {"None", "Idle"} PROVE equeue' = <<>>
  BY DEF Unasked
<1>1. CASE st \in {"None", "Idle"} /\ equeue' = equeue
  BY <1>1 DEF Unasked
<1>2. CASE recvTry
  BY <1>1, <1>2 DEF recvTry, evq
<1>3. ASSUME NEW ok \in BOOLEAN, LocalSdpDone(ok) PROVE equeue' = <<>>
  BY <1>3, <1>1 DEF LocalSdpDone, StartsCall, evq
<1>4. ASSUME NEW e \in delayed, NEW ok \in BOOLEAN, RemoteSdpDone(e, ok) PROVE equeue' = <<>>
  BY <1>4 DEF RemoteSdpDone, Ended
<1>5. recvEnd \/ (\E x \in Which : TimerExpires(x)) => FALSE
  BY DEF recvEnd, TimerExpires, disconnect, Ended
<1>6. CASE \E k \in {"www", "proxy"} : Challenged(k)
  BY <1>6, <1>1 DEF Challenged, evq
<1>7. Response100 \/ (\E body \in {"now", "later", "error"} : Response1xx(body)) => FALSE
  BY DEF Response100, Response1xx
<1>8. Response2xx \/ ResponseFail => FALSE
  BY DEF Response2xx, Answered, AnsweredWithoutTag, AnsweredTooLate, AnsweredUnheard, ResponseFail
<1>9. ByeArrives \/ InfoArrives \/ recvConnect \/ goIdle \/ goDead => FALSE
  BY DEF ByeArrives, InfoArrives, recvConnect, goIdle, goDead
<1>10. CASE UNCHANGED vars
  BY <1>10, <1>1 DEF vars, evq
<1> QED
  BY <1>2, <1>3, <1>4, <1>5, <1>6, <1>7, <1>8, <1>9, <1>10 DEF Next, recvResponse

\* Once the leg has told the call controller of the end, it tells it of no progress, answer
\* or INFO, for any number of events that wait for the RTP proxy and however late it
\* returns them (emitEvent, emitPendingEvents and the elast_seq they keep).
THEOREM UacEndsLast == Spec => []EndsLast
<1>1. Init => IInv /\ TInv /\ EInv /\ Unasked
  BY UacInit, UacTypeInit, UacEventInit
<1>2. IInv /\ TInv /\ EInv /\ Unasked /\ [Next]_vars => (IInv /\ TInv /\ EInv /\ Unasked)'
  BY UacStep, UacTypeStep, UacEventStep, UacUnaskedStep
<1>3. IInv /\ TInv /\ EInv => EndsLast
  <2> SUFFICES ASSUME IInv, TInv, EInv PROVE EndsLast
    OBVIOUS
  <2>1. /\ seq \in Nat /\ cc.last \in 0 .. seq /\ cc.kinds \in SUBSET Kinds /\ cc.late \in SUBSET Kinds
        /\ \A i \in DOMAIN equeue : equeue[i].kind \in Kinds /\ equeue[i].seq \in 1 .. seq
        /\ \A e \in delayed : e.seq \in 1 .. seq
        /\ cc.late \subseteq {"End"}
    BY WayFacts DEF EInv
  <2>2. \A e \in delayed : e.kind \in {"Ring", "Connect"}
    BY DEF EInv
  <2>3. times \in [Which -> 0 .. NoReplyLimit]
    BY DEF IInv
  <2>4. TypeOK
    BY <2>1, <2>2, <2>3 DEF TypeOK, TInv, TrType, Timers
  <2> QED BY <2>1, <2>4 DEF EndsLast, OnlyEndsAfterEnd
<1> QED BY <1>1, <1>2, <1>3, PTL DEF Spec
=============================================================================
