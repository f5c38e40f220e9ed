--------------------------- MODULE UasCall_proofs ---------------------------
(***************************************************************************)
(* AnswerTaken, SetupTimed, CreditEnforced and EndsLast of UasCall, for    *)
(* every choice of the leg's times and any number of events.               *)
(***************************************************************************)
EXTENDS UasCall, UaEvents_proofs

\* The states that last until goDead().
LastStates == {"Disconnected", "Failed"}

\* AnswerTaken is inductive once it is known that a leg has a transaction from
\* its INVITE on, and that only the last two states have the timer that ends
\* the leg: otherwise goDead() could end one that still has to answer.
Begun    == st = "None" <=> tx = "none"
LastOnly == "goDead" \in timers => st \in LastStates

IInv == AnswerTaken /\ Begun /\ LastOnly

LEMMA UasInit == Init => IInv
BY DEF Init, IInv, AnswerTaken, Begun, LastOnly, Setup

\* What an event does to a leg that is being set up.
LEMMA HandledKeeps ==
    ASSUME IInv, NEW k \in {"Ring", "Connect", "PreConnect"}, Handled(k)
    PROVE  IInv'
<1> USE DEF IInv, AnswerTaken, Begun, LastOnly, Setup, LastStates
<1>1. CASE st \notin Setup
  BY <1>1 DEF Handled
<1>2. CASE st \in Setup /\ k = "Ring"
  BY <1>2 DEF Handled, Rings, ThenExpire
<1>3. CASE st \in Setup /\ k = "Connect"
  BY <1>3 DEF Handled, Connects, WithCredit
<1>4. CASE st \in Setup /\ k = "PreConnect"
  BY <1>4 DEF Handled, PreConnects
<1> QED BY <1>1, <1>2, <1>3, <1>4

\* What the end of the call does to it.
LEMMA EndedKeeps ==
    ASSUME IInv, NEW ts \in SUBSET timers, NEW last \in LastStates,
           Ended(ts, last), tx' = Closed
    PROVE  IInv'
BY DEF IInv, AnswerTaken, Begun, LastOnly, Setup, LastStates, Ended, Closed, LastTimer

LEMMA UasStep == IInv /\ [Next]_vars => IInv'
<1> SUFFICES ASSUME IInv, [Next]_vars PROVE IInv'
  OBVIOUS
<1> USE DEF IInv, AnswerTaken, Begun, LastOnly, Setup, LastStates
<1>1. ASSUME NEW body, InviteArrives(body) PROVE IInv'
  BY <1>1 DEF InviteArrives, FirstTimer
<1>2. ASSUME NEW body, AckArrives(body) PROVE IInv'
  BY <1>2 DEF AckArrives, WithCredit
<1>3. ASSUME NEW k \in {"Ring", "Connect", "PreConnect"}, recvEvent(k) PROVE IInv'
  <2>1. CASE Handled(k)
    BY <2>1, HandledKeeps
  <2>2. CASE UNCHANGED <<st, timers, tx, ackWait>>
    BY <2>2
  <2> QED BY <1>3, <2>1, <2>2 DEF recvEvent
<1>4. ASSUME NEW k \in {"Ring", "Connect", "PreConnect"}, NEW ok \in BOOLEAN,
             LocalSdpDone(k, ok) PROVE IInv'
  <2>1. CASE ok
    BY <1>4, <2>1, HandledKeeps DEF LocalSdpDone
  <2>2. CASE ~ok
    BY <1>4, <2>2, EndedKeeps DEF LocalSdpDone, Refused
  <2> QED BY <2>1, <2>2
<1>5. ASSUME NEW last \in {"Failed", "Disconnected"}, recvEnd(last) PROVE IInv'
  BY <1>5, EndedKeeps DEF recvEnd
<1>6. ASSUME NEW e, NEW ok \in BOOLEAN, RemoteSdpDone(e, ok) PROVE IInv'
  <2>1. CASE ok
    BY <1>6, <2>1 DEF RemoteSdpDone
  <2>2. CASE ~ok
    BY <1>6, <2>2, EndedKeeps DEF RemoteSdpDone, Refused
  <2> QED BY <2>1, <2>2
<1>7. CASE cancel
  BY <1>7 DEF cancel, Moved
<1>8. CASE NoAck
  <2>1. CASE st = "Idle"
    BY <1>8, <2>1 DEF NoAck
  <2>2. CASE st # "Idle"
    BY <1>8, <2>2 DEF NoAck, disconnect, Ended, LastTimer
  <2> QED BY <2>1, <2>2
<1>9. CASE ByeArrives \/ InfoArrives
  BY <1>9 DEF ByeArrives, InfoArrives
<1>10. CASE goDead
  BY <1>10 DEF goDead
<1>11. ASSUME NEW x, TimerExpires(x) PROVE IInv'
  BY <1>11, EndedKeeps DEF TimerExpires, disconnect
<1>12. CASE UNCHANGED vars
  BY <1>12 DEF vars
<1> HIDE DEF IInv
<1> QED
  BY <1>1, <1>2, <1>3, <1>4, <1>5, <1>6, <1>7, <1>8, <1>9, <1>10, <1>11, <1>12 DEF Next

\* sendUasResponse() always finds the INVITE unanswered: the UA is in a state
\* from which it answers exactly as long as its transaction is open.
THEOREM UasAnswerTaken == Spec => []AnswerTaken
<1>1. IInv => AnswerTaken
  BY DEF IInv
<1> QED BY <1>1, UasInit, UasStep, PTL DEF Spec

-----------------------------------------------------------------------------
(* The timers.                                                             *)

Running == timers \cap SetupTimer

\* The call is up and nothing is left to be waited for.
Up == st = "Connected" /\ (~ackWait \/ tx = "over")

\* SetupTimed and CreditEnforced rest on no_progress being over, and no timer
\* running before the INVITE.
Fresh    == st = "None" => timers = {}
OneTimer == \A a, b \in Running : a = b
Watched  == st \in Setup /\ times["expire"] # 0 => Running # {}
Quiet    == Up => Running = {}
Billed   == Up /\ times["credit"] # 0 => "credit" \in timers
Progress == st = "Connected" => "no_progress" \notin timers

TInv == /\ times \in [Which -> 0 .. MaxTime]
        /\ Fresh /\ OneTimer /\ Watched /\ Quiet /\ Billed /\ Progress

LEMMA UasTimerInit == Init => TInv
BY DEF Init, TInv, Fresh, OneTimer, Watched, Quiet, Billed, Progress, Up, Running,
       SetupTimer, Setup

LEMMA HandledKeepsTimers ==
    ASSUME IInv, TInv, NEW k \in {"Ring", "Connect", "PreConnect"}, Handled(k),
           times' = times
    PROVE  TInv'
<1> USE DEF TInv, Fresh, OneTimer, Watched, Quiet, Billed, Progress, Up, Running,
            SetupTimer, Setup
<1>1. CASE st \notin Setup
  BY <1>1 DEF Handled
<1>2. CASE st \in Setup /\ k = "Ring"
  BY <1>2 DEF Handled, Rings, ThenExpire
<1>3. CASE st \in Setup /\ k = "Connect"
  BY <1>3 DEF Handled, Connects, WithCredit
<1>4. CASE st \in Setup /\ k = "PreConnect"
  BY <1>4 DEF Handled, PreConnects, IInv, AnswerTaken
<1> QED BY <1>1, <1>2, <1>3, <1>4

LEMMA EndedKeepsTimers ==
    ASSUME TInv, NEW ts \in SUBSET timers, NEW last \in LastStates,
           Ended(ts, last), times' = times
    PROVE  TInv'
<1> USE DEF TInv, Fresh, OneTimer, Watched, Quiet, Billed, Progress, Up, Running,
            SetupTimer, Setup, LastStates, LastTimer
<1>1. CASE st \in Setup
  BY <1>1 DEF Ended
<1>2. CASE st = "Connected"
  BY <1>2 DEF Ended
<1>3. CASE st \notin Setup \cup {"Connected"}
  BY <1>3 DEF Ended
<1> QED BY <1>1, <1>2, <1>3

LEMMA UasTimerStep == IInv /\ TInv /\ [Next]_vars => TInv'
<1> SUFFICES ASSUME IInv, TInv, [Next]_vars PROVE TInv'
  OBVIOUS
<1> USE DEF TInv, Fresh, OneTimer, Watched, Quiet, Billed, Progress, Up, Running,
            SetupTimer, Setup, LastStates
<1>1. ASSUME NEW body, InviteArrives(body) PROVE TInv'
  <2>1. times' \in [Which -> 0 .. MaxTime]
    <3>1. Effective \in [Which -> 0 .. MaxTime]
      <4>1. 0 \in 0 .. MaxTime
        BY UasAssumption
      <4> QED BY <4>1 DEF Effective
    <3> QED BY <1>1, <3>1 DEF InviteArrives
  <2>2. st' \in {"Trying", "Idle"} /\ timers' = FirstTimer(times')
    BY <1>1 DEF InviteArrives
  <2> QED BY <2>1, <2>2 DEF FirstTimer
<1>2. ASSUME NEW body, AckArrives(body) PROVE TInv'
  <2>1. CASE ackWait /\ st = "Connected"
    BY <1>2, <2>1 DEF AckArrives, WithCredit
  <2>2. CASE ~(ackWait /\ st = "Connected")
    BY <1>2, <2>2 DEF AckArrives
  <2> QED BY <2>1, <2>2
<1>3. ASSUME NEW k \in {"Ring", "Connect", "PreConnect"}, recvEvent(k) PROVE TInv'
  <2>1. CASE Handled(k)
    BY <1>3, <2>1, HandledKeepsTimers DEF recvEvent
  <2>2. CASE UNCHANGED <<st, timers, tx, ackWait>>
    BY <1>3, <2>2 DEF recvEvent
  <2> QED BY <1>3, <2>1, <2>2 DEF recvEvent
<1>4. ASSUME NEW k \in {"Ring", "Connect", "PreConnect"}, NEW ok \in BOOLEAN,
             LocalSdpDone(k, ok) PROVE TInv'
  <2>1. CASE ok
    BY <1>4, <2>1, HandledKeepsTimers DEF LocalSdpDone
  <2>2. CASE ~ok
    BY <1>4, <2>2, EndedKeepsTimers DEF LocalSdpDone, Refused
  <2> QED BY <2>1, <2>2
<1>5. ASSUME NEW last \in {"Failed", "Disconnected"}, recvEnd(last) PROVE TInv'
  BY <1>5, EndedKeepsTimers DEF recvEnd
<1>6. ASSUME NEW e, NEW ok \in BOOLEAN, RemoteSdpDone(e, ok) PROVE TInv'
  <2>1. CASE ok
    BY <1>6, <2>1 DEF RemoteSdpDone
  <2>2. CASE ~ok
    BY <1>6, <2>2, EndedKeepsTimers DEF RemoteSdpDone, Refused
  <2> QED BY <2>1, <2>2
<1>7. CASE cancel
  BY <1>7 DEF cancel, Moved, LastTimer
<1>8. CASE NoAck
  <2>1. CASE st = "Idle"
    BY <1>8, <2>1 DEF NoAck
  <2>2. CASE st # "Idle"
    BY <1>8, <2>2, EndedKeepsTimers DEF NoAck, disconnect
  <2> QED BY <2>1, <2>2
<1>9. CASE ByeArrives
  BY <1>9 DEF ByeArrives, LastTimer
<1>10. CASE InfoArrives
  BY <1>10 DEF InfoArrives
<1>11. CASE goDead
  BY <1>11 DEF goDead
<1>12. ASSUME NEW x, TimerExpires(x) PROVE TInv'
  BY <1>12, EndedKeepsTimers DEF TimerExpires, disconnect
<1>13. CASE UNCHANGED vars
  BY <1>13 DEF vars
<1> HIDE DEF TInv
<1> QED
  BY <1>1, <1>2, <1>3, <1>4, <1>5, <1>6, <1>7, <1>8, <1>9, <1>10, <1>11, <1>12, <1>13
  DEF Next

\* An incoming call that neither progresses nor fails is ended by its timer, and
\* no setup timer outlives the setup.
THEOREM UasSetupTimed == Spec => []SetupTimed
<1>1. TInv => SetupTimed
  BY DEF TInv, OneTimer, Watched, Quiet, Up, Running, SetupTimed
<1> QED BY <1>1, UasInit, UasStep, UasTimerInit, UasTimerStep, PTL DEF Spec

\* No billed call is connected without its credit timer.
THEOREM UasCreditEnforced == Spec => []CreditEnforced
<1>1. TInv => CreditEnforced
  BY DEF TInv, Billed, Up, CreditEnforced
<1> QED BY <1>1, UasInit, UasStep, UasTimerInit, UasTimerStep, PTL DEF Spec

\* A leg can be answered while it means to be, and is never without the timer that
\* would end it.
THEOREM UasLegGuarded == Spec => []LegGuarded
<1>1. AnswerTaken /\ SetupTimed /\ CreditEnforced => LegGuarded
  BY DEF LegGuarded
<1> QED BY <1>1, UasAnswerTaken, UasSetupTimed, UasCreditEnforced, PTL

-----------------------------------------------------------------------------
(* The types of the variables that are not about events.                   *)

Timers == Which \cup {"goDead"}

TypeInv ==
    /\ st \in {"None", "Idle", "Trying", "Ringing", "Connected", "Disconnected", "Failed", "Dead"}
    /\ timers \in SUBSET Timers
    /\ tx \in {"none", "open", "final", "over"} /\ ackWait \in BOOLEAN
    /\ held \in SUBSET {"Ring", "Connect", "PreConnect"} /\ hup \in BOOLEAN

LEMMA UasTypeInit == Init => TypeInv
BY DEF Init, TypeInv

LEMMA HandledTyped ==
    ASSUME TypeInv, NEW k \in {"Ring", "Connect", "PreConnect"}, Handled(k),
           held' \in SUBSET {"Ring", "Connect", "PreConnect"}, hup' = hup
    PROVE  TypeInv'
<1>1. CASE st \notin Setup
  BY <1>1 DEF Handled, TypeInv
<1>2. CASE st \in Setup
  BY <1>2 DEF Handled, Rings, Connects, PreConnects, ThenExpire, WithCredit, TypeInv, Timers, Which
<1> QED BY <1>1, <1>2

LEMMA EndedTyped ==
    ASSUME TypeInv, NEW ts \in SUBSET timers, NEW last \in LastStates, Ended(ts, last),
           tx' \in {"none", "open", "final", "over"}, hup' \in BOOLEAN, ackWait' = ackWait,
           held' \in SUBSET held
    PROVE  TypeInv'
<1>1. timers' \in SUBSET Timers
  BY DEF Ended, TypeInv, LastTimer, Timers
<1>2. held' \in SUBSET {"Ring", "Connect", "PreConnect"}
  BY DEF TypeInv
<1> QED BY <1>1, <1>2 DEF Ended, TypeInv, LastStates

LEMMA UasTypeStep == TypeInv /\ [Next]_vars => TypeInv'
<1> SUFFICES ASSUME TypeInv, [Next]_vars PROVE TypeInv'
  OBVIOUS
<1>c. Closed \in {"none", "open", "final", "over"}
  BY DEF TypeInv, Closed
<1>t. LastStates = {"Disconnected", "Failed"} /\ timers \in SUBSET Timers
  BY DEF LastStates, TypeInv
<1>1. ASSUME NEW body, InviteArrives(body) PROVE TypeInv'
  BY <1>1 DEF InviteArrives, FirstTimer, TypeInv, Timers, Which
<1>2. ASSUME NEW body, AckArrives(body) PROVE TypeInv'
  <2>1. timers' \in SUBSET Timers
    BY <1>2, <1>t DEF AckArrives, WithCredit, Timers, Which
  <2> QED BY <1>2, <2>1 DEF AckArrives, TypeInv
<1>3. ASSUME NEW k \in {"Ring", "Connect", "PreConnect"}, recvEvent(k) PROVE TypeInv'
  <2>1. held' \in SUBSET {"Ring", "Connect", "PreConnect"} /\ hup' = hup
    BY <1>3 DEF recvEvent, TypeInv
  <2>2. CASE Handled(k)
    BY <2>1, <2>2, HandledTyped
  <2>3. CASE UNCHANGED <<st, timers, tx, ackWait>>
    BY <2>1, <2>3 DEF TypeInv
  <2> QED BY <1>3, <2>2, <2>3 DEF recvEvent
<1>4. ASSUME NEW k \in {"Ring", "Connect", "PreConnect"}, NEW ok \in BOOLEAN, LocalSdpDone(k, ok)
      PROVE  TypeInv'
  <2>1. held' \in SUBSET held
    BY <1>4 DEF LocalSdpDone
  <2>2. CASE ok
    BY <1>4, <2>1, <2>2, HandledTyped DEF LocalSdpDone, TypeInv
  <2>3. CASE ~ok
    BY <1>4, <2>1, <2>3, <1>c, <1>t, EndedTyped DEF LocalSdpDone, Refused
  <2> QED BY <2>2, <2>3
<1>5. ASSUME NEW last \in {"Failed", "Disconnected"}, recvEnd(last) PROVE TypeInv'
  BY <1>5, <1>c, <1>t, EndedTyped DEF recvEnd
<1>6. ASSUME NEW e, NEW ok \in BOOLEAN, RemoteSdpDone(e, ok) PROVE TypeInv'
  <2>1. CASE ok
    BY <1>6, <2>1 DEF RemoteSdpDone, TypeInv
  <2>2. CASE ~ok
    BY <1>6, <2>2, <1>c, <1>t, EndedTyped DEF RemoteSdpDone, Refused
  <2> QED BY <2>1, <2>2
<1>7. CASE cancel
  BY <1>7 DEF cancel, Moved, LastTimer, TypeInv, Timers
<1>8. CASE NoAck
  <2>1. CASE st = "Idle"
    BY <1>8, <2>1 DEF NoAck, TypeInv
  <2>2. CASE st # "Idle"
    BY <1>8, <2>2, <1>t, EndedTyped DEF NoAck, disconnect
  <2> QED BY <2>1, <2>2
<1>9. CASE ByeArrives
  <2>1. timers' \in SUBSET Timers
    BY <1>9, <1>t DEF ByeArrives, LastTimer, Timers
  <2> QED BY <1>9, <2>1 DEF ByeArrives, TypeInv
<1>10. CASE InfoArrives \/ goDead
  BY <1>10 DEF InfoArrives, goDead, TypeInv
<1>11. ASSUME NEW x, TimerExpires(x) PROVE TypeInv'
  BY <1>11, <1>c, <1>t, EndedTyped DEF TimerExpires, disconnect
<1>12. CASE UNCHANGED vars
  BY <1>12 DEF vars, TypeInv
<1> QED
  BY <1>1, <1>2, <1>3, <1>4, <1>5, <1>6, <1>7, <1>8, <1>9, <1>10, <1>11, <1>12 DEF Next

-----------------------------------------------------------------------------
(* The events.                                                             *)

\* A leg that has ended, or was never set up: it creates no event but an End any more.
Over == st \notin Setup \cup {"None", "Connected"}

\* The queue of a leg that is not dead is always handed over, and before the INVITE
\* nothing is at the RTP proxy.
EInv == /\ OnTheWay(seq, cc, equeue, delayed)
        /\ \A e \in delayed : e.kind \in {"Try", "Connect"}
        /\ ~Over => NoEnd(cc, equeue)
        /\ st # "Dead" => equeue = <<>>
        /\ st = "None" => held = {} /\ delayed = {}

LEMMA UasEventInit == Init => EInv
<1> SUFFICES ASSUME Init PROVE EInv
  OBVIOUS
<1>1. /\ seq = 0 /\ equeue = <<>> /\ delayed = {} /\ held = {}
      /\ cc = [last |-> 0, kinds |-> {}, late |-> {}]
  BY DEF Init, Nothing
<1>2. cc \in Knows(0) /\ cc.late = {} /\ cc.kinds = {}
  BY <1>1 DEF Knows
<1>3. <<>> \in Seq(Numbers(0)) /\ DOMAIN <<>> = {}
  OBVIOUS
<1>4. OnTheWay(seq, cc, equeue, delayed)
  BY <1>1, <1>2, <1>3 DEF OnTheWay, Kept
<1>5. NoEnd(cc, equeue)
  BY <1>1, <1>2, <1>3 DEF NoEnd
<1> QED BY <1>1, <1>4, <1>5 DEF EInv

LEMMA CreatedIs ==
    ASSUME NEW S, NEW q \in Seq(S), NEW k, Event(k, seq + 1) \in S
    PROVE  q \o Created(<<k>>) = Append(q, Event(k, seq + 1)) /\ Len(<<k>>) = 1
<1> DEFINE e == Event(k, seq + 1)
<1>1. Created(<<k>>) = [i \in {1} |-> e]
  BY DEF Created
<1> HIDE DEF e
<1>2. [i \in {1} |-> e] = <<e>>
  OBVIOUS
<1>3. e \in S
  BY DEF e
<1>4. q \o <<e>> = Append(q, e)
  BY <1>3
<1> QED BY <1>1, <1>2, <1>4 DEF e

LEMMA Queues ==
    ASSUME EInv, NEW k \in Kinds, QueueAndEmit(<<k>>)
    PROVE  /\ seq' = seq + 1
           /\ IF st = "Dead" THEN equeue' = Append(equeue, Event(k, seq + 1)) /\ cc' = cc
              ELSE equeue' = <<>> /\ cc' = GivenAll(cc, Append(equeue, Event(k, seq + 1)))
<1>1. seq \in Nat /\ equeue \in Seq(Numbers(seq))
  BY DEF EInv, OnTheWay
<1>2. equeue \in Seq(Numbers(seq + 1)) /\ Event(k, seq + 1) \in Numbers(seq + 1)
  BY <1>1, WayOn
<1>3. equeue \o Created(<<k>>) = Append(equeue, Event(k, seq + 1)) /\ Len(<<k>>) = 1
  BY <1>2, CreatedIs
<1> QED BY <1>3 DEF Queue, QueueAndEmit

\* emitEvent() of an End, past a queue that is empty, is one turn of emitPendingEvents().
LEMMA EmitIs ==
    ASSUME EInv, st # "Dead", NEW k \in Kinds, Emit(k)
    PROVE  /\ seq' = seq + 1 /\ equeue' = <<>>
           /\ cc' = GivenAll(cc, Append(equeue, Event(k, seq + 1)))
<1> DEFINE e == Event(k, seq + 1)
<1>1. seq \in Nat /\ cc \in Knows(seq) /\ equeue = <<>> /\ equeue \in Seq(Numbers(seq))
  BY DEF EInv, OnTheWay
<1>2. /\ seq + 1 \in Nat /\ cc \in Knows(seq + 1) /\ equeue \in Seq(Numbers(seq + 1))
      /\ e \in Numbers(seq + 1)
  BY <1>1, WayOn
<1> HIDE DEF e
<1>3. /\ GivenAll(cc, <<>>) = cc
      /\ GivenAll(cc, Append(equeue, e)) = Given(GivenAll(cc, equeue), e)
  BY <1>2, GivenInTurn
<1> QED BY <1>1, <1>3 DEF Emit, e

LEMMA SaysEnd ==
    ASSUME EInv, QueueAndEmit(<<"End">>) \/ (st # "Dead" /\ Emit("End")), Over',
           st = "Dead" => st' = "Dead",
           delayed' = delayed \/ \E e \in delayed : delayed' = delayed \ {e}
    PROVE  EInv'
<1> DEFINE q == Append(equeue, Event("End", seq + 1))
<1>0. "End" \in Kinds
  BY DEF Kinds
<1>1. OnTheWay(seq, cc, equeue, delayed') /\ \A e \in delayed' : e.kind \in {"Try", "Connect"}
  <2>1. CASE delayed' = delayed
    BY <2>1 DEF EInv
  <2>2. ASSUME NEW e \in delayed, delayed' = delayed \ {e}
        PROVE  OnTheWay(seq, cc, equeue, delayed') /\ \A d \in delayed' : d.kind \in {"Try", "Connect"}
    <3>1. OnTheWay(seq, cc, equeue, delayed \ {e})
      BY WayLess DEF EInv
    <3> QED BY <2>2, <3>1 DEF EInv
  <2> QED BY <2>1, <2>2
<1>2. OnTheWay(seq + 1, cc, q, delayed')
  BY <1>1, WayEnd
<1>3. OnTheWay(seq + 1, GivenAll(cc, q), <<>>, delayed')
  BY <1>2, WayGiven
<1>4. /\ seq' = seq + 1
      /\ \/ st = "Dead" /\ equeue' = q /\ cc' = cc
         \/ st # "Dead" /\ equeue' = <<>> /\ cc' = GivenAll(cc, q)
  BY <1>0, Queues, EmitIs
<1>5. st' # "None"
  BY DEF Over
<1> QED BY <1>1, <1>2, <1>3, <1>4, <1>5 DEF EInv

LEMMA SaysMore ==
    ASSUME EInv, ~Over, st' # "None", st' # "Dead", NEW k \in Kinds \ {"End"},
           \/ QueueAndEmit(<<k>>) /\ delayed' = delayed
           \/ Delay(k) /\ k \in {"Try", "Connect"}
    PROVE  EInv'
<1> DEFINE q == Append(equeue, Event(k, seq + 1))
<1>0. st # "Dead" /\ NoEnd(cc, equeue) /\ k \in Kinds /\ equeue = <<>>
  BY DEF Over, EInv, Setup
<1>1. /\ OnTheWay(seq + 1, cc, q, delayed) /\ NoEnd(cc, q)
      /\ OnTheWay(seq + 1, cc, equeue, delayed \cup {Event(k, seq + 1)})
  BY <1>0, WayNew DEF EInv
<1>2. CASE QueueAndEmit(<<k>>) /\ delayed' = delayed
  <2>1. seq' = seq + 1 /\ equeue' = <<>> /\ cc' = GivenAll(cc, q)
    BY <1>0, <1>2, Queues
  <2>2. OnTheWay(seq + 1, GivenAll(cc, q), <<>>, delayed) /\ NoEnd(GivenAll(cc, q), <<>>)
    BY <1>1, WayGiven
  <2> QED BY <1>2, <2>1, <2>2 DEF EInv
<1>3. CASE Delay(k) /\ k \in {"Try", "Connect"}
  <2>1. seq' = seq + 1 /\ delayed' = delayed \cup {Event(k, seq + 1)} /\ equeue' = equeue /\ cc' = cc
    BY <1>3 DEF Delay
  <2>2. \A e \in delayed' : e.kind \in {"Try", "Connect"}
    BY <1>3, <2>1 DEF EInv, Event
  <2> QED BY <1>0, <1>1, <2>1, <2>2 DEF EInv
<1> QED BY <1>2, <1>3

LEMMA EndedIsOver ==
    ASSUME TypeInv, NEW ts, NEW last \in LastStates, Ended(ts, last), st # "None"
    PROVE  Over' /\ (st = "Dead" => st' = "Dead")
BY DEF Ended, Over, Setup, LastStates, TypeInv

LEMMA UasEventStep == IInv /\ TInv /\ TypeInv /\ EInv /\ [Next]_vars => EInv'
<1> SUFFICES ASSUME IInv, TInv, TypeInv, EInv, [Next]_vars PROVE EInv'
  OBVIOUS
<1>0. ASSUME UNCHANGED <<evq, delayed>>, ~Over' => ~Over, st' = "None" => st = "None" /\ held' = held,
             st = "Dead" => st' = "Dead"
      PROVE  EInv'
  BY <1>0 DEF EInv, evq
<1>k. "End" \in Kinds /\ {"Try", "Connect", "Info"} \subseteq Kinds \ {"End"}
  BY DEF Kinds
<1>l. LastStates = {"Disconnected", "Failed"}
  BY DEF LastStates
<1>1. ASSUME NEW body, InviteArrives(body) PROVE EInv'
  <2>1. CASE body = "error"
    BY <1>1, <2>1, <1>0 DEF InviteArrives, Over, Setup
  <2>2. CASE body # "error"
    <3>1. /\ ~Over /\ st' # "None" /\ st' # "Dead"
          /\ Delay("Try") \/ (QueueAndEmit(<<"Try">>) /\ delayed' = delayed)
      BY <1>1, <2>2 DEF InviteArrives, Over
    <3> QED BY <3>1, <1>k, SaysMore
  <2> QED BY <2>1, <2>2
<1>2. ASSUME NEW body, AckArrives(body) PROVE EInv'
  <2>1. CASE UNCHANGED <<delayed, evq>>
    BY <1>2, <2>1, <1>0 DEF AckArrives, Over
  <2>2. CASE ~UNCHANGED <<delayed, evq>>
    <3>1. /\ ~Over /\ st' # "None" /\ st' # "Dead"
          /\ Delay("Connect") \/ (QueueAndEmit(<<"Connect">>) /\ delayed' = delayed)
      BY <1>2, <2>2 DEF AckArrives, Over
    <3> QED BY <3>1, <1>k, SaysMore
  <2> QED BY <2>1, <2>2
<1>h. ASSUME NEW k \in {"Ring", "Connect", "PreConnect"}, Handled(k)
      PROVE  /\ ~Over' => ~Over
             /\ st' = "None" => st = "None"
             /\ st = "Dead" => st' = "Dead"
  BY <1>h DEF Handled, Rings, Connects, PreConnects, Over, Setup
<1>3. ASSUME NEW k \in {"Ring", "Connect", "PreConnect"}, recvEvent(k) PROVE EInv'
  <2>1. /\ UNCHANGED <<evq, delayed>>
        /\ ~Over' => ~Over
        /\ st' = "None" => FALSE
        /\ st = "Dead" => st' = "Dead"
    BY <1>3, <1>h DEF recvEvent, Over, Setup
  <2> QED BY <2>1, <1>0
<1>4. ASSUME NEW k \in {"Ring", "Connect", "PreConnect"}, NEW ok \in BOOLEAN, LocalSdpDone(k, ok)
      PROVE  EInv'
  <2>0. st # "None"
    BY <1>4 DEF LocalSdpDone, EInv
  <2>1. CASE ok
    BY <1>4, <2>0, <2>1, <1>0, <1>h DEF LocalSdpDone
  <2>2. CASE ~ok
    <3>1. Ended(timers, "Failed") /\ QueueAndEmit(<<"End">>) /\ delayed' = delayed
      BY <1>4, <2>2 DEF LocalSdpDone, Refused
    <3>2. Over' /\ (st = "Dead" => st' = "Dead")
      BY <2>0, <3>1, <1>l, EndedIsOver
    <3> QED BY <3>1, <3>2, SaysEnd
  <2> QED BY <2>1, <2>2
<1>5. ASSUME NEW last \in {"Failed", "Disconnected"}, recvEnd(last) PROVE EInv'
  <2>1. Ended(timers, last) /\ st # "None" /\ UNCHANGED <<evq, delayed>>
    BY <1>5 DEF recvEnd, Setup
  <2>2. Over' /\ (st = "Dead" => st' = "Dead")
    BY <2>1, <1>l, EndedIsOver
  <2>3. st' # "None"
    BY <2>2 DEF Over
  <2> QED BY <2>1, <2>2, <2>3, <1>0
<1>6. ASSUME NEW e \in delayed, NEW ok \in BOOLEAN, RemoteSdpDone(e, ok) PROVE EInv'
  <2>0. st # "None"
    BY <1>6 DEF EInv
  <2>1. CASE ok
    <3>1. /\ OnTheWay(seq, cc, Append(equeue, e), delayed \ {e})
          /\ NoEnd(cc, equeue) => NoEnd(cc, Append(equeue, e))
      BY WayOld DEF EInv
    <3>2. /\ OnTheWay(seq, GivenAll(cc, Append(equeue, e)), <<>>, delayed \ {e})
          /\ NoEnd(cc, Append(equeue, e)) => NoEnd(GivenAll(cc, Append(equeue, e)), <<>>)
      BY <3>1, WayGiven
    <3>3. delayed' = delayed \ {e} /\ seq' = seq /\ st' = st /\ (Over' <=> Over)
      BY <1>6, <2>1 DEF RemoteSdpDone, Over
    <3>4. CASE st = "Dead" /\ equeue' = Append(equeue, e) /\ cc' = cc
      BY <2>0, <3>1, <3>3, <3>4 DEF EInv
    <3>5. CASE equeue' = <<>> /\ cc' = GivenAll(cc, Append(equeue, e))
      BY <2>0, <3>1, <3>2, <3>3, <3>5 DEF EInv
    <3> QED BY <1>6, <2>1, <3>4, <3>5 DEF RemoteSdpDone
  <2>2. CASE ~ok
    <3>1. Ended(timers, "Failed") /\ QueueAndEmit(<<"End">>) /\ delayed' = delayed \ {e}
      BY <1>6, <2>2 DEF RemoteSdpDone, Refused
    <3>2. Over' /\ (st = "Dead" => st' = "Dead")
      BY <2>0, <3>1, <1>l, EndedIsOver
    <3> QED BY <3>1, <3>2, SaysEnd
  <2> QED BY <2>1, <2>2
<1>7. CASE cancel
  <2>1. Over' /\ st # "Dead" /\ Emit("End") /\ delayed' = delayed
    BY <1>7 DEF cancel, Moved, Over, Setup
  <2> QED BY <2>1, SaysEnd
<1>d. ASSUME NEW ts, disconnect(ts), st # "None", delayed' = delayed PROVE EInv'
  <2>1. Ended(ts, "Disconnected") /\ QueueAndEmit(<<"End">>)
    BY <1>d DEF disconnect
  <2>2. Over' /\ (st = "Dead" => st' = "Dead")
    BY <1>d, <2>1, <1>l, EndedIsOver
  <2> QED BY <1>d, <2>1, <2>2, SaysEnd
<1>8. CASE NoAck
  <2>1. CASE st = "Idle"
    BY <1>8, <2>1, <1>0 DEF NoAck, Over
  <2>2. CASE st # "Idle"
    <3>1. st # "None" /\ disconnect(timers) /\ delayed' = delayed
      BY <1>8, <2>2 DEF NoAck, IInv, Begun
    <3> QED BY <3>1, <1>d
  <2> QED BY <2>1, <2>2
<1>9. CASE ByeArrives
  <2>1. Over' /\ st # "Dead" /\ QueueAndEmit(<<"End">>) /\ delayed' = delayed
    BY <1>9 DEF ByeArrives, Over, Setup
  <2> QED BY <2>1, SaysEnd
<1>10. CASE InfoArrives
  <2>1. /\ ~Over /\ st' # "None" /\ st' # "Dead"
        /\ QueueAndEmit(<<"Info">>) /\ delayed' = delayed
    BY <1>10 DEF InfoArrives, Over
  <2> QED BY <2>1, <1>k, SaysMore
<1>11. CASE goDead
  BY <1>11, <1>0 DEF goDead, Over, Setup
<1>12. ASSUME NEW x, TimerExpires(x) PROVE EInv'
  <2>1. disconnect(timers \ {x}) /\ st # "None" /\ delayed' = delayed
    BY <1>12 DEF TimerExpires, TInv, Fresh
  <2> QED BY <2>1, <1>d
<1>13. CASE UNCHANGED vars
  BY <1>13, <1>0 DEF vars, Over
<1> QED
  BY <1>1, <1>2, <1>3, <1>4, <1>5, <1>6, <1>7, <1>8, <1>9, <1>10, <1>11, <1>12, <1>13 DEF Next

\* A call that the controller knows to have ended is neither started nor connected by an
\* event that comes back late from the RTP proxy (recvRequest's CCEventTry, the
\* CCEventConnect of a late ACK), for any number of events.
THEOREM UasEndsLast == Spec => []EndsLast
<1>1. Init => IInv /\ TInv /\ TypeInv /\ EInv
  BY UasInit, UasTimerInit, UasTypeInit, UasEventInit
<1>2. IInv /\ TInv /\ TypeInv /\ EInv /\ [Next]_vars => (IInv /\ TInv /\ TypeInv /\ EInv)'
  BY UasStep, UasTimerStep, UasTypeStep, UasEventStep
<1>3. TInv /\ TypeInv /\ EInv => EndsLast
  <2> SUFFICES ASSUME TInv, TypeInv, EInv PROVE EndsLast
    OBVIOUS
  <2>1. /\ seq \in Nat /\ cc.last \in 0 .. seq /\ cc.kinds \in SUBSET Kinds /\ cc.late \in SUBSET Kinds
        /\ \A i \in DOMAIN equeue : equeue[i].kind \in Kinds /\ equeue[i].seq \in 1 .. seq
        /\ \A e \in delayed : e.seq \in 1 .. seq
        /\ cc.late \subseteq {"End"}
    BY WayFacts DEF EInv
  <2>2. \A e \in delayed : e.kind \in {"Try", "Connect"}
    BY DEF EInv
  <2>3. times \in [Which -> 0 .. MaxTime]
    BY DEF TInv
  <2>4. TypeOK
    BY <2>1, <2>2, <2>3 DEF TypeOK, TypeInv, Timers
  <2> QED BY <2>1, <2>4 DEF EndsLast, NoCallAfterEnd
<1> QED BY <1>1, <1>2, <1>3, PTL DEF Spec
=============================================================================
