----------------------- MODULE CallController_proofs -----------------------
(***************************************************************************)
(* Proofs about CallController, for any number of routes, whichever of     *)
(* them are billed, and about the map of calls and its loop (CallMap), for *)
(* any calls and timers.                                                   *)
(*                                                                         *)
(* None of the four invariants is inductive: what a step may do to the     *)
(* outgoing legs depends on cc.state, which aDisc(), aConn() and rDone()   *)
(* set from different callbacks.  Phase relates it to the two legs; Placed *)
(* says which legs exist; Superseded that a leg was replaced after it had  *)
(* ended and said so; AnswersKnown where a late answer comes from.  The    *)
(* invariant of the map, MapSound, is stated with its part of the module.  *)
(***************************************************************************)
EXTENDS CallController, CallMap, FiniteSetTheorems, SequenceTheorems, TLAPS

Ended == {"Closing", "Over", "Dead"}

\* cc.state against the state of the caller's leg and the existence of uaO.
Phase ==
    /\ ccstate = "Idle" => uaA = "Setup" /\ auth = "none" /\ cur = 0
    /\ ccstate = "WaitRoute" => uaA = "Setup" /\ auth = "pending" /\ cur = 0
    /\ ccstate = "ARComplete" => uaA = "Setup" /\ auth = "done" /\ cur # 0
    /\ ccstate = "Connected" => uaA = "Connected" /\ auth = "done" /\ cur # 0
    /\ ccstate = "Disconnecting" => uaA \in {"Over", "Dead"} /\ cur # 0
    /\ ccstate = "Dead" => uaA \in {"Over", "Dead"} /\ (cur = 0 \/ leg[cur] = "New")
    /\ auth # "done" => cur = 0 /\ acctA = {}

\* The legs up to uaO exist and those after it do not.
Placed ==
    /\ \A r \in Route : r <= cur <=> leg[r] # "none"
    /\ \A r \in Route : leg[r] = "New" => r = cur /\ ccstate = "Dead"

\* A leg is replaced when it has ended and has said so.
Superseded == ~lateEnd => \A r \in Route : r < cur => leg[r] \in Ended /\ r \in said

\* An answer that waits for the RTP proxy was given, and by a leg that was placed.
AnswersKnown == connLater \subseteq answered /\ \A r \in answered : r <= cur

CallInv ==
    /\ TypeOK /\ Phase /\ Placed /\ Superseded /\ AnswersKnown
    /\ NoOrphan /\ RecordsSettled /\ InMapWhileAlive

LEMMA Step_recvTry ==
    ASSUME CallInv, recvTry
    PROVE  CallInv'
<1> USE CallAssumption DEF CallInv, Route, acct
<1>1. TypeOK'
  BY DEF TypeOK, recvTry
<1>2. Phase'
  BY DEF Phase, recvTry
<1>3. Placed'
  BY DEF Placed, recvTry
<1>4. Superseded'
  BY DEF Superseded, recvTry
<1>5. AnswersKnown'
  BY DEF AnswersKnown, recvTry
<1>6. NoOrphan'
  BY DEF NoOrphan, recvTry
<1>7. RecordsSettled'
  BY DEF RecordsSettled, recvTry
<1>8. InMapWhileAlive'
  BY DEF InMapWhileAlive, recvTry
<1> QED  BY <1>1, <1>2, <1>3, <1>4, <1>5, <1>6, <1>7, <1>8

LEMMA Step_recvOther ==
    ASSUME CallInv, recvOther
    PROVE  CallInv'
<1> USE CallAssumption DEF CallInv, Route, acct
<1>1. TypeOK'
  BY DEF TypeOK, recvOther, AEnds, AfterADisc, Stopped
<1>2. Phase'
  BY DEF Phase, recvOther, AEnds, AfterADisc, Stopped
<1>3. Placed'
  BY DEF Placed, recvOther
<1>4. Superseded'
  BY DEF Superseded, recvOther
<1>5. AnswersKnown'
  BY DEF AnswersKnown, recvOther
<1>6. NoOrphan'
  BY DEF NoOrphan, LiveLegs, Phase, Placed, recvOther, Live
<1>7. RecordsSettled'
  BY DEF RecordsSettled, recvOther, AEnds, Stopped
<1>8. InMapWhileAlive'
  BY DEF InMapWhileAlive, recvOther, AEnds
<1> QED  BY <1>1, <1>2, <1>3, <1>4, <1>5, <1>6, <1>7, <1>8

LEMMA Step_UaAEnds ==
    ASSUME CallInv, UaAEnds
    PROVE  CallInv'
<1> USE CallAssumption DEF CallInv, Route, acct
<1>1. TypeOK'
  BY DEF TypeOK, UaAEnds, AEnds, AfterADisc, Stopped, TellIf, Told
<1>2. Phase'
  BY DEF Phase, UaAEnds, AEnds, AfterADisc, Stopped
<1>3. Placed'
  BY DEF TypeOK, Placed, Phase, UaAEnds, TellIf, Told
<1>4. Superseded'
  BY DEF TypeOK, Superseded, UaAEnds, TellIf, Told
<1>5. AnswersKnown'
  BY DEF AnswersKnown, UaAEnds
<1>6. NoOrphan'
  BY DEF TypeOK, NoOrphan, LiveLegs, Phase, Placed, Superseded, Ended, UaAEnds, AfterADisc, TellIf, ForwardedIn, Told, Live
<1>7. RecordsSettled'
  BY DEF TypeOK, RecordsSettled, UaAEnds, AEnds, Stopped, TellIf, Told
<1>8. InMapWhileAlive'
  BY DEF InMapWhileAlive, UaAEnds, AEnds
<1> QED  BY <1>1, <1>2, <1>3, <1>4, <1>5, <1>6, <1>7, <1>8

LEMMA Step_UaAEndsAgain ==
    ASSUME CallInv, UaAEndsAgain
    PROVE  CallInv'
<1> USE CallAssumption DEF CallInv, Route, acct
<1>1. TypeOK'
  BY DEF TypeOK, UaAEndsAgain, TellIf, Told, Stopped
<1>2. Phase'
  BY DEF Phase, UaAEndsAgain, TellIf, ForwardedIn
<1>3. Placed'
  BY DEF TypeOK, Placed, UaAEndsAgain, TellIf, Told
<1>4. Superseded'
  BY DEF TypeOK, Superseded, UaAEndsAgain, TellIf, Told
<1>5. AnswersKnown'
  BY DEF AnswersKnown, UaAEndsAgain
<1>6. NoOrphan'
  BY DEF TypeOK, NoOrphan, LiveLegs, UaAEndsAgain, TellIf, Told
<1>7. RecordsSettled'
  BY DEF TypeOK, RecordsSettled, UaAEndsAgain, TellIf, Told, Stopped
<1>8. InMapWhileAlive'
  BY DEF InMapWhileAlive, UaAEndsAgain
<1> QED  BY <1>1, <1>2, <1>3, <1>4, <1>5, <1>6, <1>7, <1>8

LEMMA Step_aDead ==
    ASSUME CallInv, aDead
    PROVE  CallInv'
<1> USE CallAssumption DEF CallInv, Route, acct
<1>1. TypeOK'
  BY DEF TypeOK, aDead
<1>2. Phase'
  BY DEF Phase, aDead
<1>3. Placed'
  BY DEF Placed, aDead
<1>4. Superseded'
  BY DEF Superseded, aDead
<1>5. AnswersKnown'
  BY DEF AnswersKnown, aDead
<1>6. NoOrphan'
  BY DEF NoOrphan, LiveLegs, aDead
<1>7. RecordsSettled'
  BY DEF RecordsSettled, aDead
<1>8. InMapWhileAlive'
  BY DEF InMapWhileAlive, aDead, Forgotten
<1> QED  BY <1>1, <1>2, <1>3, <1>4, <1>5, <1>6, <1>7, <1>8

LEMMA Step_rDone ==
    ASSUME CallInv, NEW ok \in BOOLEAN, NEW n \in 0 .. MaxRoutes, rDone(ok, n)
    PROVE  CallInv'
<1> USE CallAssumption DEF CallInv, Route, acct
<1>1. TypeOK'
  <2>1. CASE cur' = cur
    <3>1. UNCHANGED <<leg, routes, acctO>>
      BY <2>1 DEF TypeOK, Phase, rDone, CallerWaits, placeOriginate, Replaced, TooManyHops
    <3>2. /\ uaA' \in {uaA, "Over"} /\ ccstate' \in {ccstate, "Dead"} /\ auth' = "done"
          /\ acctA' \in {acctA, {"open", "disc"}}
      BY <2>1 DEF TypeOK, Phase, rDone, CallerWaits, placeOriginate, Replaced, TooManyHops
    <3>3. UNCHANGED <<hops, inmap, connLater, said, lateEnd, answered>>
      BY DEF rDone
    <3> QED
      BY <2>1, <3>1, <3>2, <3>3 DEF TypeOK
  <2>2. CASE cur' # cur
    <3>1. /\ cur = 0 /\ cur' = 1 /\ n > 0 /\ 1 \in Route /\ routes' = n - 1
          /\ \/ leg' = [leg EXCEPT ![1] = "Calling"]
             \/ leg' = [leg EXCEPT ![1] = "New"]
          /\ acctO' = [acctO EXCEPT ![1] = NewRecord(1)]
          /\ acctA' \in SUBSET {"open", "conn", "disc"}
      BY <2>2 DEF TypeOK, Phase, rDone, Popped, placeOriginate, Replaced, TooManyHops
    <3>2. NewRecord(1) \in SUBSET {"open", "conn", "disc"}
      BY DEF NewRecord
    <3>3. leg' \in [Route -> Live \cup {"none", "New", "Closing", "Over", "Dead"}]
      BY <3>1 DEF TypeOK, Live
    <3>4. acctO' \in [Route -> SUBSET {"open", "conn", "disc"}]
      BY <3>1, <3>2 DEF TypeOK
    <3> QED
      BY <3>1, <3>3, <3>4 DEF TypeOK, rDone, placeOriginate, TooManyHops
  <2> QED
    BY <2>1, <2>2
<1>2. Phase'
  BY DEF TypeOK, Phase, rDone, CallerWaits, placeOriginate, Replaced, TooManyHops
<1>3. Placed'
  BY DEF TypeOK, Placed, Phase, rDone, placeOriginate, Replaced, TooManyHops
<1>4. Superseded'
  BY DEF Phase, Superseded, rDone, placeOriginate, Replaced, TooManyHops
<1>5. AnswersKnown'
  BY DEF TypeOK, AnswersKnown, Phase, rDone
<1>6. NoOrphan'
  BY DEF TypeOK, NoOrphan, LiveLegs, Phase, Placed, rDone, CallerWaits, TooManyHops, Live
<1>7. RecordsSettled'
  <2>1. \/ cur' = cur /\ UNCHANGED <<leg, acctO>>
        \/ /\ acctO' = [acctO EXCEPT ![1] = NewRecord(1)] /\ 1 \in Route
           /\ \E t \in {"Calling", "New"} : leg' = [leg EXCEPT ![1] = t]
    BY DEF TypeOK, Phase, rDone, CallerWaits, placeOriginate, Replaced, TooManyHops
  <2>2. acctA' \in {{}, {"open"}, {"open", "disc"}} /\ (uaA' \in {"Over", "Dead"} => acctA' \in {{}, {"open", "disc"}})
    BY DEF TypeOK, Phase, rDone, CallerWaits, placeOriginate, TooManyHops
  <2>3. UNCHANGED <<answered, lateEnd>>
    BY DEF rDone
  <2> QED
    BY <2>1, <2>2, <2>3 DEF RecordsSettled, TypeOK, NewRecord
<1>8. InMapWhileAlive'
  BY DEF InMapWhileAlive, rDone, CallerWaits, TooManyHops
<1> QED  BY <1>1, <1>2, <1>3, <1>4, <1>5, <1>6, <1>7, <1>8

LEMMA Step_LegAnswers ==
    ASSUME CallInv, NEW r \in Route, LegAnswers(r)
    PROVE  CallInv'
<1> USE CallAssumption DEF CallInv, Route, acct
<1>1. TypeOK'
  BY DEF TypeOK, Phase, LegAnswers, AnswerReaches, AConnects, Started, RecordStarted, Live
<1>2. Phase'
  BY DEF Phase, Placed, LegAnswers, AnswerReaches, AConnects
<1>3. Placed'
  BY DEF Placed, Phase, LegAnswers, AnswerReaches
<1>4. Superseded'
  BY DEF Superseded, Ended, LegAnswers
<1>5. AnswersKnown'
  BY DEF AnswersKnown, Placed, LegAnswers
<1>6. NoOrphan'
  BY DEF TypeOK, NoOrphan, LiveLegs, LegAnswers, AnswerReaches, AConnects
<1>7. RecordsSettled'
  BY DEF RecordsSettled, Placed, Superseded, Ended, LegAnswers, AnswerReaches, AConnects, Started, RecordStarted
<1>8. InMapWhileAlive'
  BY DEF InMapWhileAlive, LegAnswers, AnswerReaches, AConnects
<1> QED  BY <1>1, <1>2, <1>3, <1>4, <1>5, <1>6, <1>7, <1>8

LEMMA Step_AnswerArrives ==
    ASSUME CallInv, NEW r \in Route, AnswerArrives(r)
    PROVE  CallInv'
<1> USE CallAssumption DEF CallInv, Route, acct
<1>1. TypeOK'
  BY DEF TypeOK, AnswerArrives, AnswerReaches, AConnects, Started
<1>2. Phase'
  BY DEF Phase, AnswersKnown, AnswerArrives, AnswerReaches, AConnects
<1>3. Placed'
  BY DEF Placed, Phase, AnswerArrives, AnswerReaches
<1>4. Superseded'
  BY DEF Superseded, AnswerArrives
<1>5. AnswersKnown'
  BY DEF AnswersKnown, AnswerArrives
<1>6. NoOrphan'
  BY DEF NoOrphan, LiveLegs, AnswerArrives, AnswerReaches, AConnects
<1>7. RecordsSettled'
  BY DEF RecordsSettled, AnswersKnown, AnswerArrives, AnswerReaches, AConnects
<1>8. InMapWhileAlive'
  BY DEF InMapWhileAlive, AnswerArrives, AnswerReaches, AConnects
<1> QED  BY <1>1, <1>2, <1>3, <1>4, <1>5, <1>6, <1>7, <1>8

LEMMA Step_AnsweredTooLate ==
    ASSUME CallInv, NEW r \in Route, AnsweredTooLate(r)
    PROVE  CallInv'
<1> USE CallAssumption DEF CallInv, Route, acct
<1>1. TypeOK'
  BY DEF TypeOK, AnsweredTooLate
<1>2. Phase'
  BY DEF Phase, AnsweredTooLate
<1>3. Placed'
  BY DEF Placed, AnsweredTooLate
<1>4. Superseded'
  BY DEF Superseded, Ended, AnsweredTooLate
<1>5. AnswersKnown'
  BY DEF AnswersKnown, AnsweredTooLate
<1>6. NoOrphan'
  BY DEF NoOrphan, LiveLegs, AnsweredTooLate, Live
<1>7. RecordsSettled'
  BY DEF RecordsSettled, AnsweredTooLate
<1>8. InMapWhileAlive'
  BY DEF InMapWhileAlive, AnsweredTooLate
<1> QED  BY <1>1, <1>2, <1>3, <1>4, <1>5, <1>6, <1>7, <1>8

LEMMA Step_oDead ==
    ASSUME CallInv, NEW r \in Route, oDead(r)
    PROVE  CallInv'
<1> USE CallAssumption DEF CallInv, Route, acct
<1>1. TypeOK'
  BY DEF TypeOK, oDead
<1>2. Phase'
  BY DEF Phase, oDead, Dying
<1>3. Placed'
  BY DEF Placed, oDead, Dying
<1>4. Superseded'
  BY DEF Superseded, Ended, oDead
<1>5. AnswersKnown'
  BY DEF AnswersKnown, oDead
<1>6. NoOrphan'
  BY DEF NoOrphan, LiveLegs, oDead, Live
<1>7. RecordsSettled'
  BY DEF RecordsSettled, oDead, Dying
<1>8. InMapWhileAlive'
  <2>1. CASE r = cur /\ uaA = "Dead"
    BY <2>1 DEF TypeOK, InMapWhileAlive, oDead, Dying
  <2>2. CASE ~(r = cur /\ uaA = "Dead")
    <3>1. inmap' = inmap /\ UNCHANGED <<uaA, cur>>
      BY <2>2 DEF TypeOK, oDead
    <3>2. r # cur /\ cur # 0 => leg'[cur] = leg[cur]
      BY DEF TypeOK, oDead
    <3>3. r = cur => leg[cur] # "Dead"
      BY DEF oDead, Dying
    <3> QED
      BY <2>2, <3>1, <3>2, <3>3 DEF InMapWhileAlive
  <2> QED
    BY <2>1, <2>2
<1> QED  BY <1>1, <1>2, <1>3, <1>4, <1>5, <1>6, <1>7, <1>8

\* What an end of leg r, whose state becomes s, does to the legs and to the
\* records: the next route is placed, or the caller's leg is told.
LegsAfter(r, s) ==
    /\ leg' \in [Route -> Live \cup {"none", "New", "Closing", "Over", "Dead"}]
    /\ acctO' \in [Route -> SUBSET {"open", "conn", "disc"}]
    /\ leg'[r] = s /\ acctO'[r] = Stopped(acctO[r])

NextPlaced(r) ==
    /\ Hunts /\ UNCHANGED <<ccstate, uaA, acctA>>
    /\ cur + 1 \in Route /\ cur' = cur + 1 /\ routes' = routes - 1
    /\ leg'[cur + 1] = "Calling" /\ acctO'[cur + 1] = NewRecord(cur + 1)
    /\ \A q \in Route \ {r, cur + 1} : leg'[q] = leg[q] /\ acctO'[q] = acctO[q]

CallerTold(r) ==
    /\ \A q \in Route \ {r} : leg'[q] = leg[q] /\ acctO'[q] = acctO[q]
    /\ IF uaA \in {"Setup", "Connected"} THEN AEnds ELSE UNCHANGED <<ccstate, uaA, acctA>>
    /\ UNCHANGED <<routes, cur>>

LEMMA EndEffect ==
    ASSUME CallInv, NEW r \in Route, NEW s \in Ended, NEW h \in BOOLEAN,
           leg[r] # "none", EndReaches(r, s, h)
    PROVE  LegsAfter(r, s) /\ (NextPlaced(r) \/ CallerTold(r))
<1> USE CallAssumption DEF CallInv, Route, TypeOK
<1>1. r <= cur
  BY DEF Placed
<1>2. Stopped(acctO[r]) \in SUBSET {"open", "conn", "disc"}
  BY DEF Stopped
<1>3. CASE Hunts /\ ~h
  <2>1. cur + 1 \in Route /\ cur + 1 # r
    BY <1>1, <1>3 DEF Hunts
  <2>2. NewRecord(cur + 1) \in SUBSET {"open", "conn", "disc"}
    BY DEF NewRecord
  <2>3. /\ leg' = [[leg EXCEPT ![r] = s] EXCEPT ![cur + 1] = "Calling"]
        /\ acctO' = [[acctO EXCEPT ![r] = Stopped(@)] EXCEPT ![cur + 1] = NewRecord(cur + 1)]
        /\ cur' = cur + 1 /\ routes' = routes - 1
        /\ UNCHANGED <<ccstate, uaA, acctA>>
    BY <1>3 DEF EndReaches, placeOriginate, Replaced, Popped
  <2>4. LegsAfter(r, s)
    BY <1>2, <2>1, <2>2, <2>3 DEF LegsAfter, Ended, Live
  <2>5. NextPlaced(r)
    BY <1>3, <2>1, <2>3 DEF NextPlaced
  <2> QED
    BY <2>4, <2>5
<1>4. CASE ~Hunts \/ h
  <2>1. /\ leg' = [leg EXCEPT ![r] = s]
        /\ acctO' = [acctO EXCEPT ![r] = Stopped(@)]
        /\ IF uaA \in {"Setup", "Connected"} THEN AEnds
           ELSE UNCHANGED <<ccstate, uaA, acctA>>
        /\ UNCHANGED <<routes, cur>>
    BY <1>4 DEF EndReaches
  <2>2. LegsAfter(r, s)
    BY <1>2, <2>1 DEF LegsAfter, Ended, Live
  <2>3. CallerTold(r)
    BY <2>1 DEF CallerTold
  <2> QED
    BY <2>2, <2>3
<1> QED  BY <1>3, <1>4

\* The parts of the invariant that do not depend on who has ended before.
LEMMA EndKeeps ==
    ASSUME CallInv, NEW r \in Route, NEW s \in Ended, leg[r] \notin {"none", "New"},
           LegsAfter(r, s), NextPlaced(r) \/ CallerTold(r),
           said' = said \cup {r}, UNCHANGED <<hops, auth, connLater, answered>>,
           lateEnd' \in BOOLEAN, inmap' \in BOOLEAN, lateEnd => lateEnd'
    PROVE  /\ TypeOK' /\ Phase' /\ Placed' /\ AnswersKnown' /\ RecordsSettled'
<1> USE CallAssumption DEF CallInv, Route, TypeOK, LegsAfter
<1>1. r <= cur
  BY DEF Placed
<1>2. CASE NextPlaced(r)
  <2> USE <1>1, <1>2 DEF NextPlaced, Hunts
  <2>1. TypeOK'
    BY DEF Live
  <2>2. Phase'
    BY DEF Phase
  <2>3. Placed'
    <3>1. ASSUME NEW q \in Route PROVE q <= cur' <=> leg'[q] # "none"
      <4>1. CASE q \in {r, cur + 1}
        BY <4>1 DEF Ended
      <4>2. CASE q \notin {r, cur + 1}
        <5>1. leg'[q] = leg[q]
          BY <4>2
        <5>2. q <= cur' <=> q <= cur
          BY <4>2
        <5> QED  BY <5>1, <5>2 DEF Placed
      <4> QED  BY <4>1, <4>2
    <3>2. ASSUME NEW q \in Route, leg'[q] = "New" PROVE FALSE
      BY <3>2 DEF Placed, Ended
    <3> QED  BY <3>1, <3>2 DEF Placed
  <2>4. AnswersKnown'
    BY DEF AnswersKnown
  <2>5. RecordsSettled'
    BY DEF RecordsSettled, Stopped, NewRecord
  <2> QED
    BY <2>1, <2>2, <2>3, <2>4, <2>5
<1>3. CASE CallerTold(r)
  <2> USE <1>1, <1>3 DEF CallerTold
  <2>1. TypeOK'
    BY DEF Live, AEnds, AfterADisc, Stopped
  <2>2. Phase'
    BY DEF Phase, Placed, AEnds, AfterADisc, Stopped
  <2>3. Placed'
    BY DEF Placed, Phase, Ended, AEnds, AfterADisc
  <2>4. AnswersKnown'
    BY DEF AnswersKnown
  <2>5. RecordsSettled'
    BY DEF RecordsSettled, Stopped, AEnds
  <2> QED
    BY <2>1, <2>2, <2>3, <2>4, <2>5
<1> QED  BY <1>2, <1>3

LEMMA Step_LegEnds ==
    ASSUME CallInv, NEW r \in Route, NEW h \in BOOLEAN, NEW s \in Ended, LegEnds(r, s, h)
    PROVE  CallInv'
<1> USE CallAssumption DEF CallInv, Route
<1>1. /\ leg[r] \in Live /\ said' = said \cup {r}
      /\ UNCHANGED <<hops, auth, connLater, answered, lateEnd>>
      /\ inmap' = (inmap /\ ~(s = "Dead" /\ r = cur' /\ uaA = "Dead"))
  BY DEF LegEnds, Live
<1>2. LegsAfter(r, s) /\ (NextPlaced(r) \/ CallerTold(r))
  BY <1>1, EndEffect DEF LegEnds, Live
<1>3. inmap' \in BOOLEAN
  BY <1>1 DEF TypeOK
<1>4. TypeOK' /\ Phase' /\ Placed' /\ AnswersKnown' /\ RecordsSettled'
  BY <1>1, <1>2, <1>3, EndKeeps DEF TypeOK, Live
<1>5. r <= cur /\ (~lateEnd => r = cur)
  BY <1>1 DEF TypeOK, Placed, Superseded, Ended, Live
<1>6. Superseded'
  BY <1>1, <1>2, <1>5 DEF TypeOK, LegsAfter, NextPlaced, CallerTold, Superseded, Ended
<1>7. NoOrphan'
  BY <1>1, <1>2, <1>5 DEF TypeOK, LegsAfter, NextPlaced, Hunts, CallerTold, Placed, Superseded,
    NoOrphan, LiveLegs, Live, Ended
<1>8. InMapWhileAlive'
  <2>1. CASE NextPlaced(r)
    BY <1>1, <1>2, <2>1 DEF InMapWhileAlive, NextPlaced, Hunts, TypeOK
  <2>2. CASE CallerTold(r)
    <3>1. CASE s = "Dead" /\ r = cur /\ uaA = "Dead"
      BY <1>1, <1>2, <2>2, <3>1 DEF InMapWhileAlive, CallerTold, LegsAfter
    <3>2. CASE ~(s = "Dead" /\ r = cur /\ uaA = "Dead")
      <4>1. inmap' = inmap /\ cur' = cur
        BY <1>1, <2>2, <3>2 DEF CallerTold, TypeOK
      <4>2. r = cur => leg[cur] # "Dead" /\ leg'[cur] = s
        BY <1>1, <1>2 DEF LegsAfter, Live
      <4>3. r # cur /\ cur # 0 => leg'[cur] = leg[cur]
        BY <2>2 DEF CallerTold, TypeOK
      <4>4. (uaA' = "Dead") <=> (uaA = "Dead")
        BY <2>2 DEF CallerTold, AEnds
      <4> QED
        BY <3>2, <4>1, <4>2, <4>3, <4>4 DEF InMapWhileAlive
    <3> QED
      BY <3>1, <3>2
  <2> QED
    BY <1>2, <2>1, <2>2
<1> QED  BY <1>4, <1>6, <1>7, <1>8

LEMMA Step_LegEndsAgain ==
    ASSUME CallInv, NEW r \in Route, NEW h \in BOOLEAN, LegEndsAgain(r, h)
    PROVE  CallInv'
<1> USE CallAssumption DEF CallInv, Route
<1>1. /\ leg[r] \in {"Closing", "Over"} /\ said' = said \cup {r}
      /\ UNCHANGED <<hops, auth, connLater, answered, inmap>>
      /\ lateEnd' = (lateEnd \/ r \in said)
  BY DEF LegEndsAgain
<1>2. LegsAfter(r, leg[r]) /\ (NextPlaced(r) \/ CallerTold(r))
  BY <1>1, EndEffect DEF LegEndsAgain, Ended
<1>3. lateEnd' \in BOOLEAN
  BY <1>1 DEF TypeOK
<1>4. TypeOK' /\ Phase' /\ Placed' /\ AnswersKnown' /\ RecordsSettled'
  BY <1>1, <1>2, <1>3, EndKeeps DEF TypeOK, Ended
<1>5. r <= cur /\ (~lateEnd' => ~lateEnd /\ r = cur)
  <2>1. ~lateEnd' => ~lateEnd /\ r \notin said
    BY <1>1
  <2> QED
    BY <1>1, <2>1 DEF TypeOK, Placed, Superseded
<1>6. Superseded'
  BY <1>1, <1>2, <1>5 DEF TypeOK, LegsAfter, NextPlaced, CallerTold, Superseded, Ended
<1>7. NoOrphan'
  BY <1>1, <1>2, <1>5 DEF TypeOK, LegsAfter, NextPlaced, Hunts, CallerTold, Placed, Superseded,
    NoOrphan, LiveLegs, Live, Ended
<1>8. InMapWhileAlive'
  <2>1. CASE NextPlaced(r)
    BY <1>1, <1>2, <2>1 DEF InMapWhileAlive, NextPlaced, Hunts, TypeOK
  <2>2. CASE CallerTold(r)
    BY <1>1, <1>2, <1>5, <2>2 DEF InMapWhileAlive, CallerTold, LegsAfter, AEnds, TypeOK
  <2> QED
    BY <1>2, <2>1, <2>2
<1> QED  BY <1>4, <1>6, <1>7, <1>8

LEMMA InitInv == Init => CallInv
<1> SUFFICES ASSUME Init PROVE CallInv
  OBVIOUS
<1> USE CallAssumption DEF Init, Route
<1>1. TypeOK
  <2>1. acctO \in [Route -> SUBSET {"open", "conn", "disc"}]
    BY {} \in SUBSET {"open", "conn", "disc"}
  <2>2. leg \in [Route -> Live \cup {"none", "New", "Closing", "Over", "Dead"}]
    BY DEF Live
  <2>3. connLater \in SUBSET Route /\ said \in SUBSET Route /\ answered \in SUBSET Route
    OBVIOUS
  <2>4. cur \in 0 .. MaxRoutes /\ routes \in 0 .. MaxRoutes /\ cur + routes <= MaxRoutes
    OBVIOUS
  <2> QED
    BY <2>1, <2>2, <2>3, <2>4 DEF TypeOK
<1>2. Phase /\ Placed /\ Superseded /\ AnswersKnown
  BY DEF Phase, Placed, Superseded, AnswersKnown
<1>3. NoOrphan /\ RecordsSettled /\ InMapWhileAlive
  BY DEF NoOrphan, LiveLegs, Live, RecordsSettled, InMapWhileAlive
<1> QED  BY <1>1, <1>2, <1>3 DEF CallInv

LEMMA StutterInv ==
    ASSUME CallInv, UNCHANGED vars
    PROVE  CallInv'
<1> USE DEF CallInv, vars, acct
<1>1. TypeOK'
  BY DEF TypeOK
<1>2. Phase' /\ Placed' /\ Superseded' /\ AnswersKnown'
  BY DEF Phase, Placed, Superseded, AnswersKnown
<1>3. NoOrphan' /\ RecordsSettled' /\ InMapWhileAlive'
  BY DEF NoOrphan, LiveLegs, RecordsSettled, InMapWhileAlive
<1> QED  BY <1>1, <1>2, <1>3

LEMMA NextInv == CallInv /\ [Next]_vars => CallInv'
<1> SUFFICES ASSUME CallInv, [Next]_vars PROVE CallInv'
  OBVIOUS
<1>1. CASE recvTry  BY <1>1, Step_recvTry
<1>2. CASE recvOther  BY <1>2, Step_recvOther
<1>3. CASE UaAEnds  BY <1>3, Step_UaAEnds
<1>4. CASE UaAEndsAgain  BY <1>4, Step_UaAEndsAgain
<1>5. CASE aDead  BY <1>5, Step_aDead
<1>6. ASSUME NEW ok \in BOOLEAN, NEW n \in 0 .. MaxRoutes, rDone(ok, n) PROVE CallInv'
  BY <1>6, Step_rDone
<1>7. ASSUME NEW r \in Route,
             LegAnswers(r) \/ AnswerArrives(r) \/ AnsweredTooLate(r) \/ oDead(r)
      PROVE CallInv'
  BY <1>7, Step_LegAnswers, Step_AnswerArrives, Step_AnsweredTooLate, Step_oDead
<1>8. ASSUME NEW r \in Route, NEW h \in BOOLEAN, LegEndsAgain(r, h) PROVE CallInv'
  BY <1>8, Step_LegEndsAgain
<1>9. ASSUME NEW r \in Route, NEW h \in BOOLEAN, NEW s \in Ended, LegEnds(r, s, h)
      PROVE CallInv'
  BY <1>9, Step_LegEnds
<1>10. CASE UNCHANGED vars  BY <1>10, StutterInv
<1> QED
  BY <1>1, <1>2, <1>3, <1>4, <1>5, <1>6, <1>7, <1>8, <1>9, <1>10 DEF Next, Ended

LEMMA SpecInv == Spec => []CallInv
  BY InitInv, NextInv, PTL DEF Spec

-----------------------------------------------------------------------------

\* The state of a call controller has its type: in particular routes.pop(0) is
\* never called on an empty list.
THEOREM CallTypeCorrect == Spec => []TypeOK
<1>1. CallInv => TypeOK  BY DEF CallInv
<1> QED  BY <1>1, SpecInv, PTL

\* When the caller's leg is over no outgoing leg is left calling or connected.
THEOREM CallNoOrphan == Spec => []NoOrphan
<1>1. CallInv => NoOrphan  BY DEF CallInv
<1> QED  BY <1>1, SpecInv, PTL

\* Only the last leg that placeOriginate() has made is in progress.
THEOREM CallOneLegAtATime == Spec => []OneLegAtATime
<1>1. CallInv => OneLegAtATime
  BY DEF CallInv, TypeOK, Placed, Superseded, OneLegAtATime, LiveLegs, Live, Ended, Route
<1> QED  BY <1>1, SpecInv, PTL

\* Accounting records are closed with their legs, and started for answered ones.
THEOREM CallRecordsSettled == Spec => []RecordsSettled
<1>1. CallInv => RecordsSettled  BY DEF CallInv
<1> QED  BY <1>1, SpecInv, PTL

\* The call is in ccmap until both of its legs are dead, and not after that.
THEOREM CallInMapWhileAlive == Spec => []InMapWhileAlive
<1>1. CallInv => InMapWhileAlive  BY DEF CallInv
<1> QED  BY <1>1, SpecInv, PTL

\* The caller is connected to one leg at most, and to none when it has gone.
THEOREM CallOneLiveLeg == Spec => []OneLiveLeg
<1>1. NoOrphan /\ OneLegAtATime => OneLiveLeg
  BY DEF OneLiveLeg
<1> QED BY <1>1, CallNoOrphan, CallOneLegAtATime, PTL
-----------------------------------------------------------------------------
(* The call map: CallsKnown, for any calls and timers.                     *)

CallStates == {"new", "Stray", "WaitRoute", "ARComplete", "Connected", "Stuck",
               "Disconnecting", "Dead", "Gone"}

EachTimer == [in : BOOLEAN, live : BOOLEAN, reg : BOOLEAN, left : Int, nticks : {-1, 1, 2},
              ival : 0 .. GcIval]
TheLoop   == [pc : {"timers", "sleep", "ended", "execv"}, twasted : Int, endloop : BOOLEAN,
              exception : BOOLEAN, lag : {0, 1}]
TheMap    == [ccmap : Seq(Calls), safe_stop : BOOLEAN, safe_restart : BOOLEAN,
              tries : 0 .. StopTries, er_timer : ErTimers \cup {"none"}, raised : BOOLEAN,
              error : BOOLEAN]

MapStates == [timer : [Timers -> EachTimer], loop : TheLoop,
              inbox : Seq(Signals \cup {"packet", "request", "exit", "sync"}),
              cmap : TheMap, call : [Calls -> CallStates], ui : {"idle", "waits"}]

\* No timer in the heap is overdue, and twasted counts at least the cancelled ones: what
\* Skip takes off it was there.
HeapOK(tm, lp) ==
    /\ \A t \in Timers : /\ tm[t].live <=> tm[t].reg
                         /\ tm[t].left \in 0 .. GcIval
                         /\ tm[t].in => lp.lag <= tm[t].left
    /\ lp.pc = "timers" => lp.lag = 0
    /\ Cardinality({t \in Timers : tm[t].in /\ ~tm[t].live}) <= lp.twasted

\* The map is a sequence without repetitions of the calls that go on.
ListOK(m, cl) ==
    /\ \A i, j \in DOMAIN m.ccmap : m.ccmap[i] = m.ccmap[j] => i = j
    /\ \A c \in Calls : cl[c] \in {"new", "Stray", "Gone"} <=> \A i \in DOMAIN m.ccmap : m.ccmap[i] # c

\* A program that is stopping has no call that could still be disconnected, and while it
\* runs a timer to cancel and tries left.
StopOK(lp, m, cl) ==
    /\ m.safe_stop => \A c \in Calls : cl[c] \notin {"WaitRoute", "ARComplete", "Connected"}
    /\ m.safe_stop /\ lp.pc \in {"timers", "sleep"} => m.er_timer # "none" /\ m.tries < StopTries
    /\ lp.pc \in {"timers", "sleep"} => ~lp.endloop
    /\ ~m.error

\* A restart found no call to cut off.
RestartOK(lp, m, cl) ==
    lp.pc = "execv" => \A i \in DOMAIN m.ccmap : cl[m.ccmap[i]] \notin {"ARComplete", "Connected", "Stuck"}

MapSound(s) ==
    /\ s \in MapStates /\ HeapOK(s.timer, s.loop) /\ ListOK(s.cmap, s.call)
    /\ StopOK(s.loop, s.cmap, s.call) /\ RestartOK(s.loop, s.cmap, s.call)

LEMMA StatesAre ==
    ASSUME NEW s \in MapStates
    PROVE  /\ s.timer \in [Timers -> EachTimer] /\ s.loop \in TheLoop
           /\ s.inbox \in Seq(Signals \cup {"packet", "request", "exit", "sync"})
           /\ s.cmap \in TheMap /\ s.call \in [Calls -> CallStates] /\ s.ui \in {"idle", "waits"}
BY DEF MapStates

LEMMA MapStep ==
    ASSUME NEW r, MapSound(r), Become(r)
    PROVE  MapSound(State)'
<1>1. /\ State'.timer = r.timer /\ State'.loop = r.loop /\ State'.inbox = r.inbox
      /\ State'.cmap = r.cmap /\ State'.call = r.call /\ State'.ui = r.ui
  BY DEF Become, State
<1>2. State' = [timer |-> r.timer, loop |-> r.loop, inbox |-> r.inbox, cmap |-> r.cmap,
                call |-> r.call, ui |-> r.ui]
  BY DEF Become, State
<1>3. State' \in MapStates
  <2>1. r \in MapStates
    BY DEF MapSound
  <2> QED BY <1>2, <2>1, StatesAre DEF MapStates
<1> QED BY <1>1, <1>3 DEF MapSound

\* CallsKnown is what MapSound says of the state.
LEMMA MapIsKnown == MapSound(State) => CallsKnown
<1> SUFFICES ASSUME MapSound(State) PROVE CallsKnown
  OBVIOUS
<1>1. /\ State \in MapStates /\ State.timer = timer /\ State.loop = loop /\ State.cmap = cmap
      /\ State.call = call /\ State.ui = ui
  BY DEF MapSound, State
<1>2. /\ HeapOK(timer, loop) /\ ListOK(cmap, call) /\ StopOK(loop, cmap, call)
      /\ RestartOK(loop, cmap, call)
  BY <1>1 DEF MapSound
<1>3. /\ timer \in [Timers -> EachTimer] /\ loop \in TheLoop /\ cmap \in TheMap
      /\ call \in [Calls -> CallStates] /\ ui \in {"idle", "waits"}
  BY <1>1, StatesAre
<1>t. IsFiniteSet({t \in Timers : timer[t].in /\ ~timer[t].live})
  <2>1. IsFiniteSet({"gc"} \cup ErTimers)
    <3>1. {"gc"} \cup ErTimers = {"gc"} \cup ({"er1"} \cup {"er2"})
      BY DEF ErTimers
    <3> QED BY <3>1, FS_Singleton, FS_Union
  <2>2. IsFiniteSet(Timers)
    BY <2>1, CallMapAssumption, FS_Union
  <2> QED BY <2>2, FS_Subset
<1>4. MapTypeOK
  <2>1. \A t \in Timers : timer[t].left \in -1..GcIval /\ timer[t].nticks \in {-1, 1, 2}
    <3>1. ASSUME NEW t \in Timers PROVE timer[t].left \in -1..GcIval /\ timer[t].nticks \in {-1, 1, 2}
      <4>1. timer[t] \in EachTimer /\ timer[t].left \in 0 .. GcIval
        BY <1>2, <1>3 DEF HeapOK
      <4> QED BY <4>1, CallMapAssumption DEF EachTimer
    <3> QED BY <3>1
  <2>2. loop.pc \in {"timers", "sleep", "ended", "execv"} /\ loop.twasted \in Nat
    <3>1. loop.pc \in {"timers", "sleep", "ended", "execv"} /\ loop.twasted \in Int
      BY <1>3 DEF TheLoop
    <3>2. Cardinality({t \in Timers : timer[t].in /\ ~timer[t].live}) \in Nat
      BY <1>t, FS_CardinalityType
    <3> QED BY <1>2, <3>1, <3>2 DEF HeapOK
  <2>3. cmap.tries \in 0..StopTries /\ cmap.er_timer \in ErTimers \cup {"none"}
    BY <1>3 DEF TheMap
  <2> QED BY <1>3, <2>1, <2>2, <2>3 DEF MapTypeOK, CallStates
<1>5. MapIsExact
  <2>1. SUFFICES ASSUME NEW c \in Calls
                 PROVE  Cardinality({i \in DOMAIN cmap.ccmap : cmap.ccmap[i] = c}) =
                           (IF call[c] \in {"new", "Stray", "Gone"} THEN 0 ELSE 1)
    BY DEF MapIsExact
  <2> DEFINE P == {i \in DOMAIN cmap.ccmap : cmap.ccmap[i] = c}
  <2>2. CASE call[c] \in {"new", "Stray", "Gone"}
    <3>1. P = {}
      BY <1>2, <2>2 DEF ListOK
    <3> QED BY <2>2, <3>1, FS_EmptySet
  <2>3. CASE call[c] \notin {"new", "Stray", "Gone"}
    <3>1. PICK i \in DOMAIN cmap.ccmap : cmap.ccmap[i] = c
      BY <1>2, <2>3 DEF ListOK
    <3>2. P = {i}
      BY <1>2, <3>1 DEF ListOK
    <3> QED BY <2>3, <3>2, FS_Singleton
  <2> QED BY <2>2, <2>3
<1>6. StopReachesAll /\ StopTimerKnown
  BY <1>2 DEF StopOK, StopReachesAll, StopTimerKnown
<1>7. RestartSpares
  BY <1>1, <1>2 DEF RestartOK, RestartSpares, InMap
<1> QED BY <1>4, <1>5, <1>6, <1>7 DEF CallsKnown

-----------------------------------------------------------------------------
(* The operations of the dispatcher on the heap.                           *)

DeadIn(tm) == {t \in Timers : tm[t].in /\ ~tm[t].live}

LEMMA DeadFinite ==
    /\ IsFiniteSet(Timers)
    /\ \A tm : IsFiniteSet(DeadIn(tm)) /\ Cardinality(DeadIn(tm)) \in Nat
<1>1. IsFiniteSet({"gc"} \cup ErTimers)
  <2>1. {"gc"} \cup ErTimers = {"gc"} \cup ({"er1"} \cup {"er2"})
    BY DEF ErTimers
  <2> QED BY <2>1, FS_Singleton, FS_Union
<1>2. IsFiniteSet(Timers)
  BY <1>1, CallMapAssumption, FS_Union
<1>3. ASSUME NEW tm PROVE IsFiniteSet(DeadIn(tm)) /\ Cardinality(DeadIn(tm)) \in Nat
  BY <1>2, FS_Subset, FS_CardinalityType DEF DeadIn
<1> QED BY <1>2, <1>3

LEMMA TimerIs ==
    ASSUME NEW tm \in [Timers -> EachTimer], NEW t \in Timers
    PROVE  /\ tm[t] \in EachTimer /\ tm[t].in \in BOOLEAN /\ tm[t].live \in BOOLEAN
           /\ tm[t].reg \in BOOLEAN /\ tm[t].left \in Int /\ tm[t].nticks \in {-1, 1, 2}
           /\ tm[t].ival \in 0 .. GcIval
<1>1. tm[t] \in EachTimer
  OBVIOUS
<1> QED BY <1>1 DEF EachTimer

LEMMA LoopIs ==
    ASSUME NEW lp \in TheLoop
    PROVE  /\ lp.pc \in {"timers", "sleep", "ended", "execv"} /\ lp.twasted \in Int
           /\ lp.endloop \in BOOLEAN /\ lp.exception \in BOOLEAN /\ lp.lag \in {0, 1}
BY DEF TheLoop

\* No more cancelled timers than before, and none overdue.
LEMMA HeapKept ==
    ASSUME NEW tm, NEW lp \in TheLoop, HeapOK(tm, lp), NEW tm2, NEW lp2 \in TheLoop,
           \A t \in Timers : /\ tm2[t].live <=> tm2[t].reg
                             /\ tm2[t].left \in 0 .. GcIval
                             /\ tm2[t].in => lp2.lag <= tm2[t].left,
           DeadIn(tm2) \subseteq DeadIn(tm), lp.twasted <= lp2.twasted,
           lp2.pc = "timers" => lp2.lag = 0
    PROVE  HeapOK(tm2, lp2)
<1>1. Cardinality(DeadIn(tm2)) <= Cardinality(DeadIn(tm))
  BY DeadFinite, FS_Subset
<1>2. Cardinality(DeadIn(tm2)) <= lp2.twasted
  <2>1. Cardinality(DeadIn(tm)) <= lp.twasted
    BY DEF HeapOK, DeadIn
  <2> QED BY <1>1, <2>1, DeadFinite, LoopIs
<1> QED BY <1>2 DEF HeapOK, DeadIn

\* An operation on the heap leaves the rest alone.
Frame(s, r) ==
    /\ r.cmap = s.cmap /\ r.call = s.call /\ r.inbox = s.inbox /\ r.ui = s.ui
    /\ r.loop.pc = s.loop.pc /\ r.loop.endloop = s.loop.endloop

LEMMA FrameSound ==
    ASSUME NEW s, MapSound(s), NEW r \in MapStates, HeapOK(r.timer, r.loop), Frame(s, r)
    PROVE  MapSound(r)
BY DEF MapSound, Frame, StopOK, RestartOK

LEMMA StampSound ==
    ASSUME NEW s, MapSound(s)
    PROVE  /\ MapSound(Stamp(s)) /\ Frame(s, Stamp(s)) /\ Stamp(s).loop.lag = 0
           /\ \A t \in Timers : /\ Stamp(s).timer[t].in <=> s.timer[t].in
                                /\ Stamp(s).timer[t].live <=> s.timer[t].live
           /\ Stamp(s).loop = [s.loop EXCEPT !.lag = 0]
<1> DEFINE r  == Stamp(s)
           At(t) == IF s.timer[t].in THEN [s.timer[t] EXCEPT !.left = @ - s.loop.lag] ELSE s.timer[t]
           tm == Later(s.timer, s.loop.lag)
           lp == [s.loop EXCEPT !.lag = 0]
<1>s. s \in MapStates /\ HeapOK(s.timer, s.loop)
  BY DEF MapSound
<1>1. /\ s.timer \in [Timers -> EachTimer] /\ s.loop \in TheLoop
  BY <1>s, StatesAre
<1>2. lp \in TheLoop /\ lp.lag = 0 /\ lp.pc = s.loop.pc /\ lp.endloop = s.loop.endloop /\ lp.twasted = s.loop.twasted
  BY <1>1 DEF TheLoop
<1>3. ASSUME NEW t \in Timers
      PROVE  /\ At(t) \in EachTimer /\ (At(t).in <=> s.timer[t].in) /\ (At(t).live <=> s.timer[t].live)
             /\ (At(t).reg <=> s.timer[t].reg) /\ At(t).left \in 0 .. GcIval
  <2>1. s.timer[t] \in EachTimer /\ s.loop.lag \in {0, 1}
    BY <1>1, LoopIs
  <2>2. s.timer[t].left \in 0 .. GcIval /\ (s.timer[t].in => s.loop.lag <= s.timer[t].left)
    BY <1>s DEF HeapOK
  <2>3. CASE s.timer[t].in
    <3>1. s.timer[t].left - s.loop.lag \in 0 .. GcIval
      BY <2>1, <2>2, <2>3, CallMapAssumption
    <3> DEFINE d == s.timer[t].left - s.loop.lag
    <3>2. At(t) = [s.timer[t] EXCEPT !.left = d]
      BY <2>3
    <3> HIDE DEF d, At
    <3>3. d \in Int
      BY <3>1, CallMapAssumption DEF d
    <3> QED BY <2>1, <3>1, <3>2, <3>3 DEF EachTimer, d
  <2>4. CASE ~s.timer[t].in
    BY <2>1, <2>2, <2>4
  <2> QED BY <2>3, <2>4
<1>4. r = [s EXCEPT !.timer = tm, !.loop = lp]
  <2>1. r = [s EXCEPT !.timer = tm, !.loop.lag = 0]
    BY DEF Stamp
  <2> HIDE DEF tm, r
  <2> QED BY <1>s, <2>1 DEF MapStates
<1>5. tm \in [Timers -> EachTimer] /\ \A t \in Timers : tm[t] = At(t)
  <2>1. tm = [t \in Timers |-> At(t)]
    BY DEF Later
  <2> HIDE DEF At
  <2> QED BY <1>3, <2>1
<1> HIDE DEF At
<1> HIDE DEF tm, lp, r
<1>6. /\ r \in MapStates /\ r.timer = tm /\ r.loop = lp /\ Frame(s, r)
  <2>1. /\ r \in MapStates /\ r.timer = tm /\ r.loop = lp
        /\ r.cmap = s.cmap /\ r.call = s.call /\ r.inbox = s.inbox /\ r.ui = s.ui
    <3>1. lp \in TheLoop /\ tm \in [Timers -> EachTimer]
      BY <1>2, <1>5
    <3> QED BY <1>s, <1>4, <3>1 DEF MapStates
  <2> QED BY <1>2, <2>1 DEF Frame
<1>7. HeapOK(tm, lp)
  <2>1. DeadIn(tm) \subseteq DeadIn(s.timer)
    BY <1>3, <1>5 DEF DeadIn
  <2>2. \A t \in Timers : /\ tm[t].live <=> tm[t].reg
                          /\ tm[t].left \in 0 .. GcIval
                          /\ tm[t].in => lp.lag <= tm[t].left
    BY <1>s, <1>2, <1>3, <1>5 DEF HeapOK
  <2>3. s.loop.twasted <= lp.twasted
    BY <1>1, <1>2, LoopIs
  <2> QED BY <1>1, <1>2, <1>s, <2>1, <2>2, <2>3, HeapKept
<1>8. MapSound(r)
  BY <1>6, <1>7, FrameSound
<1> QED BY <1>2, <1>3, <1>5, <1>6, <1>8 DEF r, lp

\* One timer changes: a timer that is cancelled while it is in the heap is counted.
LEMMA OneTimerHeap ==
    ASSUME NEW s \in MapStates, HeapOK(s.timer, s.loop), NEW r \in MapStates, Frame(s, r), NEW t \in Timers,
           \A u \in Timers : u # t => r.timer[u] = s.timer[u],
           r.timer[t].live <=> r.timer[t].reg, r.timer[t].left \in 0 .. GcIval,
           r.loop.lag = s.loop.lag, r.timer[t].in => r.loop.lag <= r.timer[t].left,
           \/ t \notin DeadIn(r.timer) /\ r.loop.twasted >= s.loop.twasted
           \/ t \in DeadIn(s.timer) /\ r.loop.twasted >= s.loop.twasted
           \/ r.loop.twasted = s.loop.twasted + 1
           \/ t \in DeadIn(s.timer) /\ t \notin DeadIn(r.timer) /\ r.loop.twasted = s.loop.twasted - 1
    PROVE  HeapOK(r.timer, r.loop)
<1>s. s \in MapStates /\ HeapOK(s.timer, s.loop) /\ r.loop \in TheLoop /\ s.loop \in TheLoop
  BY StatesAre
<1>w. r.loop.twasted \in Int /\ s.loop.twasted \in Int /\ r.loop.pc = s.loop.pc
  BY <1>s, LoopIs DEF Frame
<1> DEFINE D == DeadIn(s.timer)
           E == DeadIn(r.timer)
<1>1. /\ IsFiniteSet(D) /\ IsFiniteSet(E) /\ Cardinality(D) \in Nat /\ Cardinality(E) \in Nat
      /\ Cardinality(D) <= s.loop.twasted
  BY <1>s, DeadFinite DEF HeapOK, DeadIn
<1>2. E \subseteq D \cup {t} /\ D \ {t} \subseteq E /\ E \ {t} \subseteq D
  BY DEF DeadIn
<1> HIDE DEF D, E
<1>3. Cardinality(E) <= r.loop.twasted
  <2>1. CASE (t \notin E \/ t \in D) /\ r.loop.twasted >= s.loop.twasted
    <3>1. E \subseteq D
      BY <1>2, <2>1
    <3>2. Cardinality(E) <= Cardinality(D)
      BY <1>1, <3>1, FS_Subset
    <3> QED BY <1>1, <1>w, <2>1, <3>2
  <2>2. CASE r.loop.twasted = s.loop.twasted + 1
    <3>1. IsFiniteSet(D \cup {t}) /\ Cardinality(D \cup {t}) <= Cardinality(D) + 1 /\ Cardinality(D \cup {t}) \in Nat
      <4>1. /\ IsFiniteSet(D \cup {t})
            /\ Cardinality(D \cup {t}) = IF t \in D THEN Cardinality(D) ELSE Cardinality(D) + 1
        BY <1>1, FS_AddElement
      <4> QED BY <1>1, <4>1
    <3>2. Cardinality(E) <= Cardinality(D \cup {t})
      BY <1>2, <3>1, FS_Subset
    <3> QED BY <1>1, <1>w, <2>2, <3>1, <3>2
  <2>3. CASE t \in D /\ t \notin E /\ r.loop.twasted = s.loop.twasted - 1
    <3>1. E = D \ {t}
      BY <1>2, <2>3
    <3>2. Cardinality(E) = Cardinality(D) - 1
      BY <1>1, <2>3, <3>1, FS_RemoveElement
    <3> QED BY <1>1, <1>w, <2>3, <3>2
  <2> QED BY <2>1, <2>2, <2>3 DEF D, E
<1>4. \A u \in Timers : /\ r.timer[u].live <=> r.timer[u].reg
                        /\ r.timer[u].left \in 0 .. GcIval
                        /\ r.timer[u].in => r.loop.lag <= r.timer[u].left
  <2>1. ASSUME NEW u \in Timers, u # t
        PROVE  /\ r.timer[u].live <=> r.timer[u].reg
               /\ r.timer[u].left \in 0 .. GcIval
               /\ r.timer[u].in => r.loop.lag <= r.timer[u].left
    BY <1>s, <2>1 DEF HeapOK
  <2> QED BY <2>1
<1> QED BY <1>s, <1>w, <1>3, <1>4 DEF HeapOK, DeadIn, E

LEMMA OneTimer ==
    ASSUME NEW s, MapSound(s), NEW r \in MapStates, Frame(s, r), NEW t \in Timers,
           \A u \in Timers : u # t => r.timer[u] = s.timer[u],
           r.timer[t].live <=> r.timer[t].reg, r.timer[t].left \in 0 .. GcIval,
           r.loop.lag = s.loop.lag, r.timer[t].in => r.loop.lag <= r.timer[t].left,
           \/ t \notin DeadIn(r.timer) /\ r.loop.twasted >= s.loop.twasted
           \/ t \in DeadIn(s.timer) /\ r.loop.twasted >= s.loop.twasted
           \/ r.loop.twasted = s.loop.twasted + 1
           \/ t \in DeadIn(s.timer) /\ t \notin DeadIn(r.timer) /\ r.loop.twasted = s.loop.twasted - 1
    PROVE  MapSound(r)
<1>1. s \in MapStates /\ HeapOK(s.timer, s.loop)
  BY DEF MapSound
<1>2. HeapOK(r.timer, r.loop)
  BY <1>1, OneTimerHeap
<1> QED BY <1>2, FrameSound

LEMMA TimeoutSound ==
    ASSUME NEW s, MapSound(s), NEW t \in Timers, NEW d \in {0, 1}, NEW n \in {-1, 1, 2}
    PROVE  /\ MapSound(Timeout(s, t, d, n)) /\ Frame(s, Timeout(s, t, d, n))
           /\ \A u \in Timers : u # t => (Timeout(s, t, d, n).timer[u].in <=> s.timer[u].in)
<1> DEFINE p == Stamp(s)
           x == Scheduled(d, n)
           r == Timeout(s, t, d, n)
<1>1. /\ MapSound(p) /\ Frame(s, p) /\ p.loop.lag = 0 /\ p \in MapStates
      /\ \A u \in Timers : p.timer[u].in <=> s.timer[u].in
  BY StampSound DEF MapSound
<1>2. r = [p EXCEPT !.timer[t] = x]
  BY DEF Timeout
<1>3. d \in 0 .. GcIval
  BY CallMapAssumption
<1>4. x \in EachTimer /\ x.in /\ x.live /\ x.reg /\ x.left = d
  BY <1>3 DEF EachTimer, Scheduled
<1> HIDE DEF p, x, r
<1>5. /\ r \in MapStates /\ r.loop = p.loop /\ r.cmap = p.cmap /\ r.call = p.call
      /\ r.inbox = p.inbox /\ r.ui = p.ui /\ r.timer[t] = x
      /\ \A u \in Timers : u # t => r.timer[u] = p.timer[u]
  BY <1>1, <1>2, <1>4 DEF MapStates
<1>6. p.loop.twasted \in Int
  BY <1>1, StatesAre, LoopIs
<1>7. t \notin DeadIn(r.timer) /\ r.loop.twasted >= p.loop.twasted
  BY <1>4, <1>5, <1>6 DEF DeadIn
<1>8. MapSound(r)
  <2>1. /\ r.timer[t].live <=> r.timer[t].reg
        /\ r.timer[t].left \in 0 .. GcIval /\ r.loop.lag = p.loop.lag
        /\ r.timer[t].in => r.loop.lag <= r.timer[t].left
    BY <1>1, <1>3, <1>4, <1>5, CallMapAssumption
  <2>2. Frame(p, r)
    BY <1>5 DEF Frame
  <2> QED BY <1>1, <1>5, <1>7, <2>1, <2>2, OneTimer
<1>9. Frame(s, r)
  BY <1>1, <1>5 DEF Frame
<1> QED BY <1>1, <1>5, <1>8, <1>9 DEF r

LEMMA CancelHeap ==
    ASSUME NEW s \in MapStates, HeapOK(s.timer, s.loop), NEW t \in Timers
    PROVE  /\ cancel(s, t) \in MapStates /\ HeapOK(cancel(s, t).timer, cancel(s, t).loop)
           /\ Frame(s, cancel(s, t))
           /\ \A u \in Timers : cancel(s, t).timer[u].in <=> s.timer[u].in
<1> DEFINE r == cancel(s, t)
           w == IF s.timer[t].reg THEN s.loop.twasted + 1 ELSE s.loop.twasted
<1>1. s \in MapStates /\ HeapOK(s.timer, s.loop)
  OBVIOUS
<1>2. /\ s.timer \in [Timers -> EachTimer] /\ s.loop \in TheLoop /\ s.timer[t] \in EachTimer
      /\ s.loop.twasted \in Int
  BY <1>1, StatesAre, LoopIs
<1>3. r = [s EXCEPT !.loop.twasted = w, !.timer[t].live = FALSE, !.timer[t].reg = FALSE]
  BY DEF cancel, cleanup
<1>w. w \in Int
  BY <1>2
<1> DEFINE x == [s.timer[t] EXCEPT !.live = FALSE, !.reg = FALSE]
<1>4. x \in EachTimer /\ (x.in <=> s.timer[t].in) /\ ~x.live /\ ~x.reg /\ x.left = s.timer[t].left
  BY <1>2 DEF EachTimer
<1>5. /\ r.timer = [s.timer EXCEPT ![t] = x] /\ r.loop = [s.loop EXCEPT !.twasted = w]
      /\ r.cmap = s.cmap /\ r.call = s.call /\ r.inbox = s.inbox /\ r.ui = s.ui
  <2> HIDE DEF w, r
  <2> QED BY <1>1, <1>2, <1>3 DEF MapStates, EachTimer
<1>7. r \in MapStates
  <2> HIDE DEF w, r, x
  <2> QED BY <1>1, <1>2, <1>3, <1>w DEF MapStates, EachTimer, TheLoop
<1>8. /\ r.timer[t] = x /\ \A u \in Timers : u # t => r.timer[u] = s.timer[u]
  BY <1>2, <1>5
<1>9. r.loop.twasted = w /\ r.loop.lag = s.loop.lag /\ r.loop.pc = s.loop.pc /\ r.loop.endloop = s.loop.endloop
  BY <1>2, <1>5 DEF TheLoop
<1> HIDE DEF r, x
<1>10. Frame(s, r)
  BY <1>5, <1>9 DEF Frame
<1>11. \/ t \notin DeadIn(r.timer) /\ r.loop.twasted >= s.loop.twasted
       \/ t \in DeadIn(s.timer) /\ r.loop.twasted >= s.loop.twasted
       \/ r.loop.twasted = s.loop.twasted + 1
  <2>1. CASE s.timer[t].reg
    BY <2>1, <1>9
  <2>2. CASE ~s.timer[t].reg
    <3>1. ~s.timer[t].live /\ r.loop.twasted = s.loop.twasted
      BY <2>2, <1>1, <1>9 DEF HeapOK
    <3>2. r.timer[t].in <=> s.timer[t].in
      BY <1>4, <1>8
    <3> QED BY <3>1, <3>2, <1>2 DEF DeadIn
  <2> QED BY <2>1, <2>2
<1>12. /\ r.timer[t].live <=> r.timer[t].reg
       /\ r.timer[t].left \in 0 .. GcIval
       /\ r.timer[t].in => r.loop.lag <= r.timer[t].left
  BY <1>1, <1>4, <1>8, <1>9 DEF HeapOK
<1>13. HeapOK(r.timer, r.loop)
  BY <1>7, <1>8, <1>9, <1>10, <1>11, <1>12, OneTimerHeap
<1> QED BY <1>4, <1>7, <1>8, <1>10, <1>13 DEF r

LEMMA CancelSound ==
    ASSUME NEW s, MapSound(s), NEW t \in Timers
    PROVE  /\ MapSound(cancel(s, t)) /\ Frame(s, cancel(s, t))
           /\ \A u \in Timers : cancel(s, t).timer[u].in <=> s.timer[u].in
<1>1. s \in MapStates /\ HeapOK(s.timer, s.loop)
  BY DEF MapSound
<1> QED BY <1>1, CancelHeap, FrameSound

\* cleanup() of a timer that is not in the heap.
LEMMA CleanupSound ==
    ASSUME NEW s, MapSound(s), NEW t \in Timers, ~s.timer[t].in
    PROVE  MapSound(cleanup(s, t)) /\ cleanup(s, t).loop = s.loop
<1> DEFINE r == cleanup(s, t)
           x == [s.timer[t] EXCEPT !.live = FALSE, !.reg = FALSE]
<1>1. s \in MapStates /\ HeapOK(s.timer, s.loop)
  BY DEF MapSound
<1>2. /\ s.timer \in [Timers -> EachTimer] /\ s.loop \in TheLoop /\ s.timer[t] \in EachTimer
      /\ s.loop.twasted \in Int
  BY <1>1, StatesAre, LoopIs
<1>3. r = [s EXCEPT !.timer[t].live = FALSE, !.timer[t].reg = FALSE]
  BY DEF cleanup
<1>4. x \in EachTimer /\ ~x.in /\ ~x.live /\ ~x.reg /\ x.left = s.timer[t].left
  BY <1>2 DEF EachTimer
<1>5. /\ r.timer = [s.timer EXCEPT ![t] = x] /\ r.loop = s.loop
      /\ r.cmap = s.cmap /\ r.call = s.call /\ r.inbox = s.inbox /\ r.ui = s.ui
  <2> HIDE DEF r
  <2> QED BY <1>1, <1>2, <1>3 DEF MapStates, EachTimer
<1>6. r \in MapStates
  <2> HIDE DEF r, x
  <2> QED BY <1>1, <1>2, <1>3 DEF MapStates, EachTimer
<1>7. /\ r.timer[t] = x /\ \A u \in Timers : u # t => r.timer[u] = s.timer[u]
  BY <1>2, <1>5
<1> HIDE DEF r, x
<1>8. t \notin DeadIn(r.timer) /\ r.loop.twasted >= s.loop.twasted
  BY <1>2, <1>4, <1>5, <1>7 DEF DeadIn
<1>9. Frame(s, r)
  BY <1>5 DEF Frame
<1>10. /\ r.timer[t].live <=> r.timer[t].reg
       /\ r.timer[t].left \in 0 .. GcIval
       /\ r.timer[t].in => r.loop.lag <= r.timer[t].left
       /\ r.loop.lag = s.loop.lag
  BY <1>1, <1>4, <1>5, <1>7 DEF HeapOK
<1>11. MapSound(r)
  BY <1>6, <1>7, <1>8, <1>9, <1>10, OneTimer
<1> QED BY <1>5, <1>11 DEF r

\* dispatchTimers() before it calls a live timer that is due.
LEMMA BeforeSound ==
    ASSUME NEW s, MapSound(s), s.loop.pc = "timers", NEW t \in Timers, s.timer[t].left = 0,
           s.timer[t].live
    PROVE  /\ MapSound(Before(s, t)) /\ Frame(s, Before(s, t))
           /\ ~Periodic(s, t) => ~Before(s, t).timer[t].in
<1> DEFINE r == Before(s, t)
<1>1. s \in MapStates /\ HeapOK(s.timer, s.loop) /\ s.loop.lag = 0
  BY DEF MapSound, HeapOK
<1>2. /\ s.timer \in [Timers -> EachTimer] /\ s.loop \in TheLoop /\ s.timer[t] \in EachTimer
      /\ s.loop.twasted \in Int /\ s.timer[t].nticks \in {-1, 1, 2} /\ s.timer[t].ival \in 0 .. GcIval
      /\ s.timer[t].reg
  BY <1>1, StatesAre, LoopIs, TimerIs DEF HeapOK
<1>3. CASE Periodic(s, t)
  <2> DEFINE n == IF s.timer[t].nticks > 1 THEN s.timer[t].nticks - 1 ELSE s.timer[t].nticks
             d == s.timer[t].left + s.timer[t].ival
             x == [s.timer[t] EXCEPT !.left = d, !.nticks = n]
  <2>1. r = [s EXCEPT !.timer[t].left = d, !.timer[t].nticks = n]
    BY <1>3 DEF Before, Reschedule
  <2>2. d \in 0 .. GcIval /\ n \in {-1, 1, 2} /\ d \in Int
    BY <1>2, CallMapAssumption
  <2> HIDE DEF n, d
  <2>3. x \in EachTimer /\ x.live /\ x.reg /\ x.left = d
    BY <1>2, <2>2 DEF EachTimer
  <2> HIDE DEF r
  <2>4. /\ r.timer = [s.timer EXCEPT ![t] = x] /\ r.loop = s.loop
        /\ r.cmap = s.cmap /\ r.call = s.call /\ r.inbox = s.inbox /\ r.ui = s.ui
    BY <1>1, <1>2, <2>1 DEF MapStates, EachTimer
  <2> HIDE DEF x
  <2>5. r \in MapStates
    BY <1>1, <1>2, <2>1, <2>2 DEF MapStates, EachTimer
  <2>6. /\ r.timer[t] = x /\ \A u \in Timers : u # t => r.timer[u] = s.timer[u]
    BY <1>2, <2>4
  <2>7. t \notin DeadIn(r.timer) /\ r.loop.twasted >= s.loop.twasted
    BY <1>2, <2>3, <2>4, <2>6 DEF DeadIn
  <2>8. Frame(s, r)
    BY <2>4 DEF Frame
  <2>9. /\ r.timer[t].live <=> r.timer[t].reg
        /\ r.timer[t].left \in 0 .. GcIval
        /\ r.timer[t].in => r.loop.lag <= r.timer[t].left
        /\ r.loop.lag = s.loop.lag
    BY <1>1, <2>2, <2>3, <2>4, <2>6, CallMapAssumption
  <2>10. MapSound(r)
    BY <2>5, <2>6, <2>7, <2>8, <2>9, OneTimer
  <2> QED BY <1>3, <2>8, <2>10 DEF r
<1>4. CASE ~Periodic(s, t)
  <2> DEFINE x == [s.timer[t] EXCEPT !.in = FALSE]
  <2>1. r = [s EXCEPT !.timer[t].in = FALSE]
    BY <1>4 DEF Before, Pop
  <2>3. x \in EachTimer /\ x.live /\ x.reg /\ x.left = 0 /\ ~x.in
    BY <1>2 DEF EachTimer
  <2> HIDE DEF r
  <2>4. /\ r.timer = [s.timer EXCEPT ![t] = x] /\ r.loop = s.loop
        /\ r.cmap = s.cmap /\ r.call = s.call /\ r.inbox = s.inbox /\ r.ui = s.ui
    BY <1>1, <1>2, <2>1 DEF MapStates, EachTimer
  <2> HIDE DEF x
  <2>5. r \in MapStates
    BY <1>1, <1>2, <2>1 DEF MapStates, EachTimer
  <2>6. /\ r.timer[t] = x /\ \A u \in Timers : u # t => r.timer[u] = s.timer[u]
    BY <1>2, <2>4
  <2>7. t \notin DeadIn(r.timer) /\ r.loop.twasted >= s.loop.twasted
    BY <1>2, <2>3, <2>4, <2>6 DEF DeadIn
  <2>8. Frame(s, r)
    BY <2>4 DEF Frame
  <2>9. /\ r.timer[t].live <=> r.timer[t].reg
        /\ r.timer[t].left \in 0 .. GcIval
        /\ r.timer[t].in => r.loop.lag <= r.timer[t].left
        /\ r.loop.lag = s.loop.lag /\ ~r.timer[t].in
    BY <1>1, <2>3, <2>4, <2>6, CallMapAssumption
  <2>10. MapSound(r)
    BY <2>5, <2>6, <2>7, <2>8, <2>9, OneTimer
  <2> QED BY <2>8, <2>9, <2>10 DEF r
<1> QED BY <1>3, <1>4

\* A cancelled timer that has come to the top.
LEMMA SkipSound ==
    ASSUME NEW s, MapSound(s), NEW t \in Timers, s.timer[t].in, ~s.timer[t].live
    PROVE  MapSound(Skip(s, t)) /\ Frame(s, Skip(s, t))
<1> DEFINE r == Skip(s, t)
           x == [s.timer[t] EXCEPT !.in = FALSE]
           w == s.loop.twasted - 1
<1>1. s \in MapStates /\ HeapOK(s.timer, s.loop)
  BY DEF MapSound
<1>2. /\ s.timer \in [Timers -> EachTimer] /\ s.loop \in TheLoop /\ s.timer[t] \in EachTimer
      /\ s.loop.twasted \in Int /\ w \in Int
  BY <1>1, StatesAre, LoopIs
<1>3. r = [s EXCEPT !.timer[t].in = FALSE, !.loop.twasted = w]
  <2> HIDE DEF r
  <2>1. r = [[s EXCEPT !.timer[t].in = FALSE] EXCEPT !.loop.twasted = @ - 1]
    BY DEF Skip, Pop, r
  <2> QED BY <1>1, <2>1 DEF MapStates
<1>4. x \in EachTimer /\ ~x.in /\ (x.live <=> s.timer[t].live) /\ (x.reg <=> s.timer[t].reg) /\ x.left = s.timer[t].left
  BY <1>2 DEF EachTimer
<1> HIDE DEF r, w
<1>5. /\ r.timer = [s.timer EXCEPT ![t] = x] /\ r.loop = [s.loop EXCEPT !.twasted = w]
      /\ r.cmap = s.cmap /\ r.call = s.call /\ r.inbox = s.inbox /\ r.ui = s.ui
  BY <1>1, <1>2, <1>3 DEF MapStates, EachTimer
<1> HIDE DEF x
<1>6. r \in MapStates
  BY <1>1, <1>2, <1>3 DEF MapStates, EachTimer, TheLoop
<1>7. /\ r.timer[t] = x /\ \A u \in Timers : u # t => r.timer[u] = s.timer[u]
  BY <1>2, <1>5
<1>8. r.loop.twasted = w /\ r.loop.lag = s.loop.lag /\ r.loop.pc = s.loop.pc /\ r.loop.endloop = s.loop.endloop
  BY <1>2, <1>5 DEF TheLoop
<1>9. t \in DeadIn(s.timer) /\ t \notin DeadIn(r.timer) /\ r.loop.twasted = s.loop.twasted - 1
  BY <1>4, <1>7, <1>8 DEF DeadIn, w
<1>10. Frame(s, r)
  BY <1>5, <1>8 DEF Frame
<1>11. /\ r.timer[t].live <=> r.timer[t].reg
       /\ r.timer[t].left \in 0 .. GcIval
       /\ r.timer[t].in => r.loop.lag <= r.timer[t].left
       /\ r.loop.lag = s.loop.lag
  BY <1>1, <1>4, <1>7, <1>8 DEF HeapOK
<1>12. MapSound(r)
  BY <1>6, <1>7, <1>9, <1>10, <1>11, OneTimer
<1> QED BY <1>10, <1>12 DEF r

\* The loop goes on to another place, or ends.
LEMMA TurnSound ==
    ASSUME NEW s, MapSound(s), NEW r \in MapStates, HeapOK(r.timer, r.loop), r.cmap = s.cmap,
           r.call = s.call, r.loop.pc \in {"timers", "sleep", "ended"},
           r.loop.pc # "ended" => s.loop.pc \in {"timers", "sleep"} /\ ~r.loop.endloop
    PROVE  MapSound(r)
BY DEF MapSound, StopOK, RestartOK, ListOK

LEMMA ToSleepSound ==
    ASSUME NEW s, MapSound(s), s.loop.pc = "timers"
    PROVE  /\ MapSound(ToSleep(s))
           /\ 2 * Cardinality(DeadIn(ToSleep(s).timer))
                <= Cardinality({t \in Timers : ToSleep(s).timer[t].in})
<1> DEFINE r == ToSleep(s)
           H == {t \in Timers : s.timer[t].in}
<1>1. s \in MapStates /\ HeapOK(s.timer, s.loop) /\ s.loop.lag = 0 /\ ~s.loop.endloop
  BY DEF MapSound, HeapOK, StopOK
<1>2. /\ s.timer \in [Timers -> EachTimer] /\ s.loop \in TheLoop /\ s.loop.twasted \in Int
      /\ Cardinality(DeadIn(s.timer)) <= s.loop.twasted /\ Cardinality(DeadIn(s.timer)) \in Nat
  BY <1>1, StatesAre, LoopIs, DeadFinite DEF HeapOK, DeadIn
<1>3. IsFiniteSet(H) /\ Cardinality(H) \in Nat /\ Heap(s) = H
  BY DeadFinite, FS_Subset, FS_CardinalityType DEF Heap
<1>4. CASE s.loop.twasted * 2 > Cardinality(Heap(s))
  <2> DEFINE tm == Swept(s.timer)
             lp == [s.loop EXCEPT !.twasted = 0, !.pc = "sleep"]
  <2>1. r = [[s EXCEPT !.timer = tm, !.loop.twasted = 0] EXCEPT !.loop.pc = "sleep"]
    BY <1>4 DEF ToSleep, Compact
  <2>2. ASSUME NEW t \in Timers
        PROVE  /\ tm[t] \in EachTimer /\ (tm[t].in <=> s.timer[t].in /\ s.timer[t].live)
               /\ (tm[t].live <=> s.timer[t].live) /\ (tm[t].reg <=> s.timer[t].reg)
               /\ tm[t].left = s.timer[t].left
    <3> DEFINE b == s.timer[t].in /\ s.timer[t].live
    <3>1. s.timer[t] \in EachTimer /\ b \in BOOLEAN
      BY <1>2
    <3>2. tm[t] = [s.timer[t] EXCEPT !.in = b]
      BY DEF Swept
    <3> HIDE DEF b, tm
    <3>3. /\ tm[t] \in EachTimer /\ tm[t].in = b /\ (tm[t].live <=> s.timer[t].live)
          /\ (tm[t].reg <=> s.timer[t].reg) /\ tm[t].left = s.timer[t].left
      BY <3>1, <3>2 DEF EachTimer
    <3> QED BY <3>3 DEF b
  <2>3. tm \in [Timers -> EachTimer]
    <3>1. tm = [t \in Timers |-> tm[t]]
      BY DEF Swept
    <3> HIDE DEF tm
    <3> QED BY <2>2, <3>1
  <2>4. lp \in TheLoop /\ lp.lag = 0 /\ lp.pc = "sleep" /\ lp.twasted = 0 /\ ~lp.endloop
    <3>1. lp \in TheLoop
      <4> DEFINE l == [s.loop EXCEPT !.twasted = 0]
      <4>1. l \in TheLoop
        BY <1>2 DEF TheLoop
      <4>2. lp = [l EXCEPT !.pc = "sleep"]
        OBVIOUS
      <4> HIDE DEF l
      <4> QED BY <4>1, <4>2 DEF TheLoop
    <3>2. lp.lag = s.loop.lag /\ lp.pc = "sleep" /\ lp.twasted = 0 /\ lp.endloop = s.loop.endloop
      BY <1>2 DEF TheLoop
    <3> QED BY <1>1, <3>1, <3>2
  <2> HIDE DEF tm, r
  <2>5. r = [s EXCEPT !.timer = tm, !.loop = lp]
    <3>1. r = [s EXCEPT !.timer = tm, !.loop.twasted = 0, !.loop.pc = "sleep"]
      BY <2>1
    <3> QED BY <1>1, <3>1 DEF MapStates
  <2> HIDE DEF lp
  <2>6. r \in MapStates /\ r.timer = tm /\ r.loop = lp /\ r.cmap = s.cmap /\ r.call = s.call
    BY <1>1, <2>3, <2>4, <2>5 DEF MapStates
  <2>7. DeadIn(tm) = {} /\ Cardinality(DeadIn(tm)) = 0
    <3>1. DeadIn(tm) = {}
      BY <2>2 DEF DeadIn
    <3> QED BY <3>1, FS_EmptySet
  <2>8. HeapOK(tm, lp)
    <3>1. \A t \in Timers : /\ tm[t].live <=> tm[t].reg
                            /\ tm[t].left \in 0 .. GcIval
                            /\ tm[t].in => lp.lag <= tm[t].left
      BY <1>1, <2>2, <2>4, CallMapAssumption DEF HeapOK
    <3> QED BY <2>4, <2>7, <3>1 DEF HeapOK, DeadIn
  <2>9. MapSound(r)
    BY <2>4, <2>6, <2>8, TurnSound
  <2>10. Cardinality({t \in Timers : tm[t].in}) \in Nat
    BY DeadFinite, FS_Subset, FS_CardinalityType
  <2> QED BY <2>6, <2>7, <2>9, <2>10 DEF r
<1>5. CASE ~(s.loop.twasted * 2 > Cardinality(Heap(s)))
  <2>1. r = [s EXCEPT !.loop.pc = "sleep"]
    BY <1>5 DEF ToSleep, Compact
  <2> HIDE DEF r
  <2>2. /\ r \in MapStates /\ r.timer = s.timer /\ r.cmap = s.cmap /\ r.call = s.call
        /\ r.loop = [s.loop EXCEPT !.pc = "sleep"]
    BY <1>1, <1>2, <2>1 DEF MapStates, TheLoop
  <2>3. r.loop.pc = "sleep" /\ r.loop.lag = s.loop.lag /\ r.loop.twasted = s.loop.twasted /\ ~r.loop.endloop
    BY <1>1, <1>2, <2>2 DEF TheLoop
  <2>4. HeapOK(r.timer, r.loop)
    BY <1>1, <2>2, <2>3 DEF HeapOK
  <2>5. MapSound(r)
    BY <2>2, <2>3, <2>4, TurnSound
  <2>6. 2 * Cardinality(DeadIn(s.timer)) <= Cardinality(H)
    BY <1>2, <1>3, <1>5
  <2> QED BY <2>2, <2>5, <2>6 DEF r
<1> QED BY <1>4, <1>5

LEMMA WakeSound ==
    ASSUME NEW s, MapSound(s), s.loop.pc = "sleep"
    PROVE  MapSound(Wake(s))
<1> DEFINE p == Stamp(s)
           n == IF p.loop.exception \/ p.loop.endloop THEN "ended" ELSE "timers"
           r == [p EXCEPT !.loop.pc = n]
<1>1. MapSound(p) /\ p.loop.lag = 0 /\ Frame(s, p)
  BY StampSound
<1>2. Wake(s) = r
  BY DEF Wake
<1> HIDE DEF p
<1>3. p \in MapStates /\ p.loop \in TheLoop /\ HeapOK(p.timer, p.loop) /\ p.loop.pc = "sleep" /\ ~p.loop.endloop
  BY <1>1, StatesAre DEF MapSound, Frame, StopOK
<1>4. n \in {"timers", "ended"}
  OBVIOUS
<1> HIDE DEF n
<1>5. /\ r \in MapStates /\ r.timer = p.timer /\ r.cmap = p.cmap /\ r.call = p.call
      /\ r.loop = [p.loop EXCEPT !.pc = n]
  BY <1>3, <1>4 DEF MapStates, TheLoop
<1> HIDE DEF r
<1>6. r.loop.pc = n /\ r.loop.lag = 0 /\ r.loop.twasted = p.loop.twasted /\ ~r.loop.endloop
  BY <1>1, <1>3, <1>5 DEF TheLoop
<1>7. HeapOK(r.timer, r.loop)
  BY <1>1, <1>3, <1>5, <1>6 DEF HeapOK
<1> QED BY <1>1, <1>2, <1>3, <1>4, <1>5, <1>6, <1>7, TurnSound

\* The clock: no timer that is due is in the heap.
LEMMA TickSound ==
    ASSUME NEW s, MapSound(s), s.loop.pc = "sleep", \A t \in Heap(s) : s.timer[t].left > 0
    PROVE  MapSound([s EXCEPT !.loop.lag = 1])
<1> DEFINE r == [s EXCEPT !.loop.lag = 1]
<1>1. s \in MapStates /\ s.loop \in TheLoop /\ HeapOK(s.timer, s.loop)
  BY StatesAre DEF MapSound
<1>2. /\ r \in MapStates /\ r.timer = s.timer /\ r.cmap = s.cmap /\ r.call = s.call
      /\ r.loop = [s.loop EXCEPT !.lag = 1] /\ r.inbox = s.inbox /\ r.ui = s.ui
  BY <1>1 DEF MapStates, TheLoop
<1> HIDE DEF r
<1>3. r.loop.pc = "sleep" /\ r.loop.lag = 1 /\ r.loop.twasted = s.loop.twasted /\ r.loop.endloop = s.loop.endloop
  BY <1>1, <1>2 DEF TheLoop
<1>4. \A t \in Timers : r.timer[t].in => r.loop.lag <= r.timer[t].left
  BY <1>1, <1>2, <1>3, CallMapAssumption DEF HeapOK, Heap
<1>5. HeapOK(r.timer, r.loop)
  BY <1>1, <1>2, <1>3, <1>4 DEF HeapOK
<1> QED BY <1>2, <1>3, <1>5, FrameSound DEF Frame, r

-----------------------------------------------------------------------------
(* The calls.                                                              *)

Off     == {"new", "Stray", "Gone"}
Waiting == {"WaitRoute", "ARComplete", "Connected"}

LEMMA DisconnectedIs ==
    ASSUME NEW st \in CallStates
    PROVE  /\ Disconnected(st) \in CallStates /\ Disconnected(st) \notin Waiting
           /\ Disconnected(st) \in Off <=> st \in Off
BY DEF Disconnected, CallStates, Off, Waiting

LEMMA MapIs ==
    ASSUME NEW m \in TheMap
    PROVE  /\ m.ccmap \in Seq(Calls) /\ m.safe_stop \in BOOLEAN /\ m.safe_restart \in BOOLEAN
           /\ m.tries \in 0 .. StopTries /\ m.er_timer \in ErTimers \cup {"none"}
           /\ m.raised \in BOOLEAN /\ m.error \in BOOLEAN
BY DEF TheMap

\* Calls move on in a running program.
LEMMA CallsSound ==
    ASSUME NEW s, MapSound(s), NEW r \in MapStates, r.timer = s.timer, r.loop = s.loop,
           s.loop.pc # "execv", ListOK(r.cmap, r.call), r.cmap.safe_stop = s.cmap.safe_stop,
           r.cmap.er_timer = s.cmap.er_timer, r.cmap.tries = s.cmap.tries,
           r.cmap.error = s.cmap.error,
           s.cmap.safe_stop => \A c \in Calls : r.call[c] \notin Waiting
    PROVE  MapSound(r)
BY DEF MapSound, StopOK, RestartOK, Waiting

LEMMA DiscAllSound ==
    ASSUME NEW s, MapSound(s), s.loop.pc # "execv"
    PROVE  /\ MapSound(discAll(s)) /\ discAll(s).timer = s.timer /\ discAll(s).loop = s.loop
           /\ ~discAll(s).cmap.raised => \A c \in Calls : discAll(s).call[c] \notin Waiting
<1> DEFINE cc      == s.cmap.ccmap
           stuck   == {i \in DOMAIN cc : s.call[cc[i]] = "Stuck"}
           reached == {cc[i] : i \in {i \in DOMAIN cc : \A j \in stuck : i < j}}
           cl      == AllDisconnected(s.call, reached)
           b       == stuck # {}
           r       == discAll(s)
<1>1. s \in MapStates /\ s.cmap \in TheMap /\ s.call \in [Calls -> CallStates] /\ ListOK(s.cmap, s.call)
  BY StatesAre DEF MapSound
<1>2. r = [s EXCEPT !.call = cl, !.cmap.raised = b]
  BY DEF discAll
<1>3. b \in BOOLEAN
  OBVIOUS
<1>4. cl \in [Calls -> CallStates] /\ \A c \in Calls : cl[c] = IF c \in reached THEN Disconnected(s.call[c]) ELSE s.call[c]
  <2> HIDE DEF reached
  <2> QED BY <1>1, DisconnectedIs DEF AllDisconnected
<1>5. ~b => \A c \in Calls : cl[c] \notin Waiting
  <2>1. ASSUME ~b, NEW c \in Calls, s.call[c] \notin Off PROVE c \in reached
    BY <1>1, <2>1 DEF ListOK, Off
  <2>2. ASSUME NEW c \in Calls, s.call[c] \in Off PROVE s.call[c] \notin Waiting
    BY <2>2 DEF Off, Waiting
  <2> HIDE DEF reached, cl, b
  <2> QED BY <1>1, <1>4, <2>1, <2>2, DisconnectedIs
<1> HIDE DEF cl, b, r, stuck, reached
<1>6. /\ r \in MapStates /\ r.timer = s.timer /\ r.loop = s.loop /\ r.call = cl
      /\ r.cmap = [s.cmap EXCEPT !.raised = b]
  BY <1>1, <1>2, <1>3, <1>4 DEF MapStates, TheMap
<1>7. /\ r.cmap.raised = b /\ r.cmap.ccmap = s.cmap.ccmap /\ r.cmap.safe_stop = s.cmap.safe_stop
      /\ r.cmap.er_timer = s.cmap.er_timer /\ r.cmap.tries = s.cmap.tries
      /\ r.cmap.error = s.cmap.error
  BY <1>1, <1>6 DEF TheMap
<1>8. \A c \in Calls : (cl[c] \in Off <=> s.call[c] \in Off) /\ (cl[c] \in Waiting => s.call[c] \in Waiting)
  BY <1>1, <1>4, DisconnectedIs
<1>9. ListOK(r.cmap, r.call)
  BY <1>1, <1>6, <1>7, <1>8 DEF ListOK, Off
<1>10. s.cmap.safe_stop => \A c \in Calls : r.call[c] \notin Waiting
  <2>1. s.cmap.safe_stop => \A c \in Calls : s.call[c] \notin Waiting
    BY DEF MapSound, StopOK, Waiting
  <2> QED BY <1>6, <1>8, <2>1
<1>11. MapSound(r)
  BY <1>6, <1>7, <1>9, <1>10, CallsSound
<1> QED BY <1>5, <1>6, <1>7, <1>11 DEF r

LEMMA SafeStopSound ==
    ASSUME NEW s, MapSound(s), s.loop.pc = "sleep"
    PROVE  MapSound(safeStop(s))
<1> DEFINE t == discAll(s)
           e == IF s.timer["er1"].in THEN "er2" ELSE "er1"
           u == [t EXCEPT !.cmap.safe_stop = TRUE, !.cmap.tries = 0, !.cmap.er_timer = e]
<1>1. /\ MapSound(t) /\ t.loop = s.loop
      /\ ~t.cmap.raised => \A c \in Calls : t.call[c] \notin Waiting
  BY DiscAllSound
<1>2. safeStop(s) = IF t.cmap.raised THEN t ELSE Timeout(u, e, 1, -1)
  BY DEF safeStop
<1>3. e \in ErTimers /\ e \in Timers /\ e # "none"
  BY CallMapAssumption DEF ErTimers
<1> HIDE DEF t, e
<1>4. CASE ~t.cmap.raised
  <2> DEFINE m == u.cmap
  <2>1. t \in MapStates /\ t.cmap \in TheMap
    BY <1>1, StatesAre DEF MapSound
  <2>2. /\ u.timer = t.timer /\ u.loop = t.loop /\ u.call = t.call /\ u.inbox = t.inbox /\ u.ui = t.ui
        /\ u.cmap = [t.cmap EXCEPT !.safe_stop = TRUE, !.tries = 0, !.er_timer = e]
    BY <2>1 DEF MapStates
  <2>3. [t.cmap EXCEPT !.safe_stop = TRUE, !.tries = 0, !.er_timer = e] \in TheMap
    <3> DEFINE m1 == [t.cmap EXCEPT !.safe_stop = TRUE]
               m2 == [m1 EXCEPT !.tries = 0]
    <3>1. m1 \in TheMap
      BY <2>1 DEF TheMap
    <3> HIDE DEF m1
    <3>2. m2 \in TheMap
      BY <3>1, CallMapAssumption DEF TheMap
    <3>3. [t.cmap EXCEPT !.safe_stop = TRUE, !.tries = 0, !.er_timer = e] = [m2 EXCEPT !.er_timer = e]
      BY DEF m1
    <3> HIDE DEF m2
    <3> QED BY <3>2, <3>3, <1>3 DEF TheMap
  <2>5. u \in MapStates
    BY <2>1, <2>2, <2>3 DEF MapStates
  <2> HIDE DEF u
  <2>4. /\ m.safe_stop = TRUE /\ m.tries = 0 /\ m.er_timer = e
        /\ m.ccmap = t.cmap.ccmap /\ m.error = t.cmap.error
    <3> HIDE DEF m
    <3>1. m = [t.cmap EXCEPT !.safe_stop = TRUE, !.tries = 0, !.er_timer = e]
      BY <2>2 DEF m
    <3>2. m.safe_stop = TRUE /\ m.tries = 0 /\ m.er_timer = e
      BY <2>1, <3>1 DEF TheMap
    <3> QED BY <2>1, <3>1, <3>2 DEF TheMap
  <2>6. MapSound(u)
    BY <1>1, <1>3, <1>4, <2>2, <2>4, <2>5, CallMapAssumption DEF MapSound, ListOK, StopOK, RestartOK, Waiting
  <2> QED BY <1>2, <1>3, <1>4, <2>6, TimeoutSound
<1>5. CASE t.cmap.raised
  BY <1>1, <1>2, <1>5
<1> QED BY <1>4, <1>5

\* The first place of a call is the only one: what is left are the other calls.
LEMMA RemoveFirstIs ==
    ASSUME NEW q \in Seq(Calls), \A i, j \in DOMAIN q : q[i] = q[j] => i = j,
           NEW x \in DOMAIN q
    PROVE  LET p == RemoveFirst(q, q[x]) IN
           /\ p \in Seq(Calls)
           /\ \A i, j \in DOMAIN p : p[i] = p[j] => i = j
           /\ \A c : (\E i \in DOMAIN p : p[i] = c) <=> c # q[x] /\ \E i \in DOMAIN q : q[i] = c
<1> DEFINE p == RemoveFirst(q, q[x])
           I == {i \in 1 .. Len(q) : q[i] = q[x]}
<1>1. Len(q) \in Nat /\ DOMAIN q = 1 .. Len(q) /\ x \in 1 .. Len(q) /\ \A i \in DOMAIN q : q[i] \in Calls
  OBVIOUS
<1>2. I = {x}
  BY <1>1
<1>3. Min(I) = x
  BY <1>1, <1>2 DEF Min
<1>4. p = RemoveAt(q, x)
  <2>1. SelectInSeq(q, LAMBDA v : v = q[x]) = IF I # {} THEN Min(I) ELSE 0
    BY DEF SelectInSeq
  <2>2. SelectInSeq(q, LAMBDA v : v = q[x]) = x
    BY <1>2, <1>3, <2>1
  <2> QED BY <1>1, <2>2 DEF RemoveFirst
<1> HIDE DEF p, I
<1>5. p = SubSeq(q, 1, x - 1) \o SubSeq(q, x + 1, Len(q))
  BY <1>4 DEF RemoveAt
<1>6. /\ p \in Seq(Calls) /\ DOMAIN p = 1 .. Len(q) - 1
      /\ \A i \in 1 .. Len(q) - 1 : p[i] = IF i < x THEN q[i] ELSE q[i + 1]
  <2> DEFINE a == SubSeq(q, 1, x - 1)
             d == SubSeq(q, x + 1, Len(q))
  <2>1. a \in Seq(Calls) /\ Len(a) = x - 1 /\ \A i \in 1 .. x - 1 : a[i] = q[i]
    BY <1>1
  <2>2. d \in Seq(Calls) /\ Len(d) = Len(q) - x /\ \A i \in 1 .. Len(q) - x : d[i] = q[x + i]
    BY <1>1
  <2> HIDE DEF a, d
  <2>3. p = a \o d
    BY <1>5 DEF a, d
  <2>c. /\ p \in Seq(Calls) /\ Len(p) = Len(a) + Len(d) /\ DOMAIN p = 1 .. Len(p)
        /\ \A i \in 1 .. Len(a) + Len(d) : p[i] = IF i <= Len(a) THEN a[i] ELSE d[i - Len(a)]
    <3>1. a \in Seq(Calls) /\ d \in Seq(Calls)
      BY <2>1, <2>2
    <3>2. /\ a \o d \in Seq(Calls) /\ Len(a \o d) = Len(a) + Len(d)
          /\ \A i \in 1 .. Len(a) + Len(d) : (a \o d)[i] = IF i <= Len(a) THEN a[i] ELSE d[i - Len(a)]
      BY <3>1, ConcatProperties
    <3>3. DOMAIN (a \o d) = 1 .. Len(a \o d)
      BY <3>2
    <3> QED BY <2>3, <3>2, <3>3, Zenon
  <2>4. p \in Seq(Calls) /\ DOMAIN p = 1 .. Len(q) - 1
    BY <1>1, <2>1, <2>2, <2>c
  <2>5. ASSUME NEW i \in 1 .. Len(q) - 1
        PROVE  p[i] = IF i < x THEN q[i] ELSE q[i + 1]
    <3>1. CASE i < x
      BY <1>1, <2>1, <2>2, <2>c, <3>1
    <3>2. CASE ~(i < x)
      <4>1. i - (x - 1) \in 1 .. Len(q) - x /\ x + (i - (x - 1)) = i + 1
        BY <1>1, <3>2
      <4>2. p[i] = d[i - (x - 1)]
        BY <1>1, <2>1, <2>2, <2>c, <3>2
      <4> QED BY <2>2, <3>2, <4>1, <4>2
    <3> QED BY <3>1, <3>2
  <2> QED BY <2>4, <2>5
<1>7. \A i, j \in DOMAIN p : p[i] = p[j] => i = j
  <2>1. ASSUME NEW i \in DOMAIN p, NEW j \in DOMAIN p, p[i] = p[j]
        PROVE  i = j
    <3> DEFINE f(k) == IF k < x THEN k ELSE k + 1
    <3>1. /\ f(i) \in DOMAIN q /\ f(j) \in DOMAIN q /\ p[i] = q[f(i)] /\ p[j] = q[f(j)]
          /\ i \in Nat /\ j \in Nat /\ x \in Nat
      BY <1>1, <1>6
    <3>2. f(i) = f(j)
      BY <2>1, <3>1
    <3> QED BY <3>1, <3>2
  <2> QED BY <2>1
<1>8. ASSUME NEW c
      PROVE  (\E i \in DOMAIN p : p[i] = c) <=> c # q[x] /\ \E i \in DOMAIN q : q[i] = c
  <2>1. ASSUME NEW i \in DOMAIN p, p[i] = c
        PROVE  c # q[x] /\ \E k \in DOMAIN q : q[k] = c
    <3> DEFINE k == IF i < x THEN i ELSE i + 1
    <3>1. k \in DOMAIN q /\ q[k] = c /\ k # x
      BY <1>1, <1>6, <2>1
    <3> QED BY <3>1
  <2>2. ASSUME NEW k \in DOMAIN q, q[k] = c, c # q[x]
        PROVE  \E i \in DOMAIN p : p[i] = c
    <3> DEFINE i == IF k < x THEN k ELSE k - 1
    <3>1. i \in 1 .. Len(q) - 1 /\ (i < x => i = k) /\ (~(i < x) => i + 1 = k)
      BY <1>1, <2>2
    <3>2. i \in DOMAIN p /\ p[i] = c
      BY <1>6, <2>2, <3>1
    <3> QED BY <3>2
  <2> QED BY <2>1, <2>2
<1> QED BY <1>6, <1>7, <1>8 DEF p

\* One call moves on to st, and enters or leaves the map if it has to.
Moves(s, r, c, st, q) ==
    /\ r = [s EXCEPT !.call[c] = st, !.cmap.ccmap = q]
    /\ s.cmap.safe_stop => st \notin Waiting
    /\ \A i, j \in DOMAIN q : q[i] = q[j] => i = j
    /\ st \in Off <=> \A i \in DOMAIN q : q[i] # c
    /\ \A d \in Calls : d # c => ((\E i \in DOMAIN q : q[i] = d) <=>
                                   \E i \in DOMAIN s.cmap.ccmap : s.cmap.ccmap[i] = d)

LEMMA OneCallSound ==
    ASSUME NEW s, MapSound(s), s.loop.pc # "execv", NEW c \in Calls, NEW st \in CallStates,
           NEW q \in Seq(Calls), NEW r, Moves(s, r, c, st, q)
    PROVE  MapSound(r)
<1>1. s \in MapStates /\ s.cmap \in TheMap /\ s.call \in [Calls -> CallStates] /\ ListOK(s.cmap, s.call)
  BY StatesAre DEF MapSound
<1>2. /\ r \in MapStates /\ r.timer = s.timer /\ r.loop = s.loop
      /\ r.call = [s.call EXCEPT ![c] = st] /\ r.cmap = [s.cmap EXCEPT !.ccmap = q]
  BY <1>1 DEF MapStates, TheMap, Moves
<1>3. /\ r.cmap.ccmap = q /\ r.cmap.safe_stop = s.cmap.safe_stop
      /\ r.cmap.er_timer = s.cmap.er_timer /\ r.cmap.tries = s.cmap.tries
      /\ r.cmap.error = s.cmap.error
  BY <1>1, <1>2 DEF TheMap
<1>4. r.call[c] = st /\ \A d \in Calls : d # c => r.call[d] = s.call[d]
  BY <1>1, <1>2
<1>5. ListOK(r.cmap, r.call)
  <2>1. ASSUME NEW d \in Calls
        PROVE  r.call[d] \in {"new", "Stray", "Gone"} <=> \A i \in DOMAIN q : q[i] # d
    <3>1. CASE d = c
      BY <1>4, <3>1 DEF Off, Moves
    <3>2. CASE d # c
      BY <1>1, <1>4, <3>2 DEF ListOK, Moves
    <3> QED BY <3>1, <3>2
  <2> QED BY <1>3, <2>1 DEF ListOK, Moves
<1>6. s.cmap.safe_stop => \A d \in Calls : r.call[d] \notin Waiting
  <2>1. s.cmap.safe_stop => \A d \in Calls : s.call[d] \notin Waiting
    BY DEF MapSound, StopOK, Waiting
  <2> QED BY <1>4, <2>1 DEF Moves
<1> QED BY <1>2, <1>3, <1>5, <1>6, CallsSound

LEMMA JustCallSound ==
    ASSUME NEW s, MapSound(s), s.loop.pc # "execv", NEW c \in Calls, NEW st \in CallStates,
           s.cmap.safe_stop => st \notin Waiting, st \in Off <=> s.call[c] \in Off,
           NEW r, r = [s EXCEPT !.call[c] = st]
    PROVE  MapSound(r)
<1> DEFINE q == s.cmap.ccmap
<1>1. s \in MapStates /\ s.cmap \in TheMap /\ ListOK(s.cmap, s.call) /\ q \in Seq(Calls)
  BY StatesAre, MapIs DEF MapSound
<1>2. r = [s EXCEPT !.call[c] = st, !.cmap.ccmap = q]
  BY <1>1 DEF MapStates, TheMap
<1>3. st \in Off <=> \A i \in DOMAIN q : q[i] # c
  BY <1>1 DEF ListOK, Off
<1>4. \A i, j \in DOMAIN q : q[i] = q[j] => i = j
  BY <1>1 DEF ListOK
<1>5. \A d \in Calls : d # c => ((\E i \in DOMAIN q : q[i] = d) <=>
                                 \E i \in DOMAIN s.cmap.ccmap : s.cmap.ccmap[i] = d)
  OBVIOUS
<1>6. q \in Seq(Calls)
  BY <1>1
<1> HIDE DEF q
<1>7. Moves(s, r, c, st, q)
  BY <1>2, <1>3, <1>4, <1>5 DEF Moves
<1> QED BY <1>6, <1>7, OneCallSound

LEMMA ProgressSound ==
    ASSUME NEW s, MapSound(s), s.loop.pc # "execv", NEW c \in Calls, NEW r \in Progress(s, c)
    PROVE  MapSound(r)
<1>1. s \in MapStates /\ s.cmap \in TheMap /\ s.call \in [Calls -> CallStates] /\ ListOK(s.cmap, s.call)
      /\ s.call[c] \in CallStates /\ s.cmap.ccmap \in Seq(Calls)
  BY StatesAre, MapIs DEF MapSound
<1>2. s.cmap.safe_stop => s.call[c] \notin Waiting
  BY DEF MapSound, StopOK, Waiting
<1>3. CASE r = Disconnect(s, c)
  <2> DEFINE st == Disconnected(s.call[c])
  <2>1. r = [s EXCEPT !.call[c] = st]
    BY <1>3 DEF Disconnect
  <2>2. st \in CallStates /\ st \notin Waiting /\ (st \in Off <=> s.call[c] \in Off)
    BY <1>1, DisconnectedIs
  <2> HIDE DEF st
  <2> QED BY <2>1, <2>2, JustCallSound
<1>4. CASE s.call[c] = "WaitRoute" /\ r = [s EXCEPT !.call[c] = "ARComplete"]
  BY <1>1, <1>2, <1>4, JustCallSound DEF CallStates, Waiting, Off
<1>5. CASE s.call[c] = "ARComplete" /\ r = [s EXCEPT !.call[c] = "Connected"]
  BY <1>1, <1>2, <1>5, JustCallSound DEF CallStates, Waiting, Off
<1>6. CASE s.call[c] = "Connected" /\ r = [s EXCEPT !.call[c] = "Stuck"]
  BY <1>1, <1>2, <1>6, JustCallSound DEF CallStates, Waiting, Off
<1>7. CASE /\ s.call[c] \in {"Disconnecting", "Stuck", "Dead"}
           /\ r = [s EXCEPT !.call[c] = "Gone", !.cmap.ccmap = RemoveFirst(@, c)]
  <2> DEFINE o == s.cmap.ccmap
             q == RemoveFirst(o, c)
  <2>1. PICK x \in DOMAIN o : o[x] = c
    BY <1>1, <1>7 DEF ListOK
  <2>2. /\ q \in Seq(Calls) /\ (\A i, j \in DOMAIN q : q[i] = q[j] => i = j)
        /\ \A d : (\E i \in DOMAIN q : q[i] = d) <=> d # c /\ \E i \in DOMAIN o : o[i] = d
    <3>1. \A i, j \in DOMAIN o : o[i] = o[j] => i = j
      BY <1>1 DEF ListOK
    <3> HIDE DEF o
    <3>2. o \in Seq(Calls)
      BY <1>1 DEF o
    <3>3. LET p == RemoveFirst(o, o[x]) IN
          /\ p \in Seq(Calls)
          /\ \A i, j \in DOMAIN p : p[i] = p[j] => i = j
          /\ \A d : (\E i \in DOMAIN p : p[i] = d) <=> d # o[x] /\ \E i \in DOMAIN o : o[i] = d
      BY <3>1, <3>2, RemoveFirstIs
    <3> QED BY <2>1, <3>3
  <2>3. r = [s EXCEPT !.call[c] = "Gone", !.cmap.ccmap = q]
    BY <1>7
  <2> HIDE DEF q, o
  <2>4. "Gone" \in CallStates /\ "Gone" \in Off /\ "Gone" \notin Waiting
    BY DEF CallStates, Off, Waiting
  <2>5. \A d \in Calls : d # c => ((\E i \in DOMAIN q : q[i] = d) <=>
                                   \E i \in DOMAIN s.cmap.ccmap : s.cmap.ccmap[i] = d)
    BY <2>2 DEF o
  <2>6. "Gone" \in Off <=> \A i \in DOMAIN q : q[i] # c
    BY <2>2, <2>4
  <2>7. Moves(s, r, c, "Gone", q) /\ q \in Seq(Calls)
    BY <2>2, <2>3, <2>4, <2>5, <2>6 DEF Moves
  <2> QED BY <2>4, <2>7, OneCallSound
<1> QED BY <1>1, <1>3, <1>4, <1>5, <1>6, <1>7 DEF Progress, CallStates

LEMMA NewCallSound ==
    ASSUME NEW s, MapSound(s), s.loop.pc # "execv", ~s.cmap.safe_stop, NEW c \in Calls,
           s.call[c] = "new", NEW r \in NewCall(s, c)
    PROVE  MapSound(r)
<1> DEFINE o == s.cmap.ccmap
           q == Append(o, c)
<1>1. s \in MapStates /\ s.cmap \in TheMap /\ ListOK(s.cmap, s.call) /\ o \in Seq(Calls)
  BY StatesAre, MapIs DEF MapSound
<1>2. (\A i \in DOMAIN o : o[i] # c) /\ (\A i, j \in DOMAIN o : o[i] = o[j] => i = j)
  BY <1>1 DEF ListOK
<1>3. CASE r = [s EXCEPT !.call[c] = "Stray"]
  BY <1>3, JustCallSound DEF CallStates, Off
<1>4. ASSUME NEW st \in {"WaitRoute", "ARComplete"}, r = [s EXCEPT !.call[c] = st, !.cmap.ccmap = q]
      PROVE  MapSound(r)
  <2>1. st \in CallStates /\ st \notin Off
    BY DEF CallStates, Off
  <2>2. /\ q \in Seq(Calls) /\ Len(o) \in Nat /\ DOMAIN o = 1 .. Len(o) /\ DOMAIN q = 1 .. Len(o) + 1
        /\ (\A i \in DOMAIN o : q[i] = o[i]) /\ q[Len(o) + 1] = c
    BY <1>1
  <2> HIDE DEF q, o
  <2>3. \A i \in DOMAIN q : i \in DOMAIN o \/ i = Len(o) + 1
    BY <2>2
  <2>4. \A i, j \in DOMAIN q : q[i] = q[j] => i = j
    BY <1>2, <2>2, <2>3
  <2>5. Len(o) + 1 \in DOMAIN q /\ \A i \in DOMAIN o : i \in DOMAIN q
    BY <2>2
  <2>6. st \in Off <=> \A i \in DOMAIN q : q[i] # c
    BY <2>1, <2>2, <2>5
  <2>7. \A d \in Calls : d # c => ((\E i \in DOMAIN q : q[i] = d) <=>
                                   \E i \in DOMAIN s.cmap.ccmap : s.cmap.ccmap[i] = d)
    <3>1. ASSUME NEW d \in Calls, d # c
          PROVE  (\E i \in DOMAIN q : q[i] = d) <=> \E i \in DOMAIN o : o[i] = d
      BY <2>2, <2>3, <2>5, <3>1
    <3> QED BY <3>1 DEF o
  <2>8. q \in Seq(Calls) /\ st \in CallStates
    BY <2>1, <2>2
  <2>9. Moves(s, r, c, st, q)
    BY <1>4, <2>4, <2>6, <2>7 DEF Moves
  <2> QED BY <2>8, <2>9, OneCallSound
<1> QED BY <1>3, <1>4 DEF NewCall

LEMMA TimerWorkSound ==
    ASSUME NEW s, MapSound(s), NEW r \in TimerWork(s)
    PROVE  /\ MapSound(r) /\ Frame(s, r)
           /\ \A t \in Timers : ~s.timer[t].in /\ s.timer[t].reg => ~r.timer[t].in
<1>1. CASE r = s
  BY <1>1 DEF Frame
<1>2. ASSUME NEW t \in UaTimers, r = cancel(s, t)
      PROVE  /\ MapSound(r) /\ Frame(s, r)
             /\ \A u \in Timers : ~s.timer[u].in /\ s.timer[u].reg => ~r.timer[u].in
  BY <1>2, CancelSound, CallMapAssumption
<1>3. ASSUME NEW t \in UaTimers, ~s.timer[t].reg, NEW d \in {0, 1}, NEW n \in {1, 2},
             r = Timeout(s, t, d, n)
      PROVE  /\ MapSound(r) /\ Frame(s, r)
             /\ \A u \in Timers : ~s.timer[u].in /\ s.timer[u].reg => ~r.timer[u].in
  <2>1. t \in Timers /\ n \in {-1, 1, 2}
    BY CallMapAssumption
  <2>2. /\ MapSound(r) /\ Frame(s, r)
        /\ \A u \in Timers : u # t => (r.timer[u].in <=> s.timer[u].in)
    BY <1>3, <2>1, TimeoutSound
  <2> QED BY <1>3, <2>2
<1>4. CASE \E t \in UaTimers : r = cancel(s, t)
  BY <1>2, <1>4
<1>5. CASE \E t \in UaTimers, d \in {0, 1}, n \in {1, 2} :
              ~s.timer[t].reg /\ r = Timeout(s, t, d, n)
  BY <1>3, <1>5
<1>6. \/ r = s \/ \E t \in UaTimers : r = cancel(s, t)
      \/ \E t \in UaTimers, d \in {0, 1}, n \in {1, 2} :
            ~s.timer[t].reg /\ r = Timeout(s, t, d, n)
  BY DEF TimerWork
<1> QED BY <1>1, <1>4, <1>5, <1>6

-----------------------------------------------------------------------------
(* The callbacks of the timers.                                            *)

\* A callback that did not end the loop.
LEMMA AfterSound ==
    ASSUME NEW s, MapSound(s), ~s.loop.endloop, NEW t \in Timers, NEW done \in BOOLEAN,
           done => ~s.timer[t].in
    PROVE  MapSound(After(s, t, done)) /\ After(s, t, done).loop = s.loop
<1>1. CASE done
  BY <1>1, CleanupSound DEF After
<1>2. CASE ~done
  BY <1>2 DEF After
<1> QED BY <1>1, <1>2

LEMMA ActiveAre ==
    ASSUME NEW s, MapSound(s)
    PROVE  \A i \in DOMAIN s.cmap.ccmap :
              s.call[s.cmap.ccmap[i]] \in {"ARComplete", "Connected", "Stuck"} =>
                 s.cmap.ccmap[i] \in getActiveCalls(s)
<1>1. s.cmap.ccmap \in Seq(Calls)
  BY StatesAre, MapIs DEF MapSound
<1>2. \A i \in DOMAIN s.cmap.ccmap : s.cmap.ccmap[i] \in Calls
  BY <1>1
<1> QED BY <1>2 DEF getActiveCalls, InMap

LEMMA GClectorSound ==
    ASSUME NEW s, MapSound(s), s.loop.pc = "timers"
    PROVE  /\ MapSound(GClector(s)) /\ ~GClector(s).loop.endloop /\ GClector(s).loop.pc # "sleep"
           /\ \A t \in Timers : ~s.timer[t].in => ~GClector(s).timer[t].in
<1>1. /\ s \in MapStates /\ HeapOK(s.timer, s.loop) /\ ListOK(s.cmap, s.call) /\ StopOK(s.loop, s.cmap, s.call)
      /\ s.timer \in [Timers -> EachTimer] /\ s.loop \in TheLoop /\ ~s.loop.endloop /\ s.loop.twasted \in Int
  BY StatesAre, LoopIs DEF MapSound, StopOK
<1>2. CASE GClector(s) = s
  BY <1>1, <1>2
<1>3. CASE GClector(s) = [s EXCEPT !.loop.pc = "execv"] /\ getActiveCalls(s) = {}
  <2> DEFINE r == GClector(s)
  <2>1. r = [s EXCEPT !.loop.pc = "execv"]
    BY <1>3
  <2> HIDE DEF r
  <2>2. /\ r \in MapStates /\ r.timer = s.timer /\ r.cmap = s.cmap /\ r.call = s.call
        /\ r.loop = [s.loop EXCEPT !.pc = "execv"]
    BY <1>1, <2>1 DEF MapStates, TheLoop
  <2>3. r.loop.pc = "execv" /\ r.loop.lag = s.loop.lag /\ r.loop.twasted = s.loop.twasted /\ ~r.loop.endloop
    BY <1>1, <2>2 DEF TheLoop
  <2>4. HeapOK(r.timer, r.loop)
    BY <1>1, <2>2, <2>3 DEF HeapOK
  <2>5. RestartOK(r.loop, r.cmap, r.call)
    BY <1>3, <2>2, ActiveAre DEF RestartOK
  <2>6. MapSound(r)
    BY <1>1, <2>2, <2>3, <2>4, <2>5 DEF MapSound, StopOK
  <2> QED BY <2>2, <2>3, <2>6 DEF r
<1>4. CASE GClector(s) = [s EXCEPT !.timer["gc"].ival = 1]
  <2> DEFINE r == GClector(s)
             x == [s.timer["gc"] EXCEPT !.ival = 1]
  <2>1. r = [s EXCEPT !.timer["gc"].ival = 1]
    BY <1>4
  <2> HIDE DEF r
  <2>2. "gc" \in Timers /\ 1 \in 0 .. GcIval
    BY CallMapAssumption
  <2>3. s.timer["gc"] \in EachTimer
    BY <1>1, <2>2
  <2>4. /\ x \in EachTimer /\ (x.in <=> s.timer["gc"].in) /\ (x.live <=> s.timer["gc"].live)
        /\ (x.reg <=> s.timer["gc"].reg) /\ x.left = s.timer["gc"].left
    BY <2>2, <2>3 DEF EachTimer
  <2>5. /\ r.timer = [s.timer EXCEPT !["gc"] = x] /\ r.loop = s.loop
        /\ r.cmap = s.cmap /\ r.call = s.call /\ r.inbox = s.inbox /\ r.ui = s.ui
    BY <1>1, <2>1, <2>2, <2>3 DEF MapStates, EachTimer
  <2> HIDE DEF x
  <2>6. r \in MapStates
    BY <1>1, <2>1, <2>2, <2>3 DEF MapStates, EachTimer
  <2>7. /\ r.timer["gc"] = x /\ \A u \in Timers : u # "gc" => r.timer[u] = s.timer[u]
    BY <1>1, <2>2, <2>5
  <2>8. Frame(s, r)
    BY <2>5 DEF Frame
  <2>9. /\ r.timer["gc"].live <=> r.timer["gc"].reg
        /\ r.timer["gc"].left \in 0 .. GcIval
        /\ r.timer["gc"].in => r.loop.lag <= r.timer["gc"].left
        /\ r.loop.lag = s.loop.lag
    BY <1>1, <2>2, <2>4, <2>5, <2>7 DEF HeapOK
  <2>10. \/ "gc" \notin DeadIn(r.timer) /\ r.loop.twasted >= s.loop.twasted
         \/ "gc" \in DeadIn(s.timer) /\ r.loop.twasted >= s.loop.twasted
    BY <1>1, <2>2, <2>4, <2>5, <2>7 DEF DeadIn
  <2>11. MapSound(r)
    BY <2>2, <2>6, <2>7, <2>8, <2>9, <2>10, OneTimer
  <2> QED BY <1>1, <2>4, <2>5, <2>7, <2>11 DEF r
<1> QED BY <1>2, <1>3, <1>4 DEF GClector

LEMMA ExecuteStopSound ==
    ASSUME NEW s, MapSound(s), s.loop.pc = "timers", NEW t \in Timers, NEW done \in BOOLEAN,
           done => ~s.timer[t].in
    PROVE  MapSound(After(executeStop(s), t, done)) /\ After(executeStop(s), t, done).loop.pc # "sleep"
<1>1. /\ s \in MapStates /\ ListOK(s.cmap, s.call) /\ StopOK(s.loop, s.cmap, s.call)
      /\ s.cmap \in TheMap /\ s.loop \in TheLoop /\ ~s.loop.endloop
  BY StatesAre DEF MapSound, StopOK
<1>2. CASE ~s.cmap.safe_stop
  <2>1. executeStop(s) = s
    BY <1>2 DEF executeStop
  <2> QED BY <1>1, <2>1, AfterSound
<1>3. CASE s.cmap.safe_stop
  <2> DEFINE n == s.cmap.tries + 1
             p == [s EXCEPT !.cmap.tries = n]
             e == s.cmap.er_timer
  <2>1. n \in 0 .. StopTries /\ e # "none" /\ e \in ErTimers /\ e \in Timers
    <3>1. s.cmap.tries < StopTries /\ e # "none"
      BY <1>1, <1>3 DEF StopOK
    <3> QED BY <1>1, <3>1, MapIs, CallMapAssumption
  <2> HIDE DEF n
  <2>2. /\ p \in MapStates /\ p.timer = s.timer /\ p.loop = s.loop /\ p.call = s.call
        /\ p.cmap = [s.cmap EXCEPT !.tries = n]
    BY <1>1, <2>1 DEF MapStates, TheMap
  <2>3. /\ p.cmap.tries = n /\ p.cmap.ccmap = s.cmap.ccmap /\ p.cmap.safe_stop = s.cmap.safe_stop
        /\ p.cmap.er_timer = e /\ p.cmap.error = s.cmap.error
    BY <1>1, <2>2 DEF TheMap
  <2>4. CASE getActiveCalls(s) # {} /\ p.cmap.tries < StopTries
    <3>1. executeStop(s) = p
      BY <1>3, <2>4 DEF executeStop, n
    <3> HIDE DEF p
    <3>2. MapSound(p)
      BY <1>1, <2>2, <2>3, <2>4 DEF MapSound, StopOK, ListOK, RestartOK
    <3> QED BY <1>1, <2>2, <3>1, <3>2, AfterSound
  <2>5. CASE ~(getActiveCalls(s) # {} /\ p.cmap.tries < StopTries)
    <3> DEFINE q == [p EXCEPT !.cmap.er_timer = "none"]
               r == breakLoop(cancel(q, e))
    <3>1. executeStop(s) = r
      BY <1>3, <2>1, <2>3, <2>5 DEF executeStop, n
    <3>2. p \in MapStates /\ p.cmap \in TheMap /\ HeapOK(p.timer, p.loop)
      BY <2>2, StatesAre DEF MapSound
    <3> HIDE DEF p
    <3>3. /\ q \in MapStates /\ q.timer = p.timer /\ q.loop = p.loop /\ q.call = p.call
          /\ q.cmap = [p.cmap EXCEPT !.er_timer = "none"]
      BY <3>2 DEF MapStates, TheMap
    <3>4. /\ q.cmap.ccmap = p.cmap.ccmap /\ q.cmap.safe_stop = p.cmap.safe_stop
          /\ q.cmap.error = p.cmap.error
      BY <3>2, <3>3 DEF TheMap
    <3> HIDE DEF q
    <3> DEFINE u == cancel(q, e)
               f == After(r, t, done)
    <3>5. u \in MapStates /\ HeapOK(u.timer, u.loop) /\ Frame(q, u) /\ u.loop \in TheLoop
      BY <2>1, <3>2, <3>3, CancelHeap, StatesAre
    <3>6. r = [u EXCEPT !.loop.endloop = TRUE]
      BY DEF breakLoop
    <3> HIDE DEF u, r
    <3>7. r \in MapStates /\ r.loop.endloop = TRUE
      BY <3>5, <3>6 DEF MapStates, TheLoop
    <3>8. f = [r EXCEPT !.loop.pc = "ended"]
      BY <3>7 DEF After
    <3> HIDE DEF f
    <3>9. /\ r.timer = u.timer /\ r.cmap = u.cmap /\ r.call = u.call
          /\ r.loop.lag = u.loop.lag /\ r.loop.twasted = u.loop.twasted /\ r.loop \in TheLoop
      BY <3>5, <3>6, <3>7, StatesAre DEF MapStates, TheLoop
    <3>10. /\ f \in MapStates /\ f.timer = r.timer /\ f.cmap = r.cmap /\ f.call = r.call
           /\ f.loop.pc = "ended" /\ f.loop.lag = r.loop.lag /\ f.loop.twasted = r.loop.twasted
      BY <3>7, <3>8, <3>9 DEF MapStates, TheLoop
    <3>11. HeapOK(f.timer, f.loop)
      BY <3>5, <3>9, <3>10 DEF HeapOK
    <3>12. f.cmap = q.cmap /\ f.call = s.call
      BY <2>2, <3>3, <3>5, <3>9, <3>10 DEF Frame
    <3>13. MapSound(f)
      BY <1>1, <2>3, <3>4, <3>10, <3>11, <3>12 DEF MapSound, StopOK, ListOK, RestartOK
    <3> QED BY <3>1, <3>10, <3>13 DEF f
  <2> QED BY <2>4, <2>5
<1> QED BY <1>2, <1>3

-----------------------------------------------------------------------------
(* The steps.                                                              *)

LEMMA MapStart == MapInit => MapSound(State)
<1> SUFFICES ASSUME MapInit PROVE MapSound(State)
  OBVIOUS
<1>1. /\ State.timer = timer /\ State.loop = loop /\ State.inbox = <<>> /\ State.cmap = cmap
      /\ State.call = call /\ State.ui = "idle"
  BY DEF State, MapInit
<1>2. /\ NoTimer \in EachTimer /\ ~NoTimer.in /\ ~NoTimer.live /\ ~NoTimer.reg /\ NoTimer.left = 0
  BY CallMapAssumption DEF NoTimer, EachTimer
<1> DEFINE g == Scheduled(GcIval, -1)
<1>3. g \in EachTimer /\ g.in /\ g.live /\ g.reg /\ g.left = GcIval
  <2>1. GcIval \in Int /\ GcIval \in 0 .. GcIval
    BY CallMapAssumption
  <2> QED BY <2>1 DEF EachTimer, Scheduled
<1>4. timer = [t \in Timers |-> IF t = "gc" THEN g ELSE NoTimer]
  BY DEF MapInit
<1> HIDE DEF g
<1>5. timer \in [Timers -> EachTimer]
  BY <1>2, <1>3, <1>4
<1>6. /\ loop \in TheLoop /\ loop.pc = "timers" /\ loop.lag = 0 /\ loop.twasted = 0 /\ ~loop.endloop
  BY DEF MapInit, TheLoop
<1>7. /\ cmap \in TheMap /\ cmap.ccmap = <<>> /\ ~cmap.safe_stop /\ ~cmap.error
  <2>1. <<>> \in Seq(Calls) /\ 0 \in 0 .. StopTries
    BY CallMapAssumption
  <2>2. cmap = [ccmap |-> <<>>, safe_stop |-> FALSE, safe_restart |-> FALSE, tries |-> 0,
                er_timer |-> "none", raised |-> FALSE, error |-> FALSE]
    BY DEF MapInit
  <2>3. cmap \in TheMap
    BY <2>1, <2>2 DEF TheMap
  <2> QED BY <2>2, <2>3
<1>8. call \in [Calls -> CallStates] /\ \A c \in Calls : call[c] = "new"
  BY DEF MapInit, CallStates
<1>9. State \in MapStates
  BY <1>1, <1>5, <1>6, <1>7, <1>8 DEF State, MapStates
<1>10. HeapOK(timer, loop)
  <2>1. \A t \in Timers : /\ timer[t].live <=> timer[t].reg
                          /\ timer[t].left \in 0 .. GcIval
                          /\ timer[t].in => loop.lag <= timer[t].left
    BY <1>2, <1>3, <1>4, <1>6, CallMapAssumption
  <2>2. DeadIn(timer) = {}
    BY <1>2, <1>3, <1>4 DEF DeadIn
  <2>3. Cardinality(DeadIn(timer)) <= loop.twasted
    BY <1>6, <2>2, FS_EmptySet
  <2> QED BY <1>6, <2>1, <2>3 DEF HeapOK, DeadIn
<1>11. ListOK(cmap, call)
  BY <1>7, <1>8 DEF ListOK
<1> QED BY <1>1, <1>6, <1>7, <1>9, <1>10, <1>11 DEF MapSound, StopOK, RestartOK

\* Something is handed over, or taken: the inbox and the thread of the web interface.
LEMMA InboxSound ==
    ASSUME NEW s, MapSound(s), NEW r \in MapStates, r.timer = s.timer, r.loop = s.loop,
           r.cmap = s.cmap, r.call = s.call
    PROVE  MapSound(r)
BY DEF MapSound

Handed == Signals \cup {"packet", "request", "exit", "sync"}

LEMMA HandOverSound ==
    ASSUME MapSound(State), NEW x \in Handed, NEW u \in {"idle", "waits"}
    PROVE  /\ MapSound([State EXCEPT !.inbox = Append(@, x)])
           /\ MapSound([State EXCEPT !.inbox = Append(@, x), !.ui = u])
           /\ inbox # <<>> => MapSound([State EXCEPT !.inbox = Tail(@)]) /\ Head(inbox) \in Handed
<1>1. State \in MapStates /\ State.inbox = inbox /\ inbox \in Seq(Handed)
  BY StatesAre DEF MapSound, State, Handed
<1>2. Append(inbox, x) \in Seq(Handed) /\ (inbox # <<>> => Tail(inbox) \in Seq(Handed) /\ Head(inbox) \in Handed)
  BY <1>1
<1> DEFINE a == [State EXCEPT !.inbox = Append(inbox, x)]
           b == [State EXCEPT !.inbox = Append(inbox, x), !.ui = u]
           c == [State EXCEPT !.inbox = Tail(inbox)]
<1>3. a \in MapStates /\ a.timer = State.timer /\ a.loop = State.loop /\ a.cmap = State.cmap /\ a.call = State.call
  BY <1>1, <1>2 DEF MapStates, Handed
<1>4. b \in MapStates /\ b.timer = State.timer /\ b.loop = State.loop /\ b.cmap = State.cmap /\ b.call = State.call
  BY <1>1, <1>2 DEF MapStates, Handed
<1>5. ASSUME inbox # <<>>
      PROVE  c \in MapStates /\ c.timer = State.timer /\ c.loop = State.loop /\ c.cmap = State.cmap /\ c.call = State.call
  BY <1>1, <1>2, <1>5 DEF MapStates, Handed
<1>6. MapSound(a) /\ MapSound(b) /\ (inbox # <<>> => MapSound(c))
  <2> HIDE DEF a, b, c
  <2> QED BY <1>3, <1>4, <1>5, InboxSound
<1> QED BY <1>1, <1>2, <1>6

LEMMA CallbackSound ==
    ASSUME MapSound(State), dispatchThreadCallback
    PROVE  MapSound(State)'
<1> DEFINE x == Head(inbox)
           s == [State EXCEPT !.inbox = Tail(@)]
<1>1. loop.pc = "sleep" /\ inbox # <<>>
  BY DEF dispatchThreadCallback
<1>2. MapSound(s) /\ x \in Handed
  <2>1. "exit" \in Handed /\ "idle" \in {"idle", "waits"}
    BY DEF Handed
  <2> QED BY <1>1, <2>1, HandOverSound
<1>3. \/ x \in Signals /\ Become(RunSignal(s, x))
      \/ x = "sync" /\ \E t \in RunSync(s) : Become(t)
      \/ x = "exit" /\ Become([s EXCEPT !.loop.exception = TRUE])
      \/ x = "packet" /\ \E c \in Calls : \E t \in Progress(s, c) : Become(t)
      \/ x = "packet" /\ scene = "timers" /\ \E t \in TimerWork(s) : Become(t)
      \/ /\ x = "request"
         /\ \E r \in Requests :
               IF recvRequest(s, r) = "call"
               THEN /\ scene = "calls"
                    /\ \E c \in {c \in Calls : s.call[c] = "new"} :
                          \E t \in NewCall(s, c) : Become(t)
               ELSE Become(s)
  BY DEF dispatchThreadCallback
<1>4. s.loop.pc = "sleep"
  <2>1. State \in MapStates /\ State.loop = loop
    BY DEF MapSound, State
  <2>2. s.loop = State.loop
    BY <2>1 DEF MapStates
  <2> QED BY <1>1, <2>1, <2>2
<1> HIDE DEF s, x
<1>s. s \in MapStates /\ s.loop \in TheLoop /\ s.cmap \in TheMap
  BY <1>2, StatesAre DEF MapSound
<1>5. CASE x \in Signals /\ Become(RunSignal(s, x))
  <2>1. CASE x = "HUP"
    <3>1. RunSignal(s, x) = discAll(s)
      BY <2>1 DEF RunSignal
    <3> QED BY <1>2, <1>4, <1>5, <3>1, DiscAllSound, MapStep
  <2>2. CASE x = "TERM"
    <3>1. RunSignal(s, x) = safeStop(s)
      BY <2>2 DEF RunSignal
    <3> QED BY <1>2, <1>4, <1>5, <3>1, SafeStopSound, MapStep
  <2>3. CASE x = "PROF"
    <3> DEFINE r == [s EXCEPT !.cmap.safe_restart = TRUE]
    <3>1. RunSignal(s, x) = r
      BY <2>3 DEF RunSignal
    <3>2. /\ r \in MapStates /\ r.timer = s.timer /\ r.loop = s.loop /\ r.call = s.call
          /\ r.cmap = [s.cmap EXCEPT !.safe_restart = TRUE]
      BY <1>s DEF MapStates, TheMap
    <3> HIDE DEF r
    <3>3. /\ r.cmap.ccmap = s.cmap.ccmap /\ r.cmap.safe_stop = s.cmap.safe_stop
          /\ r.cmap.er_timer = s.cmap.er_timer /\ r.cmap.tries = s.cmap.tries /\ r.cmap.error = s.cmap.error
      BY <1>s, <3>2 DEF TheMap
    <3>4. MapSound(r)
      BY <1>2, <3>2, <3>3 DEF MapSound, ListOK, StopOK, RestartOK
    <3> QED BY <1>5, <3>1, <3>4, MapStep
  <2> QED BY <1>5, <2>1, <2>2, <2>3 DEF Signals
<1>6. CASE \E t \in RunSync(s) : Become(t)
  <2> DEFINE r == [s EXCEPT !.ui = "idle"]
  <2>1. Become(r)
    BY <1>6 DEF RunSync
  <2>2. /\ r \in MapStates /\ r.timer = s.timer /\ r.loop = s.loop /\ r.call = s.call /\ r.cmap = s.cmap
    BY <1>s DEF MapStates
  <2> HIDE DEF r
  <2> QED BY <1>2, <2>1, <2>2, InboxSound, MapStep
<1>7. CASE Become([s EXCEPT !.loop.exception = TRUE])
  <2> DEFINE r == [s EXCEPT !.loop.exception = TRUE]
  <2>1. Become(r)
    BY <1>7
  <2>2. /\ r \in MapStates /\ r.timer = s.timer /\ r.call = s.call /\ r.cmap = s.cmap
        /\ r.loop = [s.loop EXCEPT !.exception = TRUE] /\ r.inbox = s.inbox /\ r.ui = s.ui
    BY <1>s DEF MapStates, TheLoop
  <2> HIDE DEF r
  <2>3. r.loop.pc = s.loop.pc /\ r.loop.endloop = s.loop.endloop /\ r.loop.lag = s.loop.lag /\ r.loop.twasted = s.loop.twasted
    BY <1>s, <2>2 DEF TheLoop
  <2>4. HeapOK(r.timer, r.loop) /\ Frame(s, r)
    BY <1>2, <2>2, <2>3 DEF MapSound, HeapOK, Frame
  <2> QED BY <1>2, <2>1, <2>2, <2>4, FrameSound, MapStep
<1>8. ASSUME NEW c \in Calls, NEW t \in Progress(s, c), Become(t) PROVE MapSound(State)'
  BY <1>2, <1>4, <1>8, ProgressSound, MapStep
<1>9. ASSUME NEW t \in TimerWork(s), Become(t) PROVE MapSound(State)'
  BY <1>2, <1>9, TimerWorkSound, MapStep
<1>10. ASSUME NEW r \in Requests, recvRequest(s, r) = "call", NEW c \in Calls, s.call[c] = "new",
              NEW t \in NewCall(s, c), Become(t)
       PROVE  MapSound(State)'
  <2>1. ~s.cmap.safe_stop
    BY <1>10 DEF recvRequest, Requests
  <2> QED BY <1>2, <1>4, <1>10, <2>1, NewCallSound, MapStep
<1>11. CASE Become(s)
  BY <1>2, <1>11, MapStep
<1>12. CASE \E r \in Requests :
               IF recvRequest(s, r) = "call"
               THEN /\ scene = "calls"
                    /\ \E c \in {c \in Calls : s.call[c] = "new"} :
                          \E t \in NewCall(s, c) : Become(t)
               ELSE Become(s)
  BY <1>10, <1>11, <1>12
<1> QED BY <1>3, <1>5, <1>6, <1>7, <1>8, <1>9, <1>12

LEMMA DispatchSound ==
    ASSUME MapSound(State), NEW t \in Timers, dispatchTimer(t)
    PROVE  MapSound(State)' /\ loop'.pc # "sleep"
<1> DEFINE s == Before(State, t)
           done == ~Periodic(State, t)
<1>1. /\ State \in MapStates /\ State.timer = timer /\ State.loop = loop /\ HeapOK(timer, loop)
      /\ timer \in [Timers -> EachTimer]
  BY StatesAre DEF MapSound, State
<1>2. loop.pc = "timers" /\ ~NoneDue(State) /\ Top(State, t) /\ t \in Heap(State)
  BY DEF dispatchTimer, Top
<1>b. ASSUME NEW r, MapSound(r), r.loop.pc # "sleep", Become(r)
      PROVE  MapSound(State)' /\ loop'.pc # "sleep"
  <2>1. loop' = r.loop
    BY <1>b DEF Become
  <2> QED BY <1>b, <2>1, MapStep
<1>3. CASE ~timer[t].live
  <2>1. Become(Skip(State, t))
    BY <1>3 DEF dispatchTimer
  <2>2. State.timer[t].in /\ ~State.timer[t].live
    BY <1>1, <1>2, <1>3 DEF Heap
  <2>3. MapSound(Skip(State, t)) /\ Skip(State, t).loop.pc # "sleep"
    BY <1>1, <1>2, <2>2, SkipSound DEF Frame
  <2> QED BY <1>b, <2>1, <2>3
<1>4. CASE timer[t].live
  <2>1. State.timer[t].left = 0
    <3>1. ~(State.timer[t].left > 0)
      BY <1>1, <1>2, <1>4 DEF NoneDue
    <3>2. timer[t].left \in 0 .. GcIval
      BY <1>1 DEF HeapOK
    <3> QED BY <1>1, <3>1, <3>2, CallMapAssumption
  <2>2. MapSound(s) /\ Frame(State, s) /\ (done => ~s.timer[t].in) /\ done \in BOOLEAN
    <3>1. State.loop.pc = "timers" /\ State.timer[t].live
      BY <1>1, <1>2, <1>4
    <3>2. MapSound(s) /\ Frame(State, s) /\ (done => ~s.timer[t].in)
      BY <2>1, <3>1, BeforeSound
    <3>3. done \in BOOLEAN
      BY DEF Periodic
    <3> QED BY <3>2, <3>3
  <2>3. s.loop.pc = "timers"
    BY <1>1, <1>2, <2>2 DEF Frame
  <2>4. \/ t = "gc" /\ Become(After(GClector(s), t, done))
        \/ t \in ErTimers /\ Become(After(executeStop(s), t, done))
        \/ /\ t \in UaTimers
           /\ \E u \in TimerWork(s) : Become(After(u, t, done))
    BY <1>4 DEF dispatchTimer
  <2>r. ASSUME t \in UaTimers PROVE s.timer[t].reg
    BY <1>1, <1>4 DEF Before, Reschedule, Pop, HeapOK, MapStates, EachTimer
  <2> HIDE DEF s, done
  <2>5. CASE Become(After(GClector(s), t, done))
    <3>1. /\ MapSound(GClector(s)) /\ ~GClector(s).loop.endloop /\ (done => ~GClector(s).timer[t].in)
          /\ GClector(s).loop.pc # "sleep"
      BY <2>2, <2>3, GClectorSound
    <3>2. MapSound(After(GClector(s), t, done)) /\ After(GClector(s), t, done).loop = GClector(s).loop
      BY <2>2, <3>1, AfterSound
    <3> QED BY <1>b, <2>5, <3>1, <3>2
  <2>6. CASE Become(After(executeStop(s), t, done))
    <3>1. MapSound(After(executeStop(s), t, done)) /\ After(executeStop(s), t, done).loop.pc # "sleep"
      BY <2>2, <2>3, ExecuteStopSound
    <3> QED BY <1>b, <2>6, <3>1
  <2>7. ASSUME t \in UaTimers, NEW u \in TimerWork(s), Become(After(u, t, done))
        PROVE  MapSound(State)' /\ loop'.pc # "sleep"
    <3>1. MapSound(u) /\ Frame(s, u) /\ (done => ~u.timer[t].in)
      BY <2>2, <2>r, <2>7, TimerWorkSound
    <3>2. ~u.loop.endloop /\ u.loop.pc = "timers"
      BY <2>2, <2>3, <3>1 DEF MapSound, StopOK, Frame
    <3>3. MapSound(After(u, t, done)) /\ After(u, t, done).loop = u.loop
      BY <2>2, <3>1, <3>2, AfterSound
    <3> QED BY <1>b, <2>7, <3>2, <3>3
  <2> QED BY <2>4, <2>5, <2>6, <2>7
<1> QED BY <1>3, <1>4

LEMMA TurnStep ==
    ASSUME MapSound(State), LoopTurn \/ Tick
    PROVE  MapSound(State)'
<1>1. State \in MapStates /\ State.timer = timer /\ State.loop = loop
  BY DEF MapSound, State
<1>2. CASE loop.pc = "timers" /\ Become(ToSleep(State))
  BY <1>1, <1>2, ToSleepSound, MapStep
<1>3. CASE loop.pc = "sleep" /\ Become(Wake(State))
  BY <1>1, <1>3, WakeSound, MapStep
<1>4. CASE Tick
  <2>1. /\ State.loop.pc = "sleep" /\ (\A t \in Heap(State) : State.timer[t].left > 0)
        /\ Become([State EXCEPT !.loop.lag = 1])
    BY <1>1, <1>4 DEF Tick
  <2> QED BY <2>1, TickSound, MapStep
<1> QED BY <1>2, <1>3, <1>4 DEF LoopTurn

LEMMA MapInvariant == MapSpec => []MapSound(State)
<1>1. ASSUME MapSound(State), [MapNext]_mapVars PROVE MapSound(State)'
  <2>1. ASSUME NEW x \in Signals \cup {"packet", "request", "exit"}, callFromThread(x) PROVE MapSound(State)'
    <3>1. Become([State EXCEPT !.inbox = Append(@, x)])
      BY <2>1 DEF callFromThread
    <3>2. x \in Handed /\ "idle" \in {"idle", "waits"}
      BY DEF Handed
    <3>3. MapSound([State EXCEPT !.inbox = Append(@, x)])
      BY <1>1, <3>2, HandOverSound
    <3> QED BY <3>1, <3>3, MapStep
  <2>2. CASE callFromThreadSync
    <3>1. Become([State EXCEPT !.inbox = Append(@, "sync"), !.ui = "waits"])
      BY <2>2 DEF callFromThreadSync
    <3>2. "sync" \in Handed
      BY DEF Handed
    <3>3. MapSound([State EXCEPT !.inbox = Append(@, "sync"), !.ui = "waits"])
      BY <1>1, <3>2, HandOverSound
    <3> QED BY <3>1, <3>3, MapStep
  <2>3. CASE dispatchThreadCallback
    BY <1>1, <2>3, CallbackSound
  <2>4. ASSUME NEW t \in Timers, dispatchTimer(t) PROVE MapSound(State)'
    BY <1>1, <2>4, DispatchSound
  <2>5. CASE LoopTurn \/ Tick
    BY <1>1, <2>5, TurnStep
  <2>6. CASE UNCHANGED mapVars
    <3>1. State' = State
      BY <2>6 DEF mapVars, State
    <3> QED BY <1>1, <3>1
  <2> QED BY <1>1, <2>1, <2>2, <2>3, <2>4, <2>5, <2>6 DEF MapNext
<1> QED BY <1>1, MapStart, PTL DEF MapSpec

\* The call map holds exactly the calls that go on, SIGTERM reaches all of them and keeps
\* a timer to stop by, and a restart cuts off no active call: for any calls, timers,
\* signals and requests.
THEOREM MapKnowsCalls == MapSpec => []CallsKnown
BY MapInvariant, MapIsKnown, PTL

\* Cancelled timers never make up more than half of the heap when the loop goes to sleep:
\* twasted counts at least the cancelled timers that are in the heap.
THEOREM LoopSleepsHalfLive == MapSpec => SleepsHalfLive
<1>1. ASSUME MapSound(State), [MapNext]_mapVars
      PROVE  [loop.pc = "timers" /\ loop'.pc = "sleep"
              => 2 * Cardinality({t \in Timers : timer'[t].in /\ ~timer'[t].live})
                 <= Cardinality({t \in Timers : timer'[t].in})]_edVars
  <2> SUFFICES ASSUME loop.pc = "timers", loop'.pc = "sleep"
               PROVE  2 * Cardinality({t \in Timers : timer'[t].in /\ ~timer'[t].live})
                      <= Cardinality({t \in Timers : timer'[t].in})
    OBVIOUS
  <2>1. State.loop = loop /\ State.timer = timer /\ State \in MapStates
    BY <1>1 DEF State, MapSound
  <2>2. ASSUME NEW x \in Signals \cup {"packet", "request", "exit"}, callFromThread(x) PROVE FALSE
    BY <2>1, <2>2 DEF callFromThread, Become, MapStates
  <2>3. CASE callFromThreadSync
    BY <2>1, <2>3 DEF callFromThreadSync, Become, MapStates
  <2>4. CASE dispatchThreadCallback \/ Tick
    BY <2>4 DEF dispatchThreadCallback, Tick
  <2>5. ASSUME NEW t \in Timers, dispatchTimer(t) PROVE FALSE
    BY <1>1, <2>5, DispatchSound
  <2>6. CASE LoopTurn
    <3>1. Become(ToSleep(State))
      BY <2>6 DEF LoopTurn
    <3>2. timer' = ToSleep(State).timer
      BY <3>1 DEF Become
    <3> QED BY <1>1, <2>1, <3>2, ToSleepSound DEF DeadIn
  <2>7. CASE UNCHANGED mapVars
    BY <2>7 DEF mapVars
  <2> QED BY <1>1, <2>2, <2>3, <2>4, <2>5, <2>6, <2>7 DEF MapNext
<1> QED BY <1>1, MapInvariant, PTL DEF MapSpec, SleepsHalfLive
=============================================================================
