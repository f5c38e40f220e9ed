--------------------------- MODULE CallController ---------------------------
(***************************************************************************)
(* One call of the B2BUA: a CallController between the caller's leg (uaA)  *)
(* and the outgoing legs it places one route after the other (uaO is the   *)
(* last of them), with authorisation, accounting and its place in the call *)
(* map.                                                                    *)
(*                                                                         *)
(* A leg is here what UasCall and UacCall show of it: events cross without *)
(* delay unless the RTP proxy holds the body of an answer, a leg says that *)
(* it has ended, possibly twice (OnlyEndsAfterEnd is all it keeps), never  *)
(* that it has been answered after that, and dies in the end.  Handlers    *)
(* run to completion, the callbacks and the other leg's handlers included. *)
(* Ring, Info and Update events change no state here; calls without SDP in *)
(* the INVITE (CCEventPreConnect) are left to UacCall.                     *)
(***************************************************************************)
EXTENDS Naturals

CONSTANTS
    MaxRoutes,  \* bound on the routes of a call
    Billed      \* the routes with an accounting record (not forward_on_fail)

Route == 1 .. MaxRoutes

ASSUME CallAssumption == MaxRoutes \in Nat /\ Billed \subseteq Route

VARIABLES
    ccstate,    \* cc.state
    uaA,        \* the caller's leg: Setup (Trying, Ringing), Connected, Over, Dead
    leg,        \* outgoing legs: New is a UA without a state, Calling is Idle,
                \* Trying or Ringing, Closing is Cancelling
    cur,        \* the leg cc.uaO refers to; 0 is None
    routes,     \* how many routes are left in cc.routes
    hops,       \* the INVITE's Max-Forwards allows an outgoing leg
    auth,       \* the authorisation request: none, pending, done
    inmap,      \* the call is in ccmap
    acctA,      \* what happened to the caller's accounting record
    acctO,      \* what happened to the record of each outgoing leg
    connLater,  \* legs whose CCEventConnect waits for the RTP proxy
    said,       \* legs that have told the call controller of their end
    lateEnd,    \* one of them has told it again
    answered    \* legs that have been answered

acct == <<acctA, acctO>>
vars == <<ccstate, uaA, leg, cur, routes, hops, auth, inmap, acct, connLater, said,
          lateEnd, answered>>

Live == {"Calling", "Connected"}

TypeOK ==
    /\ ccstate \in {"Idle", "WaitRoute", "ARComplete", "Connected", "Disconnecting", "Dead"}
    /\ uaA \in {"Setup", "Connected", "Over", "Dead"}
    /\ leg \in [Route -> Live \cup {"none", "New", "Closing", "Over", "Dead"}]
    /\ cur \in 0 .. MaxRoutes /\ routes \in 0 .. MaxRoutes
    /\ cur + routes <= MaxRoutes
    /\ hops \in BOOLEAN /\ inmap \in BOOLEAN /\ lateEnd \in BOOLEAN
    /\ auth \in {"none", "pending", "done"}
    /\ acctA \in SUBSET {"open", "conn", "disc"}
    /\ acctO \in [Route -> SUBSET {"open", "conn", "disc"}]
    /\ connLater \in SUBSET Route /\ said \in SUBSET Route /\ answered \in SUBSET Route

\* CallMap.recvRequest() has created the call and the INVITE has been accepted.
Init ==
    /\ ccstate = "Idle" /\ uaA = "Setup" /\ inmap = TRUE
    /\ leg = [r \in Route |-> "none"] /\ cur = 0 /\ routes = 0
    /\ hops \in BOOLEAN /\ auth = "none"
    /\ acctA = {} /\ acctO = [r \in Route |-> {}]
    /\ connLater = {} /\ said = {} /\ lateEnd = FALSE /\ answered = {}

-----------------------------------------------------------------------------
(* Accounting records and callbacks.                                       *)

LeftOpen(rec) == rec

\* RadiusAccounting.disc() and conn() of a record, if there is one.
Stopped(rec) == IF rec = {} THEN {} ELSE rec \cup {"disc"}

Started(rec) == IF rec = {} THEN {} ELSE rec \cup {"conn"}

StaysAsItIs == "Dead"

\* aDisc(): the state in which the outgoing leg may still be told of the end.
AfterADisc == IF cur # 0 /\ ccstate # "Dead" THEN "Disconnecting" ELSE "Dead"

\* The caller's leg ends, for whatever reason: aDisc() is called.
AEnds ==
    /\ uaA' = "Over"
    /\ ccstate' = AfterADisc
    /\ acctA' = Stopped(acctA)

\* The caller's leg is connected: aConn().
AConnects ==
    /\ uaA' = "Connected"
    /\ ccstate' = "Connected"
    /\ acctA' = Started(acctA)

\* An event of uaA that ends the call reaches uaO if cc.state is s.
ForwardedIn(s) == s \in {"ARComplete", "Connected", "Disconnecting"} /\ cur # 0

\* uaO.recvEvent() of it: CANCEL, BYE, or death if the INVITE is not out yet.
Told ==
    IF leg[cur] \in Live
    THEN /\ \E s \in IF leg[cur] = "Connected" THEN {"Over"} ELSE {"Closing", "Dead"} :
               leg' = [leg EXCEPT ![cur] = s]
         /\ acctO' = [acctO EXCEPT ![cur] = Stopped(@)]
    ELSE UNCHANGED <<leg, acctO>>

TellIf(forwarded) == IF forwarded THEN Told ELSE UNCHANGED <<leg, acctO>>

-----------------------------------------------------------------------------
(* The caller's leg.                                                       *)

\* CCEventTry: the call is to be authorised and routed.
recvTry ==
    /\ ccstate = "Idle" /\ uaA = "Setup" /\ auth = "none"
    /\ ccstate' = "WaitRoute" /\ auth' = "pending"
    /\ UNCHANGED <<uaA, leg, cur, routes, hops, inmap, acct, connLater, said, lateEnd, answered>>

\* A Try without a called number, or another event instead of it.
recvOther ==
    /\ ccstate = "Idle" /\ uaA = "Setup"
    /\ AEnds
    /\ UNCHANGED <<leg, cur, routes, hops, auth, inmap, acctO, connLater, said, lateEnd, answered>>

\* CANCEL, BYE, expiry, a timer of the leg, or cc.disconnect() (discAll, media
\* timeout, CLI): the leg ends, aDisc() is called, then uaO hears of it.
UaAEnds ==
    /\ uaA \in {"Setup", "Connected"}
    /\ AEnds
    /\ TellIf(ForwardedIn(AfterADisc))
    /\ UNCHANGED <<cur, routes, hops, auth, inmap, connLater, said, lateEnd, answered>>

\* An ended leg says so again (no ACK came for its last response).
UaAEndsAgain ==
    /\ uaA = "Over"
    /\ TellIf(ForwardedIn(ccstate))
    /\ UNCHANGED <<ccstate, uaA, cur, routes, hops, auth, inmap, acctA, connLater, said,
                   lateEnd, answered>>

OnlyWithoutLeg == cur = 0

\* aDead() and oDead(): is the call forgotten when one leg has died?
Forgotten == cur = 0 \/ leg[cur] = "Dead"

aDead ==
    /\ uaA = "Over" /\ uaA' = "Dead"
    /\ inmap' = (inmap /\ ~Forgotten)
    /\ UNCHANGED <<ccstate, leg, cur, routes, hops, auth, acct, connLater, said, lateEnd, answered>>

-----------------------------------------------------------------------------
(* Routing.                                                                *)

\* cc.routes after routes.pop(0).
Popped(n) == n - 1

\* The leg that cc.uaO refers to after placeOriginate().
Replaced == cur + 1

\* The accounting record placeOriginate() makes for route r.
NewRecord(r) == IF r \in Billed THEN {"open"} ELSE {}

\* placeOriginate() of the next route; ls and as are the legs and their records
\* as the step has left them so far.  An exhausted Max-Forwards ends the call
\* instead, when the UA has been created already.
placeOriginate(ls, as) ==
    /\ cur' = Replaced
    /\ leg' = [ls EXCEPT ![cur + 1] = "Calling"]
    /\ acctO' = [as EXCEPT ![cur + 1] = NewRecord(cur + 1)]

TooManyHops ==
    /\ cur' = 1
    /\ leg' = [leg EXCEPT ![1] = "New"]
    /\ acctO' = [acctO EXCEPT ![1] = NewRecord(1)]
    /\ uaA' = "Over" /\ ccstate' = "Dead"
    /\ acctA' = {"open", "disc"}

\* Does an answer of the authorisation still find the caller waiting?
CallerWaits == uaA = "Setup"

\* rDone(): n routes, or a rejection.
rDone(ok, n) ==
    /\ auth = "pending" /\ auth' = "done"
    /\ \/ /\ ~ok /\ uaA = "Setup"                              \* 401, 403
          /\ uaA' = "Over" /\ ccstate' = "Dead"
          /\ UNCHANGED <<leg, cur, routes, acct>>
       \/ /\ ~ok /\ uaA # "Setup"
          /\ UNCHANGED <<uaA, ccstate, leg, cur, routes, acct>>
       \/ /\ ok /\ ~CallerWaits                                \* a Stop record only
          /\ acctA' = {"open", "disc"}
          /\ UNCHANGED <<uaA, ccstate, leg, cur, routes, acctO>>
       \/ /\ ok /\ CallerWaits /\ n = 0                        \* 500
          /\ uaA' = "Over" /\ ccstate' = "Dead"
          /\ acctA' = {"open", "disc"}
          /\ UNCHANGED <<leg, cur, routes, acctO>>
       \/ /\ ok /\ CallerWaits /\ n > 0 /\ hops
          /\ ccstate' = "ARComplete" /\ routes' = Popped(n)
          /\ acctA' = {"open"}
          /\ placeOriginate(leg, acctO)
          /\ UNCHANGED uaA
       \/ /\ ok /\ CallerWaits /\ n > 0 /\ ~hops               \* 483
          /\ routes' = Popped(n)
          /\ TooManyHops
    /\ UNCHANGED <<hops, inmap, connLater, said, lateEnd, answered>>

-----------------------------------------------------------------------------
(* The outgoing legs.                                                      *)

\* uaA.recvEvent() of the answer.
AnswerReaches ==
    \/ uaA = "Setup" /\ AConnects
    \/ uaA # "Setup" /\ UNCHANGED <<ccstate, uaA, acctA>>

\* oConn() starts the record of cc.acctO, which a forgotten call has dropped.
RecordStarted == IF inmap THEN [acctO EXCEPT ![cur] = Started(@)] ELSE acctO

\* 2xx: the leg is connected, oConn() is called, and the event reaches uaA at
\* once or when the RTP proxy has seen the body.
LegAnswers(r) ==
    /\ leg[r] = "Calling"
    /\ leg' = [leg EXCEPT ![r] = "Connected"]
    /\ acctO' = RecordStarted
    /\ answered' = answered \cup {r}
    /\ \/ AnswerReaches /\ UNCHANGED connLater
       \/ connLater' = connLater \cup {r} /\ UNCHANGED <<ccstate, uaA, acctA>>
    /\ UNCHANGED <<cur, routes, hops, auth, inmap, said, lateEnd>>

\* The body has been seen; an event older than the end of the leg is dropped.
AnswerArrives(r) ==
    /\ r \in connLater /\ connLater' = connLater \ {r}
    /\ IF r \in said \/ leg[r] = "Dead"
       THEN UNCHANGED <<ccstate, uaA, acctA>>
       ELSE AnswerReaches
    /\ UNCHANGED <<leg, cur, routes, hops, auth, inmap, acctO, said, lateEnd, answered>>

\* recvEvent() of a CCEventFail or CCEventDisconnect whose code does not stop the
\* hunting: the next route is tried while the caller waits.
Hunts == ccstate = "ARComplete" /\ uaA = "Setup" /\ routes > 0

\* What recvEvent() does with an end of leg r, whose own state becomes s; huntstop
\* is a CCEventFail with a code of huntstop_scodes, or a CCEventRedirect.
EndReaches(r, s, huntstop) ==
    \/ /\ Hunts /\ ~huntstop
       /\ routes' = Popped(routes)
       /\ placeOriginate([leg EXCEPT ![r] = s], [acctO EXCEPT ![r] = Stopped(@)])
       /\ UNCHANGED <<ccstate, uaA, acctA>>
    \/ /\ ~Hunts \/ huntstop
       /\ leg' = [leg EXCEPT ![r] = s]
       /\ acctO' = [acctO EXCEPT ![r] = Stopped(@)]
       /\ IF uaA \in {"Setup", "Connected"} THEN AEnds
          ELSE UNCHANGED <<ccstate, uaA, acctA>>
       /\ UNCHANGED <<routes, cur>>

\* A leg ends by itself: a final response, a timer, a BYE, a body that the RTP
\* proxy refuses (before the INVITE: the leg is dead at once).
LegEnds(r, s, huntstop) ==
    /\ \/ leg[r] = "Calling" /\ s \in {"Closing", "Over", "Dead"}
       \/ leg[r] = "Connected" /\ s = "Over"
    /\ EndReaches(r, s, huntstop)
    /\ said' = said \cup {r}
    /\ inmap' = (inmap /\ ~(s = "Dead" /\ r = cur' /\ uaA = "Dead"))
    /\ UNCHANGED <<hops, auth, connLater, lateEnd, answered>>

\* A leg that is over says so (again): a timer it has kept, a late refusal of the
\* RTP proxy.
LegEndsAgain(r, huntstop) ==
    /\ leg[r] \in {"Closing", "Over"}
    /\ EndReaches(r, leg[r], huntstop)
    /\ said' = said \cup {r}
    /\ lateEnd' = (lateEnd \/ r \in said)
    /\ UNCHANGED <<hops, auth, inmap, connLater, answered>>

\* The callee has answered before it saw the CANCEL: BYE.
AnsweredTooLate(r) ==
    /\ leg[r] = "Closing"
    /\ leg' = [leg EXCEPT ![r] = "Over"]
    /\ UNCHANGED <<ccstate, uaA, cur, routes, hops, auth, inmap, acct, connLater, said,
                   lateEnd, answered>>

WithoutGoIdle == {"Over"}

\* The states a leg dies from: goIdle(), a late response, goDead().
Dying == {"Closing", "Over"}

oDead(r) ==
    /\ leg[r] \in Dying
    /\ leg' = [leg EXCEPT ![r] = "Dead"]
    /\ inmap' = (inmap /\ ~(r = cur /\ uaA = "Dead"))
    /\ UNCHANGED <<ccstate, uaA, cur, routes, hops, auth, acct, connLater, said, lateEnd, answered>>

Next ==
    \/ recvTry \/ recvOther \/ UaAEnds \/ UaAEndsAgain \/ aDead
    \/ \E ok \in BOOLEAN, n \in 0 .. MaxRoutes : rDone(ok, n)
    \/ \E r \in Route :
          \/ LegAnswers(r) \/ AnswerArrives(r) \/ AnsweredTooLate(r) \/ oDead(r)
          \/ \E huntstop \in BOOLEAN :
                LegEndsAgain(r, huntstop)
                \/ \E s \in {"Closing", "Over", "Dead"} : LegEnds(r, s, huntstop)

Spec == Init /\ [][Next]_vars

\* Legs whose end has come die (EndsDead of UasCall and of UacCall).
Fairness == WF_vars(aDead) /\ \A r \in Route : WF_vars(oDead(r))

FairSpec == Spec /\ Fairness

-----------------------------------------------------------------------------
(* Properties.                                                             *)

LiveLegs == {r \in Route : leg[r] \in Live}

\* When the caller's leg is over no outgoing leg is calling or connected: whoever
\* ended the call, and while an answer was on its way, the other side was told.
\* (A leg that reports its end twice breaks this: see TriedOneByOne.)
NoOrphan == ~lateEnd /\ uaA \in {"Over", "Dead"} => LiveLegs = {}

\* Routes are tried one at a time, and only the last one can be in progress.
OneLegAtATime == ~lateEnd => LiveLegs \subseteq {cur}

\* Every accounting record is closed when its leg is over, a record is started
\* only if its own leg was answered, and the caller's only if some leg was.
RecordsSettled ==
    /\ uaA \in {"Over", "Dead"} /\ acctA # {} => "disc" \in acctA
    /\ \A r \in Route : leg[r] \in {"Closing", "Over", "Dead"} /\ acctO[r] # {} => "disc" \in acctO[r]
    /\ ~lateEnd => \A r \in Route : "conn" \in acctO[r] => r \in answered
    /\ "conn" \in acctA => answered # {}

\* The call is in ccmap as long as one of its two legs lives, and is removed once
\* (list.remove() of a call that is not there would raise).
InMapWhileAlive ==
    inmap <=> ~(uaA = "Dead" /\ (cur = 0 \/ leg[cur] = "Dead"))

\* A call whose caller has gone leaves the map.  (One that was refused for its
\* Max-Forwards never does: its second UA never gets a state.)
Collected == (uaA = "Over" /\ hops) ~> (~inmap \/ lateEnd)

\* "routing entries will be tried one by one until either there are no more
\* routes left or the call is successfully connected" (documentation.md).
TriedOneByOne == \A r \in LiveLegs : LiveLegs = {r}

\* The caller is connected to one leg at most, and to none when it has gone.
OneLiveLeg == NoOrphan /\ OneLegAtATime
=============================================================================
