------------------------------- MODULE Dialog -------------------------------
(***************************************************************************)
(* An established call: the caller's leg A and the callee's leg O, both in *)
(* the connected state, the call controller that carries the events of one *)
(* leg to the other, and the RTP proxy that sees every body leg O sends or *)
(* receives.  re-INVITEs of either side, keep alives, BYE, REFER and INFO. *)
(*                                                                         *)
(* One callback of the program runs to its end before the next: a handler  *)
(* of one leg emits events, which the other leg handles, which may emit    *)
(* events in turn.  A handler is therefore an operator from the state of   *)
(* the call to the state it leaves, with the events it emits and whether   *)
(* it raises: what was to follow then does not happen, and the events left *)
(* in the queue stay there.                                                *)
(*                                                                         *)
(* A body is a member of a small set.  What the RTP proxy writes into a    *)
(* body is left out: an offer and the offer the proxy makes of it are the  *)
(* same member.                                                            *)
(***************************************************************************)
EXTENDS Naturals, Sequences, SequencesExt

CONSTANT Bodies        \* session descriptions

ASSUME DialogAssumption ==
    /\ "none" \notin Bodies /\ "hold" \notin Bodies /\ "x" \in Bodies

VARIABLES
    env,     \* what the far ends, the RTP proxy and the configuration do
    leg,     \* the two UAs and their INVITE transactions
    held     \* bodies at the RTP proxy, oldest first

dialogVars == <<env, leg, held>>

Legs    == {"A", "O"}
Peer(u) == IF u = "A" THEN "O" ELSE "A"
Sdp     == Bodies \cup {"none", "hold"}
Updating == {"UacUpdating", "UasUpdating"}
Ended    == {"Disconnected", "Dead"}
Ends     == {"Disconnect", "Fail", "Redirect"}

\* An event on its way: its body, whether the body still needs_update, and the
\* target of a transfer.
EventKinds == Ends \cup {"Update", "Spent", "Ring", "Connect", "Info"}
EventType(K) == [kind : K, body : Sdp, fresh : BOOLEAN, also : BOOLEAN]
Event(k, b) == [kind |-> k, body |-> b, fresh |-> TRUE, also |-> FALSE]

\* rtpp: there is no RTP proxy, one that takes every body, or one that also
\* refuses some.  far: the far ends accept a re-INVITE or do not answer, or also
\* refuse and redirect one, leave out bodies, and spend the last hop.  ka: the
\* legs with keep alives (keepalive_ans, keepalive_orig).  max bounds the bodies
\* at the RTP proxy: no re-INVITE comes when there are as many.
Environments ==
    {[rtpp |-> "no",   far |-> "good", ka |-> {"O"}, max |-> 2],
     [rtpp |-> "good", far |-> "good", ka |-> {}, max |-> 2],
     [rtpp |-> "no",   far |-> "bad",  ka |-> {}, max |-> 2],
     [rtpp |-> "bad",  far |-> "good", ka |-> {}, max |-> 1]}

LegType ==
    [st    : {"Connected", "UacUpdating", "UasUpdating", "Disconnected", "Dead"},
     lsdp  : Sdp, rsdp : Sdp,             \* ua.lSDP, ua.rSDP
     inv   : {"none", "open", "final"},   \* the re-INVITE of the far end
     cb    : BOOLEAN,                     \* the UA is told of its CANCEL, expiry, missing ACK
     out   : BOOLEAN,                     \* our re-INVITE waits for its final response
     ka    : {"off", "timer", "sent"},    \* keep alive of this UaStateConnected
     first : BOOLEAN,                     \* keepalives = 0
     old   : BOOLEAN,                     \* the timer of an earlier UaStateConnected runs
     last  : BOOLEAN,                     \* the 600 s timer after a refused keep alive runs
     refer : BOOLEAN,                     \* a REFER of ours waits for its final response
     byes  : 0 .. 2,                      \* BYEs sent (2: several)
     told  : BOOLEAN,                     \* the far end has sent BYE or REFER
     eq    : Seq(EventType(EventKinds \ {"Update", "Spent"}))]  \* ua.equeue: left after a raise

HeldType == [dir : {"local", "remote"}, ev : EventType(EventKinds), late : BOOLEAN]

DialogTypeOK ==
    /\ env \in Environments
    /\ leg \in [Legs -> LegType]
    /\ held \in Seq(HeldType)

DialogInit ==
    /\ env \in Environments
    /\ leg = [u \in Legs |->
          [st |-> "Connected", lsdp |-> "x", rsdp |-> "x", inv |-> "none", cb |-> FALSE,
           out |-> FALSE, ka |-> IF u \in env.ka THEN "timer" ELSE "off", first |-> TRUE,
           old |-> FALSE, last |-> FALSE, refer |-> FALSE, byes |-> 0, told |-> FALSE,
           eq |-> <<>>]]
    /\ held = <<>>

\* The state of the call as one value, and what a handler returns.
Call       == [leg |-> leg, held |-> held]
Done(c)    == [c |-> c, q |-> <<>>, raised |-> FALSE]
Says(c, e) == [c |-> c, q |-> <<e>>, raised |-> FALSE]
Raises(c)  == [c |-> c, q |-> <<>>, raised |-> TRUE]

WithLeg(c, u, l) == [c EXCEPT !.leg[u] = l]
WithHeld(c, h)   == [c EXCEPT !.held = h]

\* What the RTP proxy may do with a body: return it later, refuse it later (both
\* "later"), raise at once, or never answer (no section it supports: the body
\* that _on_sdp_change() returns is dropped by on_callee_sdp_change()).
Outcomes == CASE env.rtpp = "no"   -> {"direct"}
              [] env.rtpp = "good" -> {"later"}
              [] env.rtpp = "bad"  -> {"later", "error", "never"}

Proxied(u, e) == u = "O" /\ env.rtpp # "no" /\ e.body # "none" /\ e.fresh

Hold(c, dir, e) == WithHeld(c, Append(c.held, [dir |-> dir, ev |-> e, late |-> FALSE]))

-----------------------------------------------------------------------------
(* The states a UA enters and leaves.                                      *)

\* UaStateConnected.onStateChange(): a keep alive under way is cancelled, its
\* timer stays with the dispatcher.
LeaveConnected(l) ==
    [l EXCEPT !.ka = "off", !.old = @ \/ (l.st = "Connected" /\ l.ka = "timer")]

EnterConnected(l, u) ==
    [l EXCEPT !.st = "Connected", !.first = TRUE, !.ka = IF u \in env.ka THEN "timer" ELSE "off"]

SendBye(l) == [l EXCEPT !.byes = IF @ = 0 THEN 1 ELSE 2]

EnterDisconnected(l) == [LeaveConnected(l) EXCEPT !.st = "Disconnected"]

\* sendUasResponse() of a final response: raises unless the re-INVITE is open.
WithFinal(l) == [l EXCEPT !.inv = "final"]

-----------------------------------------------------------------------------
(* Events of the other leg.                                                *)

\* UaStateConnected: Disconnect, Fail, Redirect.  A transfer sends REFER first.
ConnectedEnds(c, u, e) ==
    LET l == c.leg[u] IN
    Done(WithLeg(c, u,
        EnterDisconnected(IF e.also \/ e.kind = "Redirect" THEN [l EXCEPT !.refer = TRUE]
                          ELSE SendBye(l))))

\* UaStateConnected: an update with the body the far end knows is answered at
\* once; any other goes through the RTP proxy and becomes a re-INVITE.  lSDP is
\* None after an update that the far end has refused.
ConnectedUpdate(c, u, e, o) ==
    LET l == c.leg[u] IN
    IF l.lsdp = "none" THEN Raises(c)
    ELSE IF l.lsdp = e.body THEN Says(c, Event("Connect", l.rsdp))
    ELSE IF Proxied(u, e)
    THEN CASE o = "later" -> Done(Hold(c, "local", e))
           [] o = "error" -> Says(c, Event("Fail", "none"))
           [] o = "never" -> Done(c)
    ELSE IF e.kind = "Spent" THEN Says(c, Event("Fail", "none"))
    ELSE Done(WithLeg(c, u,
              [LeaveConnected(l) EXCEPT !.st = "UacUpdating", !.lsdp = e.body, !.out = TRUE]))

\* UacStateUpdating: our re-INVITE is cancelled, BYE.
UacUpdatingEnds(c, u) ==
    Done(WithLeg(c, u, EnterDisconnected(SendBye([c.leg[u] EXCEPT !.out = FALSE]))))

\* _delayLocalSdpUpdate(): the event comes back when the RTP proxy has seen it.
AtProxy(c, e, o) == CASE o = "later" -> Done(Hold(c, "local", e))
                      [] o = "error" -> Raises(c)
                      [] o = "never" -> Done(c)

KeepsLocal(c, u, b) == c

\* _getConnectData(): lSDP is what we answer.
WithLocal(c, u, b) == WithLeg(c, u, [c.leg[u] EXCEPT !.lsdp = b])

\* UasStateUpdating: Ring is passed on, but what its handler returns is no state.
UasUpdatingRing(c, u, e, o) ==
    IF Proxied(u, e) THEN AtProxy(c, e, o) ELSE Raises(WithLocal(c, u, e.body))

\* UasStateUpdating: so is Redirect.
UasUpdatingRedirect(c, u) ==
    Raises(IF c.leg[u].inv = "open" THEN WithLeg(c, u, WithFinal(c.leg[u])) ELSE c)

UasUpdatingConnect(c, u, e, o) ==
    IF Proxied(u, e) THEN AtProxy(c, e, o)
    ELSE LET d == WithLocal(c, u, e.body) IN
         IF c.leg[u].inv = "open"
         THEN Done(WithLeg(d, u, EnterConnected(WithFinal(d.leg[u]), u))) ELSE Raises(d)

UasUpdatingFail(c, u) ==
    LET l == [c.leg[u] EXCEPT !.rsdp = "none"] IN
    IF l.inv = "open" THEN Done(WithLeg(c, u, EnterConnected(WithFinal(l), u)))
    ELSE Raises(WithLeg(c, u, l))

UasUpdatingDisconnect(c, u) ==
    IF c.leg[u].inv = "open"
    THEN Done(WithLeg(c, u, EnterDisconnected(SendBye(WithFinal(c.leg[u]))))) ELSE Raises(c)

\* state.recvEvent(); an event a state has no handler for is ignored, Update in
\* the two Updating states and Connect in the connected state among them.
Handle(c, u, e, o) ==
    LET st == c.leg[u].st
        k  == e.kind IN
    CASE st = "Connected" /\ k \in Ends               -> ConnectedEnds(c, u, e)
      [] st = "Connected" /\ k \in {"Update", "Spent"} -> ConnectedUpdate(c, u, e, o)
      [] st = "UacUpdating" /\ k \in Ends             -> UacUpdatingEnds(c, u)
      [] st = "UasUpdating" /\ k = "Ring"              -> UasUpdatingRing(c, u, e, o)
      [] st = "UasUpdating" /\ k = "Redirect"          -> UasUpdatingRedirect(c, u)
      [] st = "UasUpdating" /\ k = "Connect"           -> UasUpdatingConnect(c, u, e, o)
      [] st = "UasUpdating" /\ k = "Fail"              -> UasUpdatingFail(c, u)
      [] st = "UasUpdating" /\ k = "Disconnect"        -> UasUpdatingDisconnect(c, u)
      [] OTHER                                         -> Done(c)

Late(h) == [h EXCEPT !.late = (h.dir = "remote")]

\* An event that leg u emits makes its older ones, still at the RTP proxy, late.
Overtakes(c, u) ==
    IF u = "A" THEN c
    ELSE WithHeld(c, [i \in DOMAIN c.held |-> Late(c.held[i])])

\* UA.recvEvent() of leg u: the handler, and the answer it emits to the other
\* leg, which has none to that.
RecvEvent(c, u, e, o) ==
    LET r == Handle(c, u, e, o) IN
    IF r.raised \/ r.q = <<>> THEN r
    ELSE Handle(Overtakes(r.c, u), Peer(u), r.q[1], o)

WithQueue(c, u, es) == WithLeg(c, u, [c.leg[u] EXCEPT !.eq = es])

\* One turn of the loop of emitPendingEvents(); r is what the turns before have left.
Give(r, u, e, o) ==
    IF r.raised THEN Raises(WithQueue(r.c, u, Append(r.c.leg[u].eq, e)))
    ELSE RecvEvent(Overtakes(r.c, u), Peer(u), e, o)

Turns(c, u, o) ==
    LET q == c.leg[u].eq
        after[k \in 0 .. Len(q)] ==
            IF k = 0 THEN Done(WithQueue(c, u, <<>>)) ELSE Give(after[k - 1], u, q[k], o)
    IN  after

\* emitPendingEvents() of leg u.
Emit(c, u, o) ==
    IF c.leg[u].st = "Dead" THEN Done(c) ELSE Turns(c, u, o)[Len(c.leg[u].eq)]

Queue(c, u, es) == WithQueue(c, u, c.leg[u].eq \o es)

\* UA.disconnect().
Disconnect(c, u, o) ==
    LET r == Handle(Queue(c, u, <<Event("Disconnect", "none")>>), u,
                    Event("Disconnect", "none"), o) IN
    IF r.raised THEN r ELSE Emit(r.c, u, o)

\* The step that leaves the call as handler result r says.
Becomes(r) == leg' = r.c.leg /\ held' = r.c.held /\ UNCHANGED env

-----------------------------------------------------------------------------
(* Requests of the far ends.                                               *)

Offers == Bodies \cup (IF env.far = "bad" THEN {"none"} ELSE {})

\* The re-INVITE is open, and its event goes to the other leg (or to the RTP
\* proxy first); the UA is called back later only if nothing has raised.
Offered(c, u, e, o) ==
    LET l == [LeaveConnected(c.leg[u]) EXCEPT !.st = "UasUpdating", !.inv = "open"]
        d == WithLeg(c, u, l)
        r == IF ~Proxied(u, e)
             THEN Emit(Queue(WithLeg(c, u, [l EXCEPT !.rsdp = e.body]), u, <<e>>), u, o)
             ELSE IF o = "later" THEN Done(Hold(d, "remote", e)) ELSE Done(d)
    IN  Done(WithLeg(r.c, u, [r.c.leg[u] EXCEPT !.cb = ~r.raised]))

\* re-INVITE in UaStateConnected: the body known already is answered at once, no
\* body means hold, and a body the RTP proxy raises for is answered by the
\* transaction manager.  In the Updating states it is answered by 491, in
\* Disconnected by 500: nothing changes.
InviteArrives(u, body, spent, o) ==
    LET l == leg[u]
        b == IF body = "none" THEN "hold" ELSE body
        e == Event(IF spent THEN "Spent" ELSE "Update", b)
        open == [l EXCEPT !.inv = "open", !.cb = FALSE]
    IN
    /\ l.st = "Connected" /\ l.inv = "none" /\ Len(held) < env.max
    /\ Becomes(IF body = "none" /\ l.rsdp = "none" THEN Raises(WithLeg(Call, u, open))
               ELSE IF body = l.rsdp \/ (Proxied(u, e) /\ o = "error")
               THEN Done(WithLeg(Call, u, WithFinal(open)))
               ELSE Offered(Call, u, e, o))

CancelLost(u) ==
    /\ leg[u].inv = "open"
    /\ UNCHANGED dialogVars

\* UasStateUpdating.cancel() for a CANCEL and for the expiry of the re-INVITE,
\* which the transaction manager has answered by 487: BYE, and the event goes
\* past the queue.
Cancel(u) ==
    LET l == WithFinal(leg[u])
        c == WithLeg(Call, u, l)
        d == WithLeg(Call, u, EnterDisconnected(SendBye(l)))
    IN
    /\ leg[u].inv = "open"
    /\ Becomes(IF leg[u].cb
               THEN RecvEvent(Overtakes(d, u), Peer(u), Event("Disconnect", "none"), "later")
               ELSE Done(c))

AckOfInvite(u) ==
    /\ leg[u].inv = "final"
    /\ leg' = [leg EXCEPT ![u].inv = "none", ![u].cb = FALSE]
    /\ UNCHANGED <<env, held>>

\* No ACK for 32 s: noack_cb is disconnect().
NoAck(u, o) ==
    LET c == WithLeg(Call, u, [leg[u] EXCEPT !.inv = "none", !.cb = FALSE]) IN
    /\ leg[u].inv = "final"
    /\ Becomes(IF leg[u].cb THEN Disconnect(c, u, o) ELSE Done(c))

LeavesInvite(l) == l

EndsInvite(l) == IF l.st = "UasUpdating" THEN WithFinal(l) ELSE l

\* BYE: in UasStateUpdating the re-INVITE is answered by 487 first, in
\* UacStateUpdating ours is cancelled.
ByeArrives(u, also, o) ==
    LET l == leg[u]
        e == [Event("Disconnect", "none") EXCEPT !.also = also]
        c == Queue(WithLeg(Call, u,
                 EnterDisconnected([EndsInvite(l) EXCEPT !.out = FALSE, !.told = TRUE])), u, <<e>>)
    IN
    /\ l.st \in {"Connected"} \cup Updating
    /\ also => l.st = "Connected"
    /\ Becomes(IF l.st = "UasUpdating" /\ l.inv # "open" THEN Raises(Call) ELSE Emit(c, u, o))

\* REFER: the other leg is told of the transfer, this one ends (in
\* UaStateConnected with a BYE).
ReferArrives(u, o) ==
    LET l == [leg[u] EXCEPT !.told = TRUE]
        e == [Event("Disconnect", "none") EXCEPT !.also = TRUE]
        Ending(how) == Emit(Queue(WithLeg(Call, u, EnterDisconnected(how)), u, <<e>>), u, o)
    IN
    \/ /\ l.st = "Connected"
       /\ Becomes(Ending(SendBye(l)))
    \/ /\ l.st = "UasUpdating"
       /\ Becomes(IF l.inv # "open" THEN Raises(Call) ELSE Ending(WithFinal(l)))

InfoArrives(u, o) ==
    /\ leg[u].st = "Connected" /\ leg[u].eq = <<>>
    /\ Becomes(Emit(Queue(Call, u, <<Event("Info", "none")>>), u, o))

-----------------------------------------------------------------------------
(* Responses to our re-INVITE: UacStateUpdating.                           *)

FailOnly == <<Event("Fail", "none")>>

FailAndDisconnect == <<Event("Fail", "none"), Event("Disconnect", "none")>>

\* updateFailed(): Fail and Disconnect for the other leg, BYE.
UpdateFailed(c, u, o) ==
    Emit(Queue(WithLeg(c, u, EnterDisconnected(SendBye(c.leg[u]))), u, FailAndDisconnect), u, o)

Ringing(u, body, o) ==
    /\ leg[u].st = "UacUpdating" /\ leg[u].out /\ Len(held) < env.max
    /\ Becomes(Emit(Queue(Call, u, <<Event("Ring", body)>>), u, o))

\* 2xx: the answer, which the RTP proxy may hold.
Accepted(u, body, o) ==
    LET e == Event("Connect", body)
        l == [leg[u] EXCEPT !.out = FALSE]
        d == EnterConnected(l, u)
    IN
    /\ leg[u].st = "UacUpdating" /\ leg[u].out
    /\ Becomes(IF ~Proxied(u, e)
               THEN Emit(Queue(WithLeg(Call, u, [d EXCEPT !.rsdp = body]), u, <<e>>), u, o)
               ELSE CASE o = "later" -> Done(Hold(WithLeg(Call, u, d), "remote", e))
                      [] o = "error" -> UpdateFailed(WithLeg(Call, u, l), u, o)
                      [] o = "never" -> Done(WithLeg(Call, u, d)))

\* 300, 301, 302 with a contact; other final responses; 408 and 481, which end
\* the call.
Rejected(u, how, o) ==
    LET l == [leg[u] EXCEPT !.out = FALSE]
        d == [l EXCEPT !.lsdp = "none"]
        Back(x, kind) ==
            Emit(Queue(WithLeg(Call, u, EnterConnected(x, u)), u, <<Event(kind, "none")>>), u, o)
    IN
    /\ leg[u].st = "UacUpdating" /\ leg[u].out
    /\ Becomes(CASE how = "redirect" -> Back(l, "Redirect")
                 [] how = "refused"  -> Back(d, "Fail")
                 [] how = "timeout"  -> UpdateFailed(WithLeg(Call, u, d), u, o))

\* rComplete(): any response to our REFER, also a provisional one.
ReferResponse(u, final) ==
    /\ leg[u].refer
    /\ leg' = [leg EXCEPT ![u] = [SendBye(@) EXCEPT !.refer = ~final]]
    /\ UNCHANGED <<env, held>>

-----------------------------------------------------------------------------
(* The RTP proxy returns a body, or refuses it.                            *)

\* Only what is older than the event emitted becomes late.
OvertakesBefore(c, n) ==
    WithHeld(c, [i \in DOMAIN c.held |-> IF i < n THEN Late(c.held[i]) ELSE c.held[i]])

\* A refused body: Fail for the other leg and then for this one.
Refused(c, o) ==
    LET fail == Emit(Queue(c, "O", <<Event("Fail", "none")>>), "O", o) IN
    IF fail.raised THEN fail ELSE Handle(fail.c, "O", Event("Fail", "none"), o)

\* delayed_remote_sdp_update(): the event goes on unless a newer one has gone.
RemoteSdpDone(i, ok, o) ==
    LET h == held[i]
        c == WithHeld(Call, RemoveAt(held, i))
        d == WithLeg(c, "O", [leg["O"] EXCEPT !.rsdp = h.ev.body])
    IN
    /\ h.dir = "remote"
    /\ Becomes(IF ~ok THEN Refused(c, o)
               ELSE IF h.late \/ leg["O"].st = "Dead" THEN Done(d)
               ELSE RecvEvent(OvertakesBefore(d, i), "A", [h.ev EXCEPT !.fresh = FALSE], o))

\* delayed_local_sdp_update(): the event is received again.
LocalSdpDone(i, ok, o) ==
    LET h == held[i]
        c == WithHeld(Call, RemoveAt(held, i))
    IN
    /\ h.dir = "local"
    /\ Becomes(IF ok THEN RecvEvent(c, "O", [h.ev EXCEPT !.fresh = FALSE], o)
               ELSE Refused(c, o))

-----------------------------------------------------------------------------
(* Keep alives and other timers.                                           *)

\* keepAlive(): the timer of a state the UA has left does nothing.
KeepAlive(u) ==
    /\ \/ /\ leg[u].ka = "timer"
          /\ leg' = [leg EXCEPT ![u].ka = "sent"]
       \/ /\ leg[u].old
          /\ leg' = [leg EXCEPT ![u].old = FALSE]
    /\ UNCHANGED <<env, held>>

\* keepAliveResp(): 408, 481 and 486 end the call, the first one after 600 s.
KeepAliveResp(u, good, o) ==
    LET l == leg[u]
        Leg(x) == Done(WithLeg(Call, u, x))
    IN
    /\ l.ka = "sent"
    /\ Becomes(IF good THEN Leg([l EXCEPT !.ka = "timer", !.first = FALSE])
               ELSE IF l.first THEN Leg([l EXCEPT !.ka = "off", !.first = FALSE, !.last = TRUE])
               ELSE Disconnect(WithLeg(Call, u, [l EXCEPT !.ka = "off"]), u, o))

LastTimer(u, o) ==
    /\ leg[u].last
    /\ Becomes(Disconnect(WithLeg(Call, u, [leg[u] EXCEPT !.last = FALSE]), u, o))

\* credit_expires(), CallController.disconnect(), CallMap.discAll().  (A leg whose
\* handler has raised is hung up once.)
Hangup(u, o) ==
    /\ leg[u].st \notin Ended /\ leg[u].eq = <<>>
    /\ Becomes(Disconnect(Call, u, o))

GoDead(u) ==
    /\ leg[u].st = "Disconnected"
    /\ leg' = [leg EXCEPT ![u].st = "Dead"]
    /\ UNCHANGED <<env, held>>

Bad == env.far = "bad"

DialogNext ==
    \/ \E u \in Legs, o \in Outcomes :
          \/ \E b \in Offers, spent \in {FALSE, Bad} : InviteArrives(u, b, spent, o)
          \/ \E also \in BOOLEAN : ByeArrives(u, also, o)
          \/ NoAck(u, o) \/ ReferArrives(u, o) \/ InfoArrives(u, o)
          \/ \E b \in Offers : Accepted(u, b, o) \/ Ringing(u, b, o)
          \/ \E how \in IF Bad THEN {"redirect", "refused", "timeout"} ELSE {"timeout"} :
                Rejected(u, how, o)
          \/ \E good \in BOOLEAN : KeepAliveResp(u, good, o)
          \/ LastTimer(u, o) \/ Hangup(u, o)
    \/ \E u \in Legs : Cancel(u) \/ AckOfInvite(u) \/ KeepAlive(u) \/ GoDead(u)
    \/ \E u \in Legs, final \in BOOLEAN : ReferResponse(u, final)
    \/ \E i \in DOMAIN held, o \in Outcomes :
          \E ok \in IF env.rtpp = "bad" THEN BOOLEAN ELSE {TRUE} :
              RemoteSdpDone(i, ok, o) \/ LocalSdpDone(i, ok, o)

DialogSpec == DialogInit /\ [][DialogNext]_dialogVars

\* The transaction manager expires a re-INVITE; the dispatcher runs the timers.
DialogFairness == \A u \in Legs : WF_dialogVars(Cancel(u)) /\ WF_dialogVars(GoDead(u))

DialogFairSpec == DialogSpec /\ DialogFairness

-----------------------------------------------------------------------------
(* Properties.                                                             *)

\* Nobody refuses anything: the RTP proxy takes every body, the far ends accept
\* or do not answer.
Benign == env.rtpp # "bad" /\ env.far = "good"

\* A leg that means to answer a re-INVITE has one to answer, and the reverse:
\* sendUasResponse() finds its transaction, whatever races with the answer.
ReplyTaken == Benign => \A u \in Legs : (leg[u].st = "UasUpdating") = (leg[u].inv = "open")

\* The call ends on both legs or on neither, although each leg has timers and a
\* far end of its own.  (After a refused body one leg may stay.)
EndTogether ==
    Benign => (leg["A"].st \in Ended) = (leg["O"].st \in Ended)

\* A leg that sends a re-INVITE does so for the other, which waits for it: no
\* re-INVITE of ours is ever without somebody to answer.
OfferHasAsker ==
    Benign => \A u \in Legs : leg[u].st = "UacUpdating" => leg[Peer(u)].st = "UasUpdating"

\* When nothing is under way each far end has the description that the other end
\* has sent last, whatever mixture of updates, answers and hang-ups has passed.
SdpAgree ==
    Benign /\ held = <<>> /\ (\A u \in Legs : leg[u].st = "Connected") =>
        \A u \in Legs : leg[u].rsdp = leg[Peer(u)].lsdp

\* The far end of a leg that has ended has said so or is told so.
FarEndKnows ==
    \A u \in Legs : leg[u].st \in Ended => leg[u].told \/ leg[u].refer \/ leg[u].byes > 0

\* A keep alive is sent only while the connected state that sends it lasts: there
\* is never one beside a re-INVITE of ours or an answer we owe.
KeepAliveAlone == \A u \in Legs : leg[u].ka # "off" => leg[u].st = "Connected"

\* Every re-INVITE is settled: the leg that owes an answer gives one or ends the
\* call, also when both far ends have sent one and each waits for the other.
UpdateSettled ==
    \A u \in Legs : (Benign /\ leg[u].st = "UasUpdating") ~> leg[u].st # "UasUpdating"

\* The two legs know of each other's re-INVITEs: an answer has its INVITE, an INVITE
\* of ours its asker, and no keep alive comes between (and the types).
UpdatesPaired == DialogTypeOK /\ ReplyTaken /\ OfferHasAsker /\ KeepAliveAlone

\* The end of the call is known to both legs and to both far ends.
EndHeard == EndTogether /\ FarEndKnows
=============================================================================
