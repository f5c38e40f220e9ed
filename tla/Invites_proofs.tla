--------------------------- MODULE Invites_proofs ---------------------------
(***************************************************************************)
(* Proofs about the INVITEs that reach a B2BUA: the properties of Dialog   *)
(* for any set of bodies (an established call and its re-INVITEs), then    *)
(* those of ServerTransaction for any MaxTx (the transaction of a request).*)
(***************************************************************************)
EXTENDS ServerTransaction, Dialog, SequenceTheorems, WellFoundedInduction, NaturalsInduction, TLAPS

-----------------------------------------------------------------------------
(* Established calls.                                                      *)

\* A leg that can no longer take part: nothing it still has in its queue matters.
Stuck(l) == l.st \in Ended \/ (l.st = "UasUpdating" /\ l.inv # "open")

\* What every handler keeps of one leg, whatever the far ends and the proxy do.
LegOK(l) ==
    /\ l \in LegType
    /\ l.st \in Ended => l.told \/ l.refer \/ l.byes > 0
    /\ l.ka # "off" => l.st = "Connected"
    /\ l.eq # <<>> => Stuck(l)

CallType == [leg : [Legs -> LegType], held : Seq(HeldType)]
CallOK(c) == c \in CallType /\ \A u \in Legs : LegOK(c.leg[u])

\* What a body at the RTP proxy is part of: the question of leg A's far end on its
\* way to leg O ("askA") or the answer to it ("answerA"), or the reverse.
Role(x) ==
    CASE x.dir = "local"  /\ x.ev.kind = "Update"  -> "askA"
      [] x.dir = "remote" /\ x.ev.kind = "Connect" -> "answerA"
      [] x.dir = "remote" /\ x.ev.kind = "Update"  -> "askO"
      [] x.dir = "local"  /\ x.ev.kind = "Connect" -> "answerO"
      [] x.dir = "local"  /\ x.ev.kind = "Ring"    -> "ring"
      [] OTHER                                     -> "other"

OfA == {"askA", "answerA"}
OfO == {"askO", "answerO"}
Few(h, T) == \A i, j \in DOMAIN h : Role(h[i]) \in T /\ Role(h[j]) \in T => i = j
Bod(h, T) == {h[i].ev.body : i \in {j \in DOMAIN h : Role(h[j]) \in T}}

\* The bodies at the proxy belong to a call in which nobody refuses anything.
HeldWell(h) ==
    /\ \A i \in DOMAIN h : Role(h[i]) # "other" /\ h[i].ev.body # "none"
    /\ Few(h, OfA) /\ Few(h, OfO)
    /\ Bod(h, {"answerA"}) = {} \/ Bod(h, {"answerO"}) = {}

\* The question of leg A's far end is in one place, and leg A waits for the answer.
AsksA(a, o, h) ==
    /\ Bod(h, OfA) # {} => a.st = "UasUpdating" /\ o.st # "UacUpdating"
    /\ o.st = "UacUpdating" => a.st = "UasUpdating" /\ o.lsdp = a.rsdp
    /\ \A b \in Bod(h, {"askA"}) : b = a.rsdp
    /\ Bod(h, {"answerA"}) # {} => o.lsdp = a.rsdp \/ o.st = "UasUpdating"

AsksO(a, o, h) ==
    /\ Bod(h, OfO) # {} => o.st = "UasUpdating" /\ a.st # "UacUpdating"
    /\ a.st = "UacUpdating" => o.st = "UasUpdating" /\ a.lsdp = o.rsdp
    /\ \A b \in Bod(h, {"answerO"}) : a.st = "UasUpdating" \/ (b = a.rsdp /\ a.lsdp = o.rsdp)

Described(l) == l.lsdp # "none" /\ l.rsdp # "none"

Exchange(a, o, h) ==
    /\ Described(a) /\ Described(o)
    /\ HeldWell(h) /\ AsksA(a, o, h) /\ AsksO(a, o, h)
    /\ a.st = "Connected" /\ o.st = "Connected" => a.rsdp = o.lsdp /\ o.rsdp = a.lsdp

LegFit(l) ==
    /\ (l.st = "UasUpdating") <=> (l.inv = "open")
    /\ l.eq # <<>> => l.st = "Dead"

LegWell(l) == LegFit(l) /\ (l.inv = "open" => l.cb)

Well(a, o, h) ==
    /\ LegWell(a) /\ LegWell(o)
    /\ (a.st \in Ended) <=> (o.st \in Ended)
    /\ a.st \notin Ended => Exchange(a, o, h)
    /\ env.rtpp = "no" => h = <<>>

Paired(c) == Well(c.leg["A"], c.leg["O"], c.held)

DialogInv == env \in Environments /\ CallOK(Call) /\ (Benign => Paired(Call))

-----------------------------------------------------------------------------
(* The state of a call as one value.                                       *)

Shape(c) == c = [leg |-> [u \in Legs |-> c.leg[u]], held |-> c.held]

LEMMA LegsAre == Legs = {"A", "O"} /\ Peer("A") = "O" /\ Peer("O") = "A"
BY DEF Legs, Peer

LEMMA CallShape ==
    ASSUME NEW c \in CallType
    PROVE  Shape(c) /\ c.leg \in [Legs -> LegType] /\ c.held \in Seq(HeldType)
           /\ \A u \in Legs : c.leg[u] \in LegType
BY DEF CallType, Shape

LEMMA WithLegFacts ==
    ASSUME NEW c, Shape(c), NEW u \in Legs, NEW l
    PROVE  /\ Shape(WithLeg(c, u, l))
           /\ WithLeg(c, u, l).leg[u] = l
           /\ \A v \in Legs : v # u => WithLeg(c, u, l).leg[v] = c.leg[v]
           /\ WithLeg(c, u, l).held = c.held
BY DEF Shape, WithLeg

LEMMA WithHeldFacts ==
    ASSUME NEW c, Shape(c), NEW h
    PROVE  /\ Shape(WithHeld(c, h))
           /\ WithHeld(c, h).leg = c.leg
           /\ WithHeld(c, h).held = h
BY DEF Shape, WithHeld

LEMMA ShapesEqual ==
    ASSUME NEW c, Shape(c), NEW d, Shape(d), c.held = d.held,
           \A u \in Legs : c.leg[u] = d.leg[u]
    PROVE  c = d
<1>1. [u \in Legs |-> c.leg[u]] = [u \in Legs |-> d.leg[u]]
  OBVIOUS
<1> QED BY <1>1 DEF Shape

LEMMA WithLegTwice ==
    ASSUME NEW c, Shape(c), NEW u \in Legs, NEW l, NEW m
    PROVE  /\ WithLeg(WithLeg(c, u, l), u, m) = WithLeg(c, u, m)
           /\ WithLeg(c, u, c.leg[u]) = c
<1>1. /\ Shape(WithLeg(c, u, l)) /\ WithLeg(c, u, l).held = c.held
      /\ \A v \in Legs : v # u => WithLeg(c, u, l).leg[v] = c.leg[v]
  BY WithLegFacts
<1>2. /\ Shape(WithLeg(WithLeg(c, u, l), u, m)) /\ WithLeg(WithLeg(c, u, l), u, m).held = c.held
      /\ \A v \in Legs : WithLeg(WithLeg(c, u, l), u, m).leg[v] = IF v = u THEN m ELSE c.leg[v]
  BY <1>1, WithLegFacts
<1>3. /\ Shape(WithLeg(c, u, m)) /\ WithLeg(c, u, m).held = c.held
      /\ \A v \in Legs : WithLeg(c, u, m).leg[v] = IF v = u THEN m ELSE c.leg[v]
  BY WithLegFacts
<1>4. /\ Shape(WithLeg(c, u, c.leg[u])) /\ WithLeg(c, u, c.leg[u]).held = c.held
      /\ \A v \in Legs : WithLeg(c, u, c.leg[u]).leg[v] = c.leg[v]
  BY WithLegFacts
<1> QED BY <1>2, <1>3, <1>4, ShapesEqual

LEMMA CallOKWithLeg ==
    ASSUME NEW c, CallOK(c), NEW u \in Legs, NEW l, LegOK(l)
    PROVE  CallOK(WithLeg(c, u, l))
<1>1. Shape(c) /\ c.leg \in [Legs -> LegType] /\ c.held \in Seq(HeldType)
  BY CallShape DEF CallOK
<1>2. \A v \in Legs : WithLeg(c, u, l).leg[v] = IF v = u THEN l ELSE c.leg[v]
  BY <1>1, WithLegFacts
<1>3. \A v \in Legs : LegOK(WithLeg(c, u, l).leg[v])
  BY <1>2 DEF CallOK
<1>4. WithLeg(c, u, l) = [leg |-> [v \in Legs |-> WithLeg(c, u, l).leg[v]], held |-> c.held]
  BY <1>1, WithLegFacts DEF Shape
<1>5. [v \in Legs |-> WithLeg(c, u, l).leg[v]] \in [Legs -> LegType]
  BY <1>3 DEF LegOK
<1>6. WithLeg(c, u, l) \in CallType
  BY <1>1, <1>4, <1>5 DEF CallType
<1> QED BY <1>3, <1>6 DEF CallOK

LEMMA CallOKWithHeld ==
    ASSUME NEW c, CallOK(c), NEW h \in Seq(HeldType)
    PROVE  CallOK(WithHeld(c, h))
<1>1. Shape(c) /\ c.leg \in [Legs -> LegType] /\ c.held \in Seq(HeldType)
  BY CallShape DEF CallOK
<1>2. WithHeld(c, h).leg = c.leg /\ WithHeld(c, h) = [leg |-> c.leg, held |-> h]
  BY <1>1 DEF WithHeld, Shape
<1> QED BY <1>1, <1>2 DEF CallOK, CallType

-----------------------------------------------------------------------------
(* One leg.                                                                *)

LEMMA EnvType ==
    ASSUME env \in Environments
    PROVE  env.rtpp \in {"no", "good", "bad"} /\ env.far \in {"good", "bad"} /\ env.ka \in SUBSET Legs
BY DEF Environments, Legs

LEMMA LeaveFacts ==
    ASSUME NEW l \in LegType
    PROVE  LET m == LeaveConnected(l) IN
           /\ m \in LegType /\ m.ka = "off"
           /\ m.st = l.st /\ m.lsdp = l.lsdp /\ m.rsdp = l.rsdp /\ m.inv = l.inv /\ m.cb = l.cb
           /\ m.told = l.told /\ m.refer = l.refer /\ m.byes = l.byes /\ m.eq = l.eq
<1>1. PICK b \in BOOLEAN : b = (l.old \/ (l.st = "Connected" /\ l.ka = "timer"))
  BY Zenon
<1>2. LeaveConnected(l) = [l EXCEPT !.ka = "off", !.old = b]
  BY <1>1, Zenon DEF LeaveConnected
<1> QED BY <1>2 DEF LegType

LEMMA EnterConnectedFacts ==
    ASSUME NEW l \in LegType, NEW u
    PROVE  LET m == EnterConnected(l, u) IN
           /\ m \in LegType /\ m.st = "Connected"
           /\ m.lsdp = l.lsdp /\ m.rsdp = l.rsdp /\ m.inv = l.inv /\ m.cb = l.cb
           /\ m.told = l.told /\ m.refer = l.refer /\ m.byes = l.byes /\ m.eq = l.eq
<1>1. PICK b \in BOOLEAN : b = TRUE
  BY Zenon
<1>2. PICK k \in {"off", "timer"} : k = IF u \in env.ka THEN "timer" ELSE "off"
  OBVIOUS
<1>3. EnterConnected(l, u) = [l EXCEPT !.st = "Connected", !.first = b, !.ka = k]
  BY <1>1, <1>2, Zenon DEF EnterConnected
<1> QED BY <1>3 DEF LegType

LEMMA ByeFacts ==
    ASSUME NEW l \in LegType
    PROVE  LET m == SendBye(l) IN
           /\ m \in LegType /\ m.byes > 0
           /\ m.st = l.st /\ m.lsdp = l.lsdp /\ m.rsdp = l.rsdp /\ m.inv = l.inv /\ m.cb = l.cb
           /\ m.ka = l.ka /\ m.told = l.told /\ m.refer = l.refer /\ m.eq = l.eq
BY DEF LegType, SendBye

LEMMA EnterDisconnectedFacts ==
    ASSUME NEW l \in LegType
    PROVE  LET m == EnterDisconnected(l) IN
           /\ m \in LegType /\ m.st = "Disconnected" /\ m.ka = "off"
           /\ m.lsdp = l.lsdp /\ m.rsdp = l.rsdp /\ m.inv = l.inv /\ m.cb = l.cb
           /\ m.told = l.told /\ m.refer = l.refer /\ m.byes = l.byes /\ m.eq = l.eq
<1> DEFINE m == LeaveConnected(l)
<1>1. /\ m \in LegType /\ m.ka = "off"
      /\ m.lsdp = l.lsdp /\ m.rsdp = l.rsdp /\ m.inv = l.inv /\ m.cb = l.cb
      /\ m.told = l.told /\ m.refer = l.refer /\ m.byes = l.byes /\ m.eq = l.eq
  BY LeaveFacts
<1> HIDE DEF m
<1>2. EnterDisconnected(l) = [m EXCEPT !.st = "Disconnected"]
  BY DEF EnterDisconnected, m
<1> QED BY <1>1, <1>2 DEF LegType

LEMMA FinalFacts ==
    ASSUME NEW l \in LegType
    PROVE  LET m == WithFinal(l) IN
           /\ m \in LegType /\ m.inv = "final"
           /\ m.st = l.st /\ m.lsdp = l.lsdp /\ m.rsdp = l.rsdp /\ m.cb = l.cb
           /\ m.ka = l.ka /\ m.told = l.told /\ m.refer = l.refer /\ m.byes = l.byes /\ m.eq = l.eq
BY DEF LegType, WithFinal

LEMMA SdpFacts ==
    ASSUME NEW l \in LegType, NEW b \in Sdp
    PROVE  /\ LET m == [l EXCEPT !.lsdp = b] IN
              /\ m \in LegType /\ m.lsdp = b
              /\ m.st = l.st /\ m.rsdp = l.rsdp /\ m.inv = l.inv /\ m.cb = l.cb
              /\ m.ka = l.ka /\ m.told = l.told /\ m.refer = l.refer /\ m.byes = l.byes /\ m.eq = l.eq
           /\ LET m == [l EXCEPT !.rsdp = b] IN
              /\ m \in LegType /\ m.rsdp = b
              /\ m.st = l.st /\ m.lsdp = l.lsdp /\ m.inv = l.inv /\ m.cb = l.cb
              /\ m.ka = l.ka /\ m.told = l.told /\ m.refer = l.refer /\ m.byes = l.byes /\ m.eq = l.eq
BY DEF LegType

\* The fields that only the leg itself looks at.
Same(m, l) ==
    /\ m \in LegType
    /\ m.st = l.st /\ m.lsdp = l.lsdp /\ m.rsdp = l.rsdp /\ m.inv = l.inv
    /\ m.ka = l.ka /\ m.byes = l.byes /\ m.eq = l.eq

LEMMA FlagFacts ==
    ASSUME NEW l \in LegType, NEW b \in BOOLEAN
    PROVE  /\ Same([l EXCEPT !.out = b], l)   /\ Same([l EXCEPT !.refer = b], l)
           /\ Same([l EXCEPT !.told = b], l)  /\ Same([l EXCEPT !.cb = b], l)
           /\ Same([l EXCEPT !.last = b], l)  /\ Same([l EXCEPT !.old = b], l)
           /\ Same([l EXCEPT !.first = b], l)
           /\ [l EXCEPT !.refer = b].refer = b /\ [l EXCEPT !.told = b].told = b
           /\ [l EXCEPT !.cb = b].cb = b
BY DEF LegType, Same

\* What the others need to know of the flags.
LEMMA OtherFlags ==
    ASSUME NEW l \in LegType, NEW b \in BOOLEAN
    PROVE  /\ [l EXCEPT !.out = b].told = l.told /\ [l EXCEPT !.out = b].refer = l.refer
           /\ [l EXCEPT !.out = b].cb = l.cb
           /\ [l EXCEPT !.cb = b].told = l.told /\ [l EXCEPT !.cb = b].refer = l.refer
           /\ [l EXCEPT !.last = b].told = l.told /\ [l EXCEPT !.last = b].refer = l.refer
           /\ [l EXCEPT !.last = b].cb = l.cb
           /\ [l EXCEPT !.old = b].told = l.told /\ [l EXCEPT !.old = b].refer = l.refer
           /\ [l EXCEPT !.old = b].cb = l.cb
           /\ [l EXCEPT !.told = b].refer = l.refer /\ [l EXCEPT !.told = b].cb = l.cb
           /\ [l EXCEPT !.refer = b].told = l.told /\ [l EXCEPT !.refer = b].cb = l.cb
BY DEF LegType

LEMMA QueueFacts ==
    ASSUME NEW l \in LegType, NEW q
    PROVE  LET m == [l EXCEPT !.eq = q] IN
           /\ q \in Seq(EventType(EventKinds \ {"Update", "Spent"})) => m \in LegType
           /\ m.eq = q
           /\ m.st = l.st /\ m.lsdp = l.lsdp /\ m.rsdp = l.rsdp /\ m.inv = l.inv /\ m.cb = l.cb
           /\ m.ka = l.ka /\ m.told = l.told /\ m.refer = l.refer /\ m.byes = l.byes
           /\ \A p : [m EXCEPT !.eq = p] = [l EXCEPT !.eq = p]
           /\ [m EXCEPT !.eq = l.eq] = l
BY DEF LegType

-----------------------------------------------------------------------------
(* What every handler keeps.                                               *)

QueueType == EventType(EventKinds \ {"Update", "Spent"})

\* Result r of a handler of leg u.
Kept(c, u, r) ==
    /\ CallOK(r.c)
    /\ r.c.leg[Peer(u)] = c.leg[Peer(u)]
    /\ r.c.leg[u].eq = c.leg[u].eq
    /\ Stuck(c.leg[u]) => Stuck(r.c.leg[u])

\* What it says to the other leg.
Answers(r) ==
    r.q = <<>> \/ (~r.raised /\ \E x \in EventType({"Connect", "Fail"}) : r.q = <<x>>)

LEMMA ResultFacts ==
    ASSUME NEW c
    PROVE  /\ Done(c).c = c /\ Done(c).q = <<>> /\ ~Done(c).raised
           /\ Raises(c).c = c /\ Raises(c).q = <<>> /\ Raises(c).raised
BY DEF Done, Raises

LEMMA SaysFacts ==
    ASSUME NEW c, NEW x
    PROVE  Says(c, x).c = c /\ Says(c, x).q = <<x>> /\ ~Says(c, x).raised
BY DEF Says

LEMMA CallOKFacts ==
    ASSUME NEW c, CallOK(c)
    PROVE  /\ Shape(c) /\ c.held \in Seq(HeldType)
           /\ \A u \in Legs : LegOK(c.leg[u]) /\ c.leg[u] \in LegType
BY CallShape DEF CallOK, LegOK

LEMMA PeerFacts == \A u \in Legs : Peer(u) \in Legs /\ Peer(u) # u /\ Peer(Peer(u)) = u
BY DEF Legs, Peer

LEMMA KeptSame ==
    ASSUME NEW c, CallOK(c), NEW u \in Legs, NEW x
    PROVE  Kept(c, u, Done(c)) /\ Kept(c, u, Raises(c)) /\ Kept(c, u, Says(c, x))
BY ResultFacts, SaysFacts DEF Kept

LEMMA KeptLeg ==
    ASSUME NEW c, CallOK(c), NEW u \in Legs, NEW m, LegOK(m), m.eq = c.leg[u].eq,
           Stuck(c.leg[u]) => Stuck(m)
    PROVE  Kept(c, u, Done(WithLeg(c, u, m))) /\ Kept(c, u, Raises(WithLeg(c, u, m)))
<1>1. Shape(c) /\ Peer(u) \in Legs /\ Peer(u) # u
  BY CallOKFacts, PeerFacts
<1>2. CallOK(WithLeg(c, u, m))
  BY CallOKWithLeg
<1>3. WithLeg(c, u, m).leg[u] = m /\ WithLeg(c, u, m).leg[Peer(u)] = c.leg[Peer(u)]
  BY <1>1, WithLegFacts
<1> QED BY <1>2, <1>3, ResultFacts DEF Kept

LEMMA HoldFacts ==
    ASSUME NEW c, CallOK(c), NEW dir \in {"local", "remote"}, NEW e \in EventType(EventKinds)
    PROVE  /\ CallOK(Hold(c, dir, e)) /\ Hold(c, dir, e).leg = c.leg
           /\ Hold(c, dir, e).held = Append(c.held, [dir |-> dir, ev |-> e, late |-> FALSE])
<1>1. Shape(c) /\ c.held \in Seq(HeldType)
  BY CallOKFacts
<1>2. [dir |-> dir, ev |-> e, late |-> FALSE] \in HeldType
  BY DEF HeldType
<1>3. Append(c.held, [dir |-> dir, ev |-> e, late |-> FALSE]) \in Seq(HeldType)
  BY <1>1, <1>2
<1> QED BY <1>1, <1>3, WithHeldFacts, CallOKWithHeld DEF Hold

LEMMA KeptHold ==
    ASSUME NEW c, CallOK(c), NEW u \in Legs, NEW e \in EventType(EventKinds)
    PROVE  Kept(c, u, Done(Hold(c, "local", e)))
<1>1. CallOK(Hold(c, "local", e)) /\ Hold(c, "local", e).leg = c.leg
  BY HoldFacts
<1> QED BY <1>1, ResultFacts DEF Kept

LEMMA ProxiedOutcomes ==
    ASSUME env \in Environments, NEW u, NEW e, Proxied(u, e), NEW o \in Outcomes
    PROVE  u = "O" /\ o \in {"later", "error", "never"}
BY EnvType DEF Proxied, Outcomes

LEMMA BodyTypes ==
    /\ Event("Fail", "none") \in QueueType /\ Event("Disconnect", "none") \in QueueType
    /\ Event("Redirect", "none") \in QueueType /\ Event("Info", "none") \in QueueType
    /\ [Event("Disconnect", "none") EXCEPT !.also = TRUE] \in QueueType
    /\ Event("Fail", "none") \in EventType({"Connect", "Fail"})
    /\ \A b \in Sdp : /\ Event("Connect", b) \in EventType({"Connect", "Fail"})
                      /\ Event("Ring", b) \in QueueType /\ Event("Connect", b) \in QueueType
                      /\ Event("Update", b) \in EventType(EventKinds)
                      /\ Event("Spent", b) \in EventType(EventKinds)
    /\ "none" \in Sdp /\ "hold" \in Sdp
BY DEF Event, EventType, EventKinds, QueueType, Ends, Sdp

LEMMA TypesWiden ==
    ASSUME NEW e
    PROVE  /\ e \in QueueType => e \in EventType(EventKinds) /\ e.kind \notin {"Update", "Spent"}
           /\ e \in EventType({"Connect", "Fail"}) =>
                 e \in QueueType /\ e.kind \in {"Connect", "Fail"}
           /\ e \in EventType(EventKinds) => e.body \in Sdp /\ e.kind \in EventKinds
BY DEF EventType, EventKinds, QueueType, Ends

LEMMA ConnectedEndsKept ==
    ASSUME NEW c, CallOK(c), NEW u \in Legs, NEW e, c.leg[u].st = "Connected"
    PROVE  LET r == ConnectedEnds(c, u, e) IN
           Kept(c, u, r) /\ r.q = <<>> /\ ~r.raised /\ r.c.leg[u].st = "Disconnected"
           /\ r.c.leg[u].inv = c.leg[u].inv /\ r.c.held = c.held
<1> DEFINE l == c.leg[u]
           k == IF e.also \/ e.kind = "Redirect" THEN [l EXCEPT !.refer = TRUE] ELSE SendBye(l)
           m == EnterDisconnected(k)
<1>1. l \in LegType /\ LegOK(l) /\ Shape(c)
  BY CallOKFacts
<1>2. k \in LegType /\ (k.refer \/ k.byes > 0) /\ k.eq = l.eq /\ k.inv = l.inv
  <2>1. CASE e.also \/ e.kind = "Redirect"
    <3>1. PICK b \in BOOLEAN : b = TRUE
      BY Zenon
    <3>2. k = [l EXCEPT !.refer = b]
      BY <2>1, <3>1, Zenon
    <3> HIDE DEF k, l
    <3>3. Same(k, l) /\ k.refer = b
      BY <1>1, <3>2, FlagFacts
    <3> QED BY <3>1, <3>3 DEF Same
  <2>2. CASE ~(e.also \/ e.kind = "Redirect")
    BY <1>1, <2>2, ByeFacts
  <2> QED BY <2>1, <2>2
<1> HIDE DEF k
<1>3. /\ m \in LegType /\ m.st = "Disconnected" /\ m.ka = "off" /\ m.eq = l.eq /\ m.inv = l.inv
      /\ m.refer = k.refer /\ m.byes = k.byes
  BY <1>2, EnterDisconnectedFacts
<1>4. LegOK(m) /\ Stuck(m)
  BY <1>2, <1>3 DEF LegOK, Stuck, Ended
<1>5. ConnectedEnds(c, u, e) = Done(WithLeg(c, u, m))
  BY DEF ConnectedEnds, k
<1> HIDE DEF m, l
<1>6. Kept(c, u, Done(WithLeg(c, u, m)))
  BY <1>3, <1>4, KeptLeg DEF l
<1>7. WithLeg(c, u, m).leg[u] = m /\ WithLeg(c, u, m).held = c.held
  BY <1>1, WithLegFacts
<1> QED BY <1>3, <1>5, <1>6, <1>7, ResultFacts DEF l

LEMMA ConnectedUpdateKept ==
    ASSUME env \in Environments, NEW o \in Outcomes, NEW c, CallOK(c), NEW u \in Legs,
           NEW e \in EventType(EventKinds), c.leg[u].st = "Connected"
    PROVE  LET r == ConnectedUpdate(c, u, e, o) IN Kept(c, u, r) /\ Answers(r)
<1> DEFINE l == c.leg[u]
           m == LeaveConnected(l)
           m2 == [m EXCEPT !.st = "UacUpdating"]
           n == [m EXCEPT !.st = "UacUpdating", !.lsdp = e.body, !.out = TRUE]
<1>1. l \in LegType /\ LegOK(l) /\ Shape(c) /\ e.body \in Sdp /\ l.rsdp \in Sdp
  BY CallOKFacts, TypesWiden DEF LegType
<1>2. LegOK(n) /\ n.eq = l.eq /\ ~Stuck(l)
  <2>1. ~Stuck(l)
    BY DEF Stuck, Ended
  <2>2. m \in LegType /\ m.ka = "off" /\ m.eq = l.eq
    BY <1>1, LeaveFacts
  <2> HIDE DEF m
  <2>3. PICK b \in BOOLEAN : b = TRUE
    BY Zenon
  <2>4. n = [m EXCEPT !.st = "UacUpdating", !.lsdp = e.body, !.out = b]
    BY <2>3, Zenon
  <2> HIDE DEF n, l
  <2>5. n \in LegType /\ n.ka = "off" /\ n.eq = l.eq /\ n.st = "UacUpdating"
    BY <1>1, <2>2, <2>4 DEF LegType
  <2> QED BY <1>1, <2>1, <2>5 DEF LegOK, Ended
<1> DEFINE r == ConnectedUpdate(c, u, e, o)
<1> SUFFICES Kept(c, u, r) /\ Answers(r)
  OBVIOUS
<1>3. CASE l.lsdp = "none"
  <2>1. r = Raises(c)
    BY <1>3 DEF ConnectedUpdate
  <2> HIDE DEF r
  <2> QED BY <2>1, KeptSame, ResultFacts DEF Answers
<1>4. CASE l.lsdp # "none" /\ l.lsdp = e.body
  <2>1. r = Says(c, Event("Connect", l.rsdp))
    BY <1>4 DEF ConnectedUpdate
  <2>2. Event("Connect", l.rsdp) \in EventType({"Connect", "Fail"})
    BY <1>1, BodyTypes
  <2> HIDE DEF r
  <2> QED BY <2>1, <2>2, KeptSame, SaysFacts DEF Answers
<1>5. CASE l.lsdp # "none" /\ l.lsdp # e.body /\ Proxied(u, e)
  <2>1. o \in {"later", "error", "never"}
    BY <1>5, ProxiedOutcomes
  <2>2. CASE o = "later"
    <3>1. r = Done(Hold(c, "local", e))
      BY <1>5, <2>2 DEF ConnectedUpdate
    <3> HIDE DEF r
    <3> QED BY <3>1, KeptHold, ResultFacts DEF Answers
  <2>3. CASE o = "error"
    <3>1. r = Says(c, Event("Fail", "none"))
      BY <1>5, <2>3 DEF ConnectedUpdate
    <3> HIDE DEF r
    <3> QED BY <3>1, BodyTypes, KeptSame, SaysFacts DEF Answers
  <2>4. CASE o = "never"
    <3>1. r = Done(c)
      BY <1>5, <2>4 DEF ConnectedUpdate
    <3> HIDE DEF r
    <3> QED BY <3>1, KeptSame, ResultFacts DEF Answers
  <2> QED BY <2>1, <2>2, <2>3, <2>4
<1>6. CASE l.lsdp # "none" /\ l.lsdp # e.body /\ ~Proxied(u, e) /\ e.kind = "Spent"
  <2>1. r = Says(c, Event("Fail", "none"))
    BY <1>6 DEF ConnectedUpdate
  <2> HIDE DEF r
  <2> QED BY <2>1, BodyTypes, KeptSame, SaysFacts DEF Answers
<1>7. CASE l.lsdp # "none" /\ l.lsdp # e.body /\ ~Proxied(u, e) /\ e.kind # "Spent"
  <2>1. r = Done(WithLeg(c, u, n))
    BY <1>7 DEF ConnectedUpdate
  <2> HIDE DEF r, n
  <2>2. Kept(c, u, Done(WithLeg(c, u, n)))
    BY <1>2, KeptLeg
  <2> QED BY <2>1, <2>2, ResultFacts DEF Answers
<1> QED BY <1>3, <1>4, <1>5, <1>6, <1>7

LEMMA UacUpdatingEndsKept ==
    ASSUME NEW c, CallOK(c), NEW u \in Legs, c.leg[u].st = "UacUpdating"
    PROVE  LET r == UacUpdatingEnds(c, u) IN
           Kept(c, u, r) /\ r.q = <<>> /\ ~r.raised /\ r.c.leg[u].st = "Disconnected"
           /\ r.c.leg[u].inv = c.leg[u].inv /\ r.c.held = c.held
<1> DEFINE l == c.leg[u]
           k == [l EXCEPT !.out = FALSE]
           m == EnterDisconnected(SendBye(k))
<1>1. l \in LegType /\ LegOK(l) /\ Shape(c)
  BY CallOKFacts
<1>2. k \in LegType /\ k.eq = l.eq /\ k.inv = l.inv
  <2>1. PICK b \in BOOLEAN : b = FALSE
    BY Zenon
  <2>2. k = [l EXCEPT !.out = b]
    BY <2>1, Zenon
  <2> HIDE DEF k, l
  <2> QED BY <1>1, <2>2, FlagFacts DEF Same
<1> HIDE DEF k
<1>3. SendBye(k) \in LegType /\ SendBye(k).byes > 0 /\ SendBye(k).eq = k.eq /\ SendBye(k).inv = k.inv
  BY <1>2, ByeFacts
<1>4. /\ m \in LegType /\ m.st = "Disconnected" /\ m.ka = "off" /\ m.eq = k.eq /\ m.inv = k.inv
      /\ m.byes > 0
  BY <1>3, EnterDisconnectedFacts
<1>5. LegOK(m) /\ Stuck(m)
  BY <1>4 DEF LegOK, Stuck, Ended
<1>6. UacUpdatingEnds(c, u) = Done(WithLeg(c, u, m))
  BY DEF UacUpdatingEnds, k
<1> HIDE DEF m, l
<1>7. Kept(c, u, Done(WithLeg(c, u, m)))
  BY <1>2, <1>4, <1>5, KeptLeg DEF l
<1>8. WithLeg(c, u, m).leg[u] = m /\ WithLeg(c, u, m).held = c.held
  BY <1>1, WithLegFacts
<1> QED BY <1>2, <1>4, <1>6, <1>7, <1>8, ResultFacts DEF l

LEMMA AtProxyKept ==
    ASSUME env \in Environments, NEW o \in Outcomes, NEW c, CallOK(c), NEW u \in Legs,
           NEW e \in EventType(EventKinds), Proxied(u, e)
    PROVE  LET r == AtProxy(c, e, o) IN Kept(c, u, r) /\ r.q = <<>>
<1> DEFINE r == AtProxy(c, e, o)
<1> SUFFICES Kept(c, u, r) /\ r.q = <<>>
  OBVIOUS
<1>1. o \in {"later", "error", "never"}
  BY ProxiedOutcomes
<1>2. r = Done(Hold(c, "local", e)) \/ r = Raises(c) \/ r = Done(c)
  BY <1>1 DEF AtProxy
<1> HIDE DEF r
<1> QED BY <1>2, KeptHold, KeptSame, ResultFacts

LEMMA WithLocalFacts ==
    ASSUME NEW c, CallOK(c), NEW u \in Legs, NEW b \in Sdp
    PROVE  LET d == WithLocal(c, u, b) IN
           /\ CallOK(d) /\ d.held = c.held /\ d.leg[u] \in LegType /\ d.leg[u].lsdp = b
           /\ d.leg[u].st = c.leg[u].st /\ d.leg[u].inv = c.leg[u].inv /\ d.leg[u].eq = c.leg[u].eq
           /\ d.leg[u].rsdp = c.leg[u].rsdp /\ d.leg[u].cb = c.leg[u].cb
           /\ d.leg[Peer(u)] = c.leg[Peer(u)]
<1> DEFINE l == c.leg[u]
           m == [l EXCEPT !.lsdp = b]
<1>1. l \in LegType /\ LegOK(l) /\ Shape(c)
  BY CallOKFacts
<1> HIDE DEF l
<1>2. /\ m \in LegType /\ m.lsdp = b
      /\ m.st = l.st /\ m.rsdp = l.rsdp /\ m.inv = l.inv /\ m.cb = l.cb
      /\ m.ka = l.ka /\ m.told = l.told /\ m.refer = l.refer /\ m.byes = l.byes /\ m.eq = l.eq
  BY <1>1, SdpFacts
<1>3. WithLocal(c, u, b) = WithLeg(c, u, m)
  BY DEF WithLocal, l
<1> HIDE DEF m
<1>4. LegOK(m)
  BY <1>1, <1>2 DEF LegOK, Stuck
<1>5. CallOK(WithLeg(c, u, m))
  BY <1>4, CallOKWithLeg
<1>6. /\ WithLeg(c, u, m).leg[u] = m /\ WithLeg(c, u, m).held = c.held
      /\ WithLeg(c, u, m).leg[Peer(u)] = c.leg[Peer(u)]
  BY <1>1, WithLegFacts, PeerFacts
<1> QED BY <1>2, <1>3, <1>5, <1>6 DEF l, m

\* Entering the connected state with a final response to the re-INVITE.
LEMMA AnsweredFacts ==
    ASSUME NEW l, LegOK(l), NEW u, l.inv = "open", l.st = "UasUpdating"
    PROVE  LET m == EnterConnected(WithFinal(l), u) IN
           /\ LegOK(m) /\ m.st = "Connected" /\ m.inv = "final" /\ m.eq = l.eq /\ m.eq = <<>>
           /\ m.lsdp = l.lsdp /\ m.rsdp = l.rsdp /\ m.cb = l.cb
<1>1. l \in LegType /\ l.eq = <<>>
  BY DEF LegOK, Stuck, Ended
<1>2. /\ WithFinal(l) \in LegType /\ WithFinal(l).inv = "final" /\ WithFinal(l).eq = l.eq
      /\ WithFinal(l).lsdp = l.lsdp /\ WithFinal(l).rsdp = l.rsdp /\ WithFinal(l).cb = l.cb
  BY <1>1, FinalFacts
<1> QED BY <1>1, <1>2, EnterConnectedFacts DEF LegOK, Stuck, Ended

LEMMA UasUpdatingRingKept ==
    ASSUME env \in Environments, NEW o \in Outcomes, NEW c, CallOK(c), NEW u \in Legs,
           NEW e \in EventType(EventKinds), c.leg[u].st = "UasUpdating"
    PROVE  LET r == UasUpdatingRing(c, u, e, o) IN Kept(c, u, r) /\ r.q = <<>>
<1> DEFINE r == UasUpdatingRing(c, u, e, o)
           d == WithLocal(c, u, e.body)
<1> SUFFICES Kept(c, u, r) /\ r.q = <<>>
  OBVIOUS
<1>1. CASE Proxied(u, e)
  <2>1. r = AtProxy(c, e, o)
    BY <1>1 DEF UasUpdatingRing
  <2> HIDE DEF r
  <2> QED BY <1>1, <2>1, AtProxyKept
<1>2. CASE ~Proxied(u, e)
  <2>1. r = Raises(d)
    BY <1>2 DEF UasUpdatingRing
  <2>2. e.body \in Sdp
    BY TypesWiden
  <2>3. /\ CallOK(d) /\ d.leg[u].st = c.leg[u].st /\ d.leg[u].inv = c.leg[u].inv
        /\ d.leg[u].eq = c.leg[u].eq /\ d.leg[Peer(u)] = c.leg[Peer(u)]
    BY <2>2, WithLocalFacts
  <2> HIDE DEF r, d
  <2> QED BY <2>1, <2>3, ResultFacts DEF Kept, Stuck
<1> QED BY <1>1, <1>2

LEMMA UasUpdatingRedirectKept ==
    ASSUME NEW c, CallOK(c), NEW u \in Legs, c.leg[u].st = "UasUpdating"
    PROVE  LET r == UasUpdatingRedirect(c, u) IN Kept(c, u, r) /\ r.q = <<>>
<1> DEFINE r == UasUpdatingRedirect(c, u)
           l == c.leg[u]
           m == WithFinal(l)
<1> SUFFICES Kept(c, u, r) /\ r.q = <<>>
  OBVIOUS
<1>1. CASE l.inv = "open"
  <2>1. r = Raises(WithLeg(c, u, m))
    BY <1>1 DEF UasUpdatingRedirect
  <2>2. l \in LegType /\ LegOK(l)
    BY CallOKFacts
  <2>3. /\ m \in LegType /\ m.st = l.st /\ m.ka = l.ka /\ m.eq = l.eq
    BY <2>2, FinalFacts
  <2>4. l.eq = <<>> /\ l.ka = "off"
    BY <1>1, <2>2 DEF LegOK, Stuck, Ended, LegType
  <2> HIDE DEF r, m
  <2>5. LegOK(m)
    BY <2>3, <2>4 DEF LegOK, Ended
  <2>6. ~Stuck(l)
    BY <1>1 DEF Stuck, Ended
  <2>7. Kept(c, u, Raises(WithLeg(c, u, m)))
    BY <2>3, <2>5, <2>6, KeptLeg
  <2> QED BY <2>1, <2>7, ResultFacts
<1>2. CASE l.inv # "open"
  <2>1. r = Raises(c)
    BY <1>2 DEF UasUpdatingRedirect
  <2> HIDE DEF r
  <2> QED BY <2>1, KeptSame, ResultFacts
<1> QED BY <1>1, <1>2

LEMMA UasUpdatingConnectKept ==
    ASSUME env \in Environments, NEW o \in Outcomes, NEW c, CallOK(c), NEW u \in Legs,
           NEW e \in EventType(EventKinds), c.leg[u].st = "UasUpdating"
    PROVE  LET r == UasUpdatingConnect(c, u, e, o) IN Kept(c, u, r) /\ r.q = <<>>
<1> DEFINE r == UasUpdatingConnect(c, u, e, o)
           d == WithLocal(c, u, e.body)
           m == EnterConnected(WithFinal(d.leg[u]), u)
<1> SUFFICES Kept(c, u, r) /\ r.q = <<>>
  OBVIOUS
<1>1. CASE Proxied(u, e)
  <2>1. r = AtProxy(c, e, o)
    BY <1>1 DEF UasUpdatingConnect
  <2> HIDE DEF r
  <2> QED BY <1>1, <2>1, AtProxyKept
<1>2. CASE ~Proxied(u, e)
  <2>1. e.body \in Sdp
    BY TypesWiden
  <2>2. /\ CallOK(d) /\ d.leg[u].st = c.leg[u].st /\ d.leg[u].inv = c.leg[u].inv
        /\ d.leg[u].eq = c.leg[u].eq /\ d.leg[Peer(u)] = c.leg[Peer(u)]
    BY <2>1, WithLocalFacts
  <2>3. CASE c.leg[u].inv # "open"
    <3>1. r = Raises(d)
      BY <1>2, <2>3 DEF UasUpdatingConnect
    <3> HIDE DEF r, d
    <3> QED BY <2>2, <3>1, ResultFacts DEF Kept, Stuck
  <2>4. CASE c.leg[u].inv = "open"
    <3>1. r = Done(WithLeg(d, u, m))
      BY <1>2, <2>4 DEF UasUpdatingConnect
    <3> HIDE DEF r, d
    <3>2. LegOK(d.leg[u])
      BY <2>2, CallOKFacts
    <3>3. LegOK(m) /\ m.eq = d.leg[u].eq
      BY <2>2, <2>4, <3>2, AnsweredFacts
    <3> HIDE DEF m
    <3>4. ~Stuck(c.leg[u]) /\ ~Stuck(d.leg[u])
      BY <2>2, <2>4 DEF Stuck, Ended
    <3>5. Kept(d, u, Done(WithLeg(d, u, m)))
      BY <2>2, <3>3, <3>4, KeptLeg
    <3> QED BY <2>2, <3>1, <3>4, <3>5, ResultFacts DEF Kept
  <2> QED BY <2>3, <2>4
<1> QED BY <1>1, <1>2

LEMMA UasUpdatingFailKept ==
    ASSUME NEW c, CallOK(c), NEW u \in Legs, c.leg[u].st = "UasUpdating"
    PROVE  LET r == UasUpdatingFail(c, u) IN Kept(c, u, r) /\ r.q = <<>>
<1> DEFINE r == UasUpdatingFail(c, u)
           k == c.leg[u]
           l == [k EXCEPT !.rsdp = "none"]
           m == EnterConnected(WithFinal(l), u)
<1> SUFFICES Kept(c, u, r) /\ r.q = <<>>
  OBVIOUS
<1>1. k \in LegType /\ LegOK(k)
  BY CallOKFacts
<1>2. /\ l \in LegType /\ l.st = k.st /\ l.inv = k.inv
      /\ l.ka = k.ka /\ l.told = k.told /\ l.refer = k.refer /\ l.byes = k.byes /\ l.eq = k.eq
  <2> HIDE DEF k
  <2> QED BY <1>1, SdpFacts, BodyTypes
<1>3. r = IF l.inv = "open" THEN Done(WithLeg(c, u, m)) ELSE Raises(WithLeg(c, u, l))
  BY DEF UasUpdatingFail
<1> HIDE DEF r, l
<1>4. LegOK(l)
  BY <1>1, <1>2 DEF LegOK, Stuck
<1>5. Stuck(k) => Stuck(l)
  BY <1>2 DEF Stuck
<1>6. CASE l.inv = "open"
  <2>1. LegOK(m) /\ m.eq = k.eq
    BY <1>2, <1>4, <1>6, AnsweredFacts
  <2>2. ~Stuck(k)
    BY <1>2, <1>6 DEF Stuck, Ended
  <2> HIDE DEF m
  <2> QED BY <1>3, <1>6, <2>1, <2>2, KeptLeg, ResultFacts
<1>7. CASE l.inv # "open"
  BY <1>2, <1>3, <1>4, <1>5, <1>7, KeptLeg, ResultFacts
<1> QED BY <1>6, <1>7

\* The end of a leg that owes an answer: it gives a final response first.
LEMMA FinalByeFacts ==
    ASSUME NEW l \in LegType
    PROVE  LET m == EnterDisconnected(SendBye(WithFinal(l))) IN
           /\ LegOK(m) /\ m.st = "Disconnected" /\ m.inv = "final" /\ m.eq = l.eq /\ Stuck(m)
<1>1. WithFinal(l) \in LegType /\ WithFinal(l).inv = "final" /\ WithFinal(l).eq = l.eq
  BY FinalFacts
<1> DEFINE k == SendBye(WithFinal(l))
<1>2. k \in LegType /\ k.inv = "final" /\ k.eq = l.eq /\ k.byes > 0
  BY <1>1, ByeFacts
<1> HIDE DEF k
<1> DEFINE m == EnterDisconnected(k)
<1>3. m \in LegType /\ m.inv = "final" /\ m.eq = l.eq /\ m.byes > 0 /\ m.st = "Disconnected" /\ m.ka = "off"
  BY <1>2, EnterDisconnectedFacts
<1> HIDE DEF m
<1>4. LegOK(m) /\ Stuck(m)
  BY <1>3 DEF LegOK, Stuck, Ended
<1> QED BY <1>3, <1>4 DEF m, k

LEMMA UasUpdatingDisconnectKept ==
    ASSUME NEW c, CallOK(c), NEW u \in Legs, c.leg[u].st = "UasUpdating"
    PROVE  LET r == UasUpdatingDisconnect(c, u) IN Kept(c, u, r) /\ r.q = <<>>
<1> DEFINE r == UasUpdatingDisconnect(c, u)
           l == c.leg[u]
           m == EnterDisconnected(SendBye(WithFinal(l)))
<1> SUFFICES Kept(c, u, r) /\ r.q = <<>>
  OBVIOUS
<1>1. r = IF l.inv = "open" THEN Done(WithLeg(c, u, m)) ELSE Raises(c)
  BY DEF UasUpdatingDisconnect
<1>2. LegOK(m) /\ m.eq = l.eq /\ Stuck(m)
  BY FinalByeFacts, CallOKFacts
<1> HIDE DEF r, m
<1> QED BY <1>1, <1>2, KeptLeg, KeptSame, ResultFacts

\* Which handler an event finds.
LEMMA HandleCases ==
    ASSUME NEW c, NEW u, NEW e, NEW o
    PROVE  LET st == c.leg[u].st
               k  == e.kind
               r  == Handle(c, u, e, o) IN
           /\ st = "Connected" /\ k \in Ends => r = ConnectedEnds(c, u, e)
           /\ st = "Connected" /\ k \in {"Update", "Spent"} => r = ConnectedUpdate(c, u, e, o)
           /\ st = "Connected" /\ k \notin Ends \cup {"Update", "Spent"} => r = Done(c)
           /\ st = "UacUpdating" /\ k \in Ends => r = UacUpdatingEnds(c, u)
           /\ st = "UacUpdating" /\ k \notin Ends => r = Done(c)
           /\ st = "UasUpdating" /\ k = "Ring" => r = UasUpdatingRing(c, u, e, o)
           /\ st = "UasUpdating" /\ k = "Redirect" => r = UasUpdatingRedirect(c, u)
           /\ st = "UasUpdating" /\ k = "Connect" => r = UasUpdatingConnect(c, u, e, o)
           /\ st = "UasUpdating" /\ k = "Fail" => r = UasUpdatingFail(c, u)
           /\ st = "UasUpdating" /\ k = "Disconnect" => r = UasUpdatingDisconnect(c, u)
           /\ st = "UasUpdating" /\ k \notin Ends \cup {"Ring", "Connect"} => r = Done(c)
           /\ st \in Ended => r = Done(c)
BY DEF Handle, Ends, Ended

\* A handler keeps what all handlers keep; only an update is answered.
LEMMA HandleKept ==
    ASSUME env \in Environments, NEW o \in Outcomes, NEW c, CallOK(c), NEW u \in Legs,
           NEW e \in EventType(EventKinds)
    PROVE  LET r == Handle(c, u, e, o) IN
           /\ Kept(c, u, r) /\ Answers(r)
           /\ e.kind \notin {"Update", "Spent"} => r.q = <<>>
<1> DEFINE r == Handle(c, u, e, o)
<1> SUFFICES Kept(c, u, r) /\ Answers(r) /\ (e.kind \notin {"Update", "Spent"} => r.q = <<>>)
  OBVIOUS
<1>1. c.leg[u].st \in {"Connected", "UacUpdating", "UasUpdating"} \cup Ended
  BY CallOKFacts DEF LegType, Ended
<1>2. ASSUME r = Done(c) PROVE Kept(c, u, r) /\ r.q = <<>>
  BY <1>2, KeptSame, ResultFacts
<1>3. CASE c.leg[u].st = "Connected"
  <2>1. CASE e.kind \in Ends
    <3>1. r = ConnectedEnds(c, u, e)
      BY <1>3, <2>1, HandleCases
    <3> HIDE DEF r
    <3> QED BY <1>3, <3>1, ConnectedEndsKept DEF Answers
  <2>2. CASE e.kind \in {"Update", "Spent"}
    <3>1. r = ConnectedUpdate(c, u, e, o)
      BY <1>3, <2>2, HandleCases
    <3> HIDE DEF r
    <3> QED BY <1>3, <2>2, <3>1, ConnectedUpdateKept
  <2>3. CASE e.kind \notin Ends \cup {"Update", "Spent"}
    <3>1. r = Done(c)
      BY <1>3, <2>3, HandleCases
    <3> QED BY <1>2, <3>1 DEF Answers
  <2> QED BY <2>1, <2>2, <2>3
<1>4. CASE c.leg[u].st = "UacUpdating"
  <2>1. CASE e.kind \in Ends
    <3>1. r = UacUpdatingEnds(c, u)
      BY <1>4, <2>1, HandleCases
    <3> HIDE DEF r
    <3> QED BY <1>4, <3>1, UacUpdatingEndsKept DEF Answers
  <2>2. CASE e.kind \notin Ends
    <3>1. r = Done(c)
      BY <1>4, <2>2, HandleCases
    <3> QED BY <1>2, <3>1 DEF Answers
  <2> QED BY <2>1, <2>2
<1>5. CASE c.leg[u].st = "UasUpdating"
  <2>1. \/ r = UasUpdatingRing(c, u, e, o) \/ r = UasUpdatingRedirect(c, u)
        \/ r = UasUpdatingConnect(c, u, e, o) \/ r = UasUpdatingFail(c, u)
        \/ r = UasUpdatingDisconnect(c, u) \/ r = Done(c)
    BY <1>5, HandleCases DEF Ends
  <2>2. Kept(c, u, r) /\ r.q = <<>>
    <3> HIDE DEF r
    <3> QED BY <1>2, <1>5, <2>1, UasUpdatingRingKept, UasUpdatingRedirectKept, UasUpdatingConnectKept,
               UasUpdatingFailKept, UasUpdatingDisconnectKept
  <2> QED BY <2>2 DEF Answers
<1>6. CASE c.leg[u].st \in Ended
  <2>1. r = Done(c)
    BY <1>6, HandleCases
  <2> QED BY <1>2, <2>1 DEF Answers
<1> QED BY <1>1, <1>3, <1>4, <1>5, <1>6

-----------------------------------------------------------------------------
(* Events handed over.                                                     *)

LEMMA LateFacts ==
    ASSUME NEW x \in HeldType
    PROVE  Late(x) \in HeldType /\ Late(x).dir = x.dir /\ Late(x).ev = x.ev
<1>1. PICK b \in BOOLEAN : b = (x.dir = "remote")
  BY Zenon
<1>2. Late(x) = [x EXCEPT !.late = b]
  BY <1>1, Zenon DEF Late
<1> QED BY <1>2 DEF HeldType

\* The bodies at the proxy, some of them late.
Delayed(g, h) ==
    /\ g \in Seq(HeldType) /\ Len(g) = Len(h)
    /\ \A i \in 1 .. Len(h) : g[i].dir = h[i].dir /\ g[i].ev = h[i].ev

LEMMA DelayedFacts ==
    ASSUME NEW h \in Seq(HeldType), NEW n
    PROVE  /\ Delayed(h, h)
           /\ Delayed([i \in DOMAIN h |-> Late(h[i])], h)
           /\ Delayed([i \in DOMAIN h |-> IF i < n THEN Late(h[i]) ELSE h[i]], h)
<1>1. DOMAIN h = 1 .. Len(h) /\ Len(h) \in Nat /\ \A i \in 1 .. Len(h) : h[i] \in HeldType
  OBVIOUS
<1>2. ASSUME NEW g, DOMAIN g = 1 .. Len(h), g = [i \in DOMAIN g |-> g[i]],
             \A i \in 1 .. Len(h) : g[i] = h[i] \/ g[i] = Late(h[i])
      PROVE  Delayed(g, h)
  <2>1. \A i \in 1 .. Len(h) : g[i] \in HeldType /\ g[i].dir = h[i].dir /\ g[i].ev = h[i].ev
    BY <1>1, <1>2, LateFacts
  <2>2. g \in [1 .. Len(h) -> HeldType]
    BY <1>2, <2>1
  <2>3. g \in Seq(HeldType) /\ Len(g) = Len(h)
    BY <1>1, <2>2
  <2> QED BY <2>1, <2>3 DEF Delayed
<1>3. Delayed(h, h)
  BY <1>1 DEF Delayed
<1> DEFINE g1 == [i \in DOMAIN h |-> Late(h[i])]
           g2 == [i \in DOMAIN h |-> IF i < n THEN Late(h[i]) ELSE h[i]]
<1>4. DOMAIN g1 = 1 .. Len(h) /\ g1 = [i \in DOMAIN g1 |-> g1[i]] /\ \A i \in 1 .. Len(h) : g1[i] = Late(h[i])
  BY <1>1
<1>5. /\ DOMAIN g2 = 1 .. Len(h) /\ g2 = [i \in DOMAIN g2 |-> g2[i]]
      /\ \A i \in 1 .. Len(h) : g2[i] = h[i] \/ g2[i] = Late(h[i])
  BY <1>1
<1> HIDE DEF g1, g2
<1>6. Delayed(g1, h)
  BY <1>2, <1>4
<1>7. Delayed(g2, h)
  BY <1>2, <1>5
<1> QED BY <1>3, <1>6, <1>7 DEF g1, g2

LEMMA OvertakesFacts ==
    ASSUME NEW c, CallOK(c), NEW u, NEW n
    PROVE  /\ CallOK(Overtakes(c, u)) /\ Overtakes(c, u).leg = c.leg
           /\ Delayed(Overtakes(c, u).held, c.held)
           /\ CallOK(OvertakesBefore(c, n)) /\ OvertakesBefore(c, n).leg = c.leg
           /\ Delayed(OvertakesBefore(c, n).held, c.held)
<1> DEFINE g1 == [i \in DOMAIN c.held |-> Late(c.held[i])]
           g2 == [i \in DOMAIN c.held |-> IF i < n THEN Late(c.held[i]) ELSE c.held[i]]
<1>1. Shape(c) /\ c.held \in Seq(HeldType)
  BY CallOKFacts
<1>2. Delayed(c.held, c.held) /\ Delayed(g1, c.held) /\ Delayed(g2, c.held)
  BY <1>1, DelayedFacts
<1>3. Overtakes(c, u) = IF u = "A" THEN c ELSE WithHeld(c, g1)
  BY DEF Overtakes
<1>4. OvertakesBefore(c, n) = WithHeld(c, g2)
  BY DEF OvertakesBefore
<1> HIDE DEF g1, g2
<1>5. /\ CallOK(WithHeld(c, g1)) /\ WithHeld(c, g1).leg = c.leg /\ WithHeld(c, g1).held = g1
      /\ CallOK(WithHeld(c, g2)) /\ WithHeld(c, g2).leg = c.leg /\ WithHeld(c, g2).held = g2
  BY <1>1, <1>2, CallOKWithHeld, WithHeldFacts DEF Delayed
<1> QED BY <1>2, <1>3, <1>4, <1>5

\* What an event that is handed over leaves.
Passed(c, r) ==
    /\ CallOK(r.c)
    /\ \A v \in Legs : r.c.leg[v].eq = c.leg[v].eq /\ (Stuck(c.leg[v]) => Stuck(r.c.leg[v]))

LEMMA KeptPassed ==
    ASSUME NEW c, NEW u \in Legs, NEW r, Kept(c, u, r)
    PROVE  Passed(c, r)
BY DEF Kept, Passed, Peer, Legs

LEMMA RecvEventPasses ==
    ASSUME env \in Environments, NEW o \in Outcomes, NEW c, CallOK(c), NEW u \in Legs,
           NEW e \in EventType(EventKinds)
    PROVE  LET r == RecvEvent(c, u, e, o) IN
           /\ Passed(c, r) /\ r.q = <<>>
           /\ e.kind \notin {"Update", "Spent"} => r = Handle(c, u, e, o)
<1> DEFINE r == Handle(c, u, e, o)
           s == RecvEvent(c, u, e, o)
<1> SUFFICES Passed(c, s) /\ s.q = <<>> /\ (e.kind \notin {"Update", "Spent"} => s = r)
  OBVIOUS
<1>1. Kept(c, u, r) /\ Answers(r) /\ (e.kind \notin {"Update", "Spent"} => r.q = <<>>)
  BY HandleKept
<1>2. s = IF r.raised \/ r.q = <<>> THEN r ELSE Handle(Overtakes(r.c, u), Peer(u), r.q[1], o)
  BY DEF RecvEvent
<1> HIDE DEF r, s
<1>3. Passed(c, r)
  BY <1>1, KeptPassed
<1>4. CASE r.q = <<>>
  BY <1>2, <1>3, <1>4
<1>5. r.q = <<>> \/ ~r.raised
  BY <1>1 DEF Answers
<1>6. CASE r.q # <<>> /\ ~r.raised
  <2>1. PICK x \in EventType({"Connect", "Fail"}) : r.q = <<x>>
    BY <1>1, <1>6 DEF Answers
  <2>2. r.q[1] = x /\ x \in EventType(EventKinds) /\ x.kind \notin {"Update", "Spent"}
    BY <2>1, TypesWiden
  <2> DEFINE d == Overtakes(r.c, u)
             t == Handle(d, Peer(u), x, o)
  <2>3. CallOK(d) /\ d.leg = r.c.leg
    BY <1>1, OvertakesFacts DEF Kept
  <2> HIDE DEF d
  <2>4. Kept(d, Peer(u), t) /\ t.q = <<>>
    BY <2>2, <2>3, HandleKept, PeerFacts
  <2>5. s = t
    BY <1>2, <1>6, <2>2 DEF d
  <2> HIDE DEF t
  <2>6. Passed(d, t)
    BY <2>4, KeptPassed, PeerFacts
  <2> QED BY <1>1, <1>3, <1>6, <2>3, <2>4, <2>5, <2>6 DEF Passed
<1> QED BY <1>4, <1>5, <1>6

-----------------------------------------------------------------------------
(* The queue of a leg.                                                     *)

LEMMA LeastNumber ==
    ASSUME NEW T, T \subseteq Nat, T # {}
    PROVE  \E x \in T : \A y \in T : x <= y
<1> DEFINE R == OpToRel(<, Nat)
<1>1. IsWellFoundedOn(R, Nat)
  BY NatLessThanWellFounded
<1>2. \A x, y \in Nat : x < y => <<x, y>> \in R
  BY DEF OpToRel
<1> HIDE DEF R
<1>3. PICK x \in T : \A y \in T : ~(<<y, x>> \in R)
  BY <1>1, WFMin
<1>4. \A y \in T : ~(y < x)
  BY <1>2, <1>3
<1> QED BY <1>4

\* f is what the turns of the loop leave, from s on and for n events of q.
TurnsTo(f, s, u, q, o, n) ==
    f = [k \in 0 .. n |-> IF k = 0 THEN s ELSE Give(f[k - 1], u, q[k], o)]

LEMMA TurnsExist ==
    ASSUME NEW s, NEW u, NEW q, NEW o, NEW n \in Nat
    PROVE  \E f : TurnsTo(f, s, u, q, o, n)
<1> DEFINE T == {m \in Nat : ~\E f : TurnsTo(f, s, u, q, o, m)}
<1> SUFFICES ASSUME T # {} PROVE FALSE
  OBVIOUS
<1>1. PICK m \in T : \A j \in T : m <= j
  BY LeastNumber
<1>2. m # 0
  <2> DEFINE f == [k \in 0 .. 0 |-> s]
  <2>1. f = [k \in 0 .. 0 |-> IF k = 0 THEN s ELSE Give(f[k - 1], u, q[k], o)]
    OBVIOUS
  <2>2. TurnsTo(f, s, u, q, o, 0)
    BY <2>1 DEF TurnsTo
  <2> QED BY <2>2
<1>3. m - 1 \in Nat /\ m - 1 \notin T /\ m \in Nat
  BY <1>1, <1>2
<1>4. PICK f : TurnsTo(f, s, u, q, o, m - 1)
  BY <1>3
<1>5. \A k \in 0 .. m - 1 : f[k] = IF k = 0 THEN s ELSE Give(f[k - 1], u, q[k], o)
  <2>1. f = [k \in 0 .. m - 1 |-> IF k = 0 THEN s ELSE Give(f[k - 1], u, q[k], o)]
    BY <1>4 DEF TurnsTo
  <2> QED BY <2>1
<1> DEFINE g == [k \in 0 .. m |-> IF k = m THEN Give(f[m - 1], u, q[m], o) ELSE f[k]]
<1>6. ASSUME NEW k \in 0 .. m
      PROVE  g[k] = IF k = 0 THEN s ELSE Give(g[k - 1], u, q[k], o)
  <2>1. CASE k = 0
    BY <1>2, <1>3, <1>5, <2>1
  <2>2. CASE k # 0
    <3>1. k - 1 \in 0 .. m - 1 /\ k - 1 \in 0 .. m /\ k - 1 # m
      BY <1>3, <2>2
    <3>2. g[k - 1] = f[k - 1]
      BY <3>1
    <3>3. CASE k = m
      BY <2>2, <3>2, <3>3
    <3>4. CASE k # m
      <4>1. k \in 0 .. m - 1
        BY <1>3, <3>4
      <4> QED BY <1>5, <2>2, <3>2, <3>4, <4>1
    <3> QED BY <3>3, <3>4
  <2> QED BY <2>1, <2>2
<1>7. g = [k \in 0 .. m |-> g[k]]
  OBVIOUS
<1> HIDE DEF g
<1>8. TurnsTo(g, s, u, q, o, m)
  <2>1. [k \in 0 .. m |-> g[k]] = [k \in 0 .. m |-> IF k = 0 THEN s ELSE Give(g[k - 1], u, q[k], o)]
    BY <1>6
  <2> QED BY <1>7, <2>1 DEF TurnsTo
<1> QED BY <1>8, <1>1

\* The loop of emitPendingEvents(), turn by turn.
TurnByTurn(f, c, u, o) ==
    LET q == c.leg[u].eq IN
    /\ f[0] = Done(WithQueue(c, u, <<>>))
    /\ \A k \in 1 .. Len(q) : f[k] = Give(f[k - 1], u, q[k], o)

LEMMA TurnsEquation ==
    ASSUME NEW c, NEW u, NEW o, c.leg[u].eq \in Seq(EventType(EventKinds))
    PROVE  TurnByTurn(Turns(c, u, o), c, u, o)
<1> DEFINE q == c.leg[u].eq
           s == Done(WithQueue(c, u, <<>>))
           f == Turns(c, u, o)
<1>1. Len(q) \in Nat
  OBVIOUS
<1>2. f = CHOOSE g : TurnsTo(g, s, u, q, o, Len(q))
  BY DEF Turns, TurnsTo
<1> HIDE DEF q, s, f
<1>3. TurnsTo(f, s, u, q, o, Len(q))
  BY <1>1, <1>2, TurnsExist
<1>4. f = [k \in 0 .. Len(q) |-> IF k = 0 THEN s ELSE Give(f[k - 1], u, q[k], o)]
  BY <1>3 DEF TurnsTo
<1>5. f[0] = s /\ \A k \in 1 .. Len(q) : f[k] = Give(f[k - 1], u, q[k], o)
  BY <1>1, <1>4
<1> QED BY <1>5 DEF q, s, f, TurnByTurn

LEMMA WithQueueFacts ==
    ASSUME NEW c, Shape(c), NEW u \in Legs, c.leg[u] \in LegType, NEW q
    PROVE  LET d == WithQueue(c, u, q) IN
           /\ Shape(d) /\ d.held = c.held /\ d.leg[Peer(u)] = c.leg[Peer(u)]
           /\ d.leg[u].eq = q /\ d.leg[u].st = c.leg[u].st /\ d.leg[u].inv = c.leg[u].inv
           /\ d.leg[u].lsdp = c.leg[u].lsdp /\ d.leg[u].rsdp = c.leg[u].rsdp
           /\ d.leg[u].cb = c.leg[u].cb
           /\ WithQueue(d, u, c.leg[u].eq) = c
<1> DEFINE l == c.leg[u]
           m == [l EXCEPT !.eq = q]
           d == WithLeg(c, u, m)
<1>1. /\ Shape(d) /\ d.held = c.held /\ d.leg[Peer(u)] = c.leg[Peer(u)] /\ d.leg[u] = m
  BY WithLegFacts, PeerFacts
<1>2. /\ m.eq = q /\ m.st = l.st /\ m.inv = l.inv /\ m.lsdp = l.lsdp /\ m.rsdp = l.rsdp
      /\ m.cb = l.cb /\ [m EXCEPT !.eq = l.eq] = l
  <2> HIDE DEF l
  <2> QED BY QueueFacts DEF l
<1>3. WithQueue(c, u, q) = d
  BY DEF WithQueue
<1> HIDE DEF m, d
<1>4. WithQueue(d, u, l.eq) = c
  <2>1. WithQueue(d, u, l.eq) = WithLeg(d, u, l)
    BY <1>1, <1>2 DEF WithQueue
  <2>2. WithLeg(d, u, l) = WithLeg(c, u, l)
    BY WithLegTwice DEF d
  <2>3. WithLeg(c, u, l) = c
    BY WithLegTwice
  <2> QED BY <2>1, <2>2, <2>3
<1> QED BY <1>1, <1>2, <1>3, <1>4

LEMMA WithQueueOK ==
    ASSUME NEW c, CallOK(c), NEW u \in Legs, NEW q \in Seq(QueueType), q = <<>> \/ Stuck(c.leg[u])
    PROVE  CallOK(WithQueue(c, u, q))
<1> DEFINE l == c.leg[u]
           m == [l EXCEPT !.eq = q]
<1>1. l \in LegType /\ LegOK(l) /\ Shape(c)
  BY CallOKFacts
<1>2. /\ m \in LegType /\ m.eq = q /\ m.st = l.st /\ m.inv = l.inv
      /\ m.ka = l.ka /\ m.told = l.told /\ m.refer = l.refer /\ m.byes = l.byes
  <2> HIDE DEF l
  <2> QED BY <1>1, QueueFacts DEF QueueType
<1>3. LegOK(m)
  <2> HIDE DEF m
  <2> QED BY <1>1, <1>2 DEF LegOK, Stuck
<1> QED BY <1>3, CallOKWithLeg DEF WithQueue

\* A leg with an event in its queue hands it over.
LEMMA EmitSingle ==
    ASSUME NEW c, NEW u \in Legs, NEW o, NEW e \in EventType(EventKinds), c.leg[u].eq = <<e>>,
           c.leg[u].st # "Dead"
    PROVE  Emit(c, u, o) = RecvEvent(Overtakes(WithQueue(c, u, <<>>), u), Peer(u), e, o)
<1> DEFINE q == c.leg[u].eq
           f == Turns(c, u, o)
           d == WithQueue(c, u, <<>>)
<1>1. q \in Seq(EventType(EventKinds)) /\ Len(q) = 1 /\ q[1] = e
  OBVIOUS
<1>2. Emit(c, u, o) = f[1]
  <2>1. Emit(c, u, o) = f[Len(q)]
    BY DEF Emit
  <2> HIDE DEF f, q
  <2> QED BY <1>1, <2>1
<1>3. f[0] = Done(d) /\ \A k \in 1 .. Len(q) : f[k] = Give(f[k - 1], u, q[k], o)
  <2>1. TurnByTurn(f, c, u, o)
    BY <1>1, TurnsEquation
  <2> HIDE DEF f
  <2> QED BY <2>1 DEF TurnByTurn
<1> HIDE DEF f, d, q
<1>4. f[1] = Give(f[1 - 1], u, q[1], o)
  BY <1>1, <1>3
<1>5. f[1] = Give(Done(d), u, e, o)
  BY <1>1, <1>3, <1>4
<1>6. Give(Done(d), u, e, o) = RecvEvent(Overtakes(d, u), Peer(u), e, o)
  BY ResultFacts DEF Give
<1> QED BY <1>2, <1>5, <1>6 DEF d

LEMMA EmitPair ==
    ASSUME NEW c, NEW u \in Legs, NEW o, NEW e \in EventType(EventKinds),
           NEW e2 \in EventType(EventKinds), c.leg[u].eq = <<e, e2>>, c.leg[u].st # "Dead"
    PROVE  Emit(c, u, o) = Give(RecvEvent(Overtakes(WithQueue(c, u, <<>>), u), Peer(u), e, o), u, e2, o)
<1> DEFINE q == c.leg[u].eq
           f == Turns(c, u, o)
           d == WithQueue(c, u, <<>>)
<1>1. q \in Seq(EventType(EventKinds)) /\ Len(q) = 2 /\ q[1] = e /\ q[2] = e2
  OBVIOUS
<1>2. Emit(c, u, o) = f[2]
  <2>1. Emit(c, u, o) = f[Len(q)]
    BY DEF Emit
  <2> HIDE DEF f, q
  <2> QED BY <1>1, <2>1
<1>3. f[0] = Done(d) /\ \A k \in 1 .. Len(q) : f[k] = Give(f[k - 1], u, q[k], o)
  <2>1. TurnByTurn(f, c, u, o)
    BY <1>1, TurnsEquation
  <2> HIDE DEF f
  <2> QED BY <2>1 DEF TurnByTurn
<1> HIDE DEF f, d, q
<1>4. f[1] = Give(f[1 - 1], u, q[1], o) /\ f[2] = Give(f[2 - 1], u, q[2], o)
  BY <1>1, <1>3
<1>5. f[1] = Give(Done(d), u, e, o) /\ f[2] = Give(f[1], u, e2, o)
  BY <1>1, <1>3, <1>4
<1>6. Give(Done(d), u, e, o) = RecvEvent(Overtakes(d, u), Peer(u), e, o)
  BY ResultFacts DEF Give
<1> QED BY <1>2, <1>5, <1>6 DEF d

\* One turn, for a leg that can no longer take part.
LEMMA GiveKept ==
    ASSUME env \in Environments, NEW o \in Outcomes, NEW r, CallOK(r.c), NEW u \in Legs,
           Stuck(r.c.leg[u]), NEW e \in QueueType
    PROVE  LET s == Give(r, u, e, o) IN
           CallOK(s.c) /\ Stuck(s.c.leg[u])
<1> DEFINE s == Give(r, u, e, o)
           c == r.c
<1> SUFFICES CallOK(s.c) /\ Stuck(s.c.leg[u])
  OBVIOUS
<1>1. CASE r.raised
  <2> DEFINE q == Append(c.leg[u].eq, e)
             d == WithQueue(c, u, q)
  <2>1. c.leg[u] \in LegType /\ Shape(c)
    BY CallOKFacts
  <2>2. q \in Seq(QueueType)
    <3>1. c.leg[u].eq \in Seq(QueueType)
      BY <2>1 DEF LegType, QueueType
    <3> QED BY <3>1
  <2>3. s.c = d
    <3>1. s = Raises(d)
      BY <1>1 DEF Give
    <3> QED BY <3>1, ResultFacts
  <2> HIDE DEF s, q
  <2>4. CallOK(d)
    BY <2>2, WithQueueOK
  <2>5. d.leg[u].st = c.leg[u].st /\ d.leg[u].inv = c.leg[u].inv
    BY <2>1, WithQueueFacts
  <2> QED BY <2>3, <2>4, <2>5 DEF Stuck
<1>2. CASE ~r.raised
  <2> DEFINE d == Overtakes(c, u)
  <2>1. CallOK(d) /\ d.leg = c.leg
    BY OvertakesFacts
  <2>2. s = RecvEvent(d, Peer(u), e, o)
    BY <1>2 DEF Give
  <2>3. e \in EventType(EventKinds)
    BY TypesWiden
  <2> HIDE DEF s, d
  <2>4. Passed(d, s)
    BY <2>1, <2>2, <2>3, RecvEventPasses, PeerFacts
  <2> QED BY <2>1, <2>4 DEF Passed
<1> QED BY <1>1, <1>2

LEMMA EmitStuck ==
    ASSUME env \in Environments, NEW o \in Outcomes, NEW c, CallOK(c), NEW u \in Legs,
           Stuck(c.leg[u])
    PROVE  CallOK(Emit(c, u, o).c) /\ Stuck(Emit(c, u, o).c.leg[u])
<1> DEFINE q == c.leg[u].eq
           f == Turns(c, u, o)
           d == WithQueue(c, u, <<>>)
           Good(r) == CallOK(r.c) /\ Stuck(r.c.leg[u])
<1> SUFFICES Good(Emit(c, u, o))
  OBVIOUS
<1>1. CASE c.leg[u].st = "Dead"
  <2>1. Emit(c, u, o) = Done(c)
    BY <1>1 DEF Emit
  <2> QED BY <2>1, ResultFacts
<1>2. CASE c.leg[u].st # "Dead"
  <2>1. c.leg[u] \in LegType /\ Shape(c)
    BY CallOKFacts
  <2>2. q \in Seq(QueueType)
    BY <2>1 DEF LegType, QueueType
  <2>3. q \in Seq(EventType(EventKinds))
    <3>1. \A k \in 1 .. Len(q) : q[k] \in EventType(EventKinds)
      BY <2>2, TypesWiden
    <3> HIDE DEF q
    <3> QED BY <2>2, <3>1
  <2>4. TurnByTurn(f, c, u, o)
    BY <2>3, TurnsEquation
  <2>5. Emit(c, u, o) = f[Len(q)]
    BY <1>2 DEF Emit
  <2> HIDE DEF f
  <2>6. f[0] = Done(d) /\ \A k \in 1 .. Len(q) : f[k] = Give(f[k - 1], u, q[k], o)
    BY <2>4 DEF TurnByTurn
  <2>7. Good(f[0])
    <3>1. CallOK(d)
      <4>1. <<>> \in Seq(QueueType)
        OBVIOUS
      <4> QED BY <4>1, WithQueueOK
    <3>2. d.leg[u].st = c.leg[u].st /\ d.leg[u].inv = c.leg[u].inv
      BY <2>1, WithQueueFacts
    <3> HIDE DEF d
    <3> QED BY <2>6, <3>1, <3>2, ResultFacts DEF Stuck
  <2> HIDE DEF q, d
  <2>8. ASSUME NEW k \in 1 .. Len(q), Good(f[k - 1]) PROVE Good(f[k])
    <3>1. q[k] \in QueueType /\ f[k] = Give(f[k - 1], u, q[k], o)
      BY <2>2, <2>6
    <3> QED BY <2>8, <3>1, GiveKept
  <2> HIDE DEF Good
  <2> DEFINE T == {k \in 0 .. Len(q) : ~Good(f[k])}
  <2>9. Len(q) \in Nat
    BY <2>2
  <2>10. T = {}
    <3> SUFFICES ASSUME T # {} PROVE FALSE
      OBVIOUS
    <3>1. PICK m \in T : \A y \in T : m <= y
      <4>1. T \subseteq Nat
        BY <2>9
      <4> HIDE DEF T
      <4> QED BY <4>1, LeastNumber
    <3>2. m # 0 /\ m \in 0 .. Len(q) /\ ~Good(f[m])
      BY <2>7
    <3>3. m \in 1 .. Len(q) /\ m - 1 \in 0 .. Len(q) /\ ~(m <= m - 1)
      BY <2>9, <3>2
    <3>4. m - 1 \notin T
      BY <3>1, <3>3
    <3> QED BY <2>8, <3>2, <3>3, <3>4
  <2> QED BY <2>5, <2>9, <2>10
<1> QED BY <1>1, <1>2

LEMMA QueueIs ==
    ASSUME NEW c, CallOK(c), NEW u \in Legs, NEW es \in Seq(QueueType)
    PROVE  /\ Stuck(c.leg[u]) => CallOK(Queue(c, u, es)) /\ Stuck(Queue(c, u, es).leg[u])
           /\ c.leg[u].eq = <<>> => Queue(c, u, es) = WithQueue(c, u, es)
<1> DEFINE q == c.leg[u].eq
<1>1. c.leg[u] \in LegType /\ Shape(c)
  BY CallOKFacts
<1>2. q \in Seq(QueueType)
  BY <1>1 DEF LegType, QueueType
<1>3. q \o es \in Seq(QueueType) /\ <<>> \o es = es
  BY <1>2
<1>4. Queue(c, u, es) = WithQueue(c, u, q \o es)
  BY DEF Queue
<1> HIDE DEF q
<1>5. ASSUME Stuck(c.leg[u])
      PROVE  CallOK(WithQueue(c, u, q \o es)) /\ Stuck(WithQueue(c, u, q \o es).leg[u])
  <2>1. CallOK(WithQueue(c, u, q \o es))
    BY <1>3, <1>5, WithQueueOK
  <2> DEFINE d == WithQueue(c, u, q \o es)
  <2>2. d.leg[u].st = c.leg[u].st /\ d.leg[u].inv = c.leg[u].inv
    BY <1>1, WithQueueFacts
  <2> HIDE DEF d
  <2>3. Stuck(d.leg[u])
    BY <1>5, <2>2 DEF Stuck
  <2> QED BY <2>1, <2>3 DEF d
<1> QED BY <1>3, <1>4, <1>5 DEF q

\* A leg with nothing else to say hands its event over at once.
LEMMA Speaks ==
    ASSUME NEW c, CallOK(c), NEW u \in Legs, NEW o, NEW e \in EventType(EventKinds),
           c.leg[u].eq = <<>>, c.leg[u].st # "Dead"
    PROVE  Emit(Queue(c, u, <<e>>), u, o) = RecvEvent(Overtakes(c, u), Peer(u), e, o)
<1> DEFINE d == WithQueue(c, u, <<e>>)
<1>1. c.leg[u] \in LegType /\ Shape(c)
  BY CallOKFacts
<1>2. Queue(c, u, <<e>>) = d
  <2>1. <<>> \o <<e>> = <<e>>
    OBVIOUS
  <2> QED BY <2>1 DEF Queue
<1>3. d.leg[u].eq = <<e>> /\ d.leg[u].st = c.leg[u].st /\ WithQueue(d, u, c.leg[u].eq) = c
  BY <1>1, WithQueueFacts
<1> HIDE DEF d
<1>4. Emit(d, u, o) = RecvEvent(Overtakes(WithQueue(d, u, <<>>), u), Peer(u), e, o)
  BY <1>3, EmitSingle
<1> QED BY <1>2, <1>3, <1>4

LEMMA EmitKept ==
    ASSUME env \in Environments, NEW o \in Outcomes, NEW c, CallOK(c), NEW u \in Legs,
           NEW e \in QueueType
    PROVE  CallOK(Emit(Queue(c, u, <<e>>), u, o).c)
<1>1. CASE Stuck(c.leg[u])
  <2>1. <<e>> \in Seq(QueueType)
    OBVIOUS
  <2> DEFINE d == Queue(c, u, <<e>>)
  <2>2. CallOK(d) /\ Stuck(d.leg[u])
    BY <1>1, <2>1, QueueIs
  <2> HIDE DEF d
  <2>3. CallOK(Emit(d, u, o).c)
    BY <2>2, EmitStuck
  <2> QED BY <2>3 DEF d
<1>2. CASE ~Stuck(c.leg[u])
  <2>1. c.leg[u].eq = <<>> /\ c.leg[u].st # "Dead"
    BY <1>2, CallOKFacts DEF LegOK, Stuck, Ended
  <2>2. e \in EventType(EventKinds)
    BY TypesWiden
  <2> DEFINE d == Overtakes(c, u)
             r == RecvEvent(d, Peer(u), e, o)
  <2>3. CallOK(d)
    BY OvertakesFacts
  <2>4. Emit(Queue(c, u, <<e>>), u, o) = r
    BY <2>1, <2>2, Speaks
  <2> HIDE DEF d
  <2>5. Passed(d, r)
    BY <2>2, <2>3, RecvEventPasses, PeerFacts
  <2> HIDE DEF r
  <2> QED BY <2>4, <2>5 DEF Passed
<1> QED BY <1>1, <1>2

-----------------------------------------------------------------------------
(* The end of a leg.                                                       *)

LEMMA EndingFacts ==
    ASSUME NEW l \in LegType, l.told \/ l.refer \/ l.byes > 0
    PROVE  LET m == EnterDisconnected(l) IN
           /\ LegOK(m) /\ m.st = "Disconnected" /\ m.inv = l.inv /\ m.eq = l.eq /\ Stuck(m)
<1> DEFINE m == EnterDisconnected(l)
<1>1. /\ m \in LegType /\ m.st = "Disconnected" /\ m.ka = "off" /\ m.inv = l.inv
      /\ m.told = l.told /\ m.refer = l.refer /\ m.byes = l.byes /\ m.eq = l.eq
  BY EnterDisconnectedFacts
<1> HIDE DEF m
<1>2. LegOK(m) /\ Stuck(m)
  BY <1>1 DEF LegOK, Stuck, Ended
<1> QED BY <1>1, <1>2 DEF m

\* Leg u with its re-INVITE out of the way.
Closed(l) == IF l.st = "UasUpdating" THEN "final" ELSE l.inv

\* n is the leg after Disconnect(c, u, o), before it emits the event.
Leaves(n, c, u, o) ==
    /\ LegOK(n) /\ n.st = "Disconnected" /\ n.inv = Closed(c.leg[u])
    /\ n.eq = <<Event("Disconnect", "none")>>
    /\ Disconnect(c, u, o) = Emit(WithLeg(c, u, n), u, o)

LEMMA DisconnectIs ==
    ASSUME NEW c, CallOK(c), NEW u \in Legs, NEW o, ~Stuck(c.leg[u])
    PROVE  \E n : Leaves(n, c, u, o)
<1> DEFINE e == Event("Disconnect", "none")
           d == WithQueue(c, u, <<e>>)
           l == d.leg[u]
           r == Handle(d, u, e, o)
<1>1. c.leg[u] \in LegType /\ LegOK(c.leg[u]) /\ Shape(c) /\ c.leg[u].eq = <<>>
  BY CallOKFacts DEF LegOK
<1>2. e \in QueueType /\ e.kind = "Disconnect" /\ ~e.also /\ e.kind \in Ends /\ e.kind # "Redirect"
  BY BodyTypes DEF Event, Ends
<1>3. <<e>> \in Seq(QueueType) /\ <<>> \o <<e>> = <<e>>
  BY <1>2
<1>4. Disconnect(c, u, o) = IF r.raised THEN r ELSE Emit(r.c, u, o)
  BY <1>1, <1>3 DEF Disconnect, Queue
<1> HIDE DEF e
<1>5. l.st = c.leg[u].st /\ l.inv = c.leg[u].inv /\ l.eq = <<e>>
  BY <1>1, WithQueueFacts
<1>6. l \in LegType
  <2>1. l = [c.leg[u] EXCEPT !.eq = <<e>>]
    BY <1>1, WithLegFacts DEF WithQueue
  <2> DEFINE m == [c.leg[u] EXCEPT !.eq = <<e>>]
  <2>2. m \in LegType
    BY <1>1, <1>3, QueueFacts DEF QueueType
  <2> QED BY <2>1, <2>2
<1>7. ASSUME NEW n PROVE WithLeg(d, u, n) = WithLeg(c, u, n)
  BY <1>1, WithLegTwice DEF WithQueue
<1> HIDE DEF d
<1>8. ASSUME NEW k \in LegType, k.byes > 0, k.eq = <<e>>, k.inv = Closed(c.leg[u]),
             r = Done(WithLeg(d, u, EnterDisconnected(k)))
      PROVE  \E n : Leaves(n, c, u, o)
  <2> DEFINE n == EnterDisconnected(k)
  <2>1. /\ LegOK(n) /\ n.st = "Disconnected" /\ n.inv = k.inv /\ n.eq = k.eq
    BY <1>8, EndingFacts
  <2>2. r.c = WithLeg(c, u, n) /\ ~r.raised
    BY <1>7, <1>8, ResultFacts
  <2> HIDE DEF n, r
  <2>3. Leaves(n, c, u, o)
    BY <1>4, <1>8, <2>1, <2>2 DEF Leaves, e
  <2> QED BY <2>3
<1>9. c.leg[u].st \in {"Connected", "UacUpdating", "UasUpdating"}
  BY <1>1 DEF LegType, Stuck, Ended
<1>10. CASE c.leg[u].st = "Connected"
  <2> DEFINE k == SendBye(l)
  <2>1. r = ConnectedEnds(d, u, e)
    BY <1>2, <1>5, <1>10, HandleCases
  <2>2. ConnectedEnds(d, u, e) = Done(WithLeg(d, u, EnterDisconnected(k)))
    BY <1>2 DEF ConnectedEnds
  <2>3. k \in LegType /\ k.byes > 0 /\ k.eq = l.eq /\ k.inv = l.inv
    BY <1>6, ByeFacts
  <2> HIDE DEF k, r, l
  <2>4. k.inv = Closed(c.leg[u]) /\ k.eq = <<e>>
    BY <1>5, <1>10, <2>3 DEF Closed
  <2> QED BY <1>8, <2>1, <2>2, <2>3, <2>4
<1>11. CASE c.leg[u].st = "UacUpdating"
  <2> DEFINE j == [l EXCEPT !.out = FALSE]
             k == SendBye(j)
  <2>1. r = UacUpdatingEnds(d, u)
    BY <1>2, <1>5, <1>11, HandleCases
  <2>2. UacUpdatingEnds(d, u) = Done(WithLeg(d, u, EnterDisconnected(k)))
    BY DEF UacUpdatingEnds
  <2>3. j \in LegType /\ j.eq = l.eq /\ j.inv = l.inv
    <3>1. PICK b \in BOOLEAN : b = FALSE
      BY Zenon
    <3>2. j = [l EXCEPT !.out = b]
      BY <3>1, Zenon
    <3> HIDE DEF j, l
    <3> QED BY <1>6, <3>2, FlagFacts DEF Same
  <2> HIDE DEF j
  <2>4. k \in LegType /\ k.byes > 0 /\ k.eq = j.eq /\ k.inv = j.inv
    BY <2>3, ByeFacts
  <2> HIDE DEF k, r, l
  <2>5. k.inv = Closed(c.leg[u]) /\ k.eq = <<e>>
    BY <1>5, <1>11, <2>3, <2>4 DEF Closed
  <2> QED BY <1>8, <2>1, <2>2, <2>4, <2>5
<1>12. CASE c.leg[u].st = "UasUpdating"
  <2> DEFINE j == WithFinal(l)
             k == SendBye(j)
  <2>1. r = UasUpdatingDisconnect(d, u)
    BY <1>2, <1>5, <1>12, HandleCases
  <2>2. l.inv = "open"
    BY <1>5, <1>12 DEF Stuck
  <2>3. UasUpdatingDisconnect(d, u) = Done(WithLeg(d, u, EnterDisconnected(k)))
    BY <2>2 DEF UasUpdatingDisconnect
  <2>4. j \in LegType /\ j.eq = l.eq /\ j.inv = "final"
    BY <1>6, FinalFacts
  <2> HIDE DEF j
  <2>5. k \in LegType /\ k.byes > 0 /\ k.eq = j.eq /\ k.inv = j.inv
    BY <2>4, ByeFacts
  <2> HIDE DEF k, r, l
  <2>6. k.inv = Closed(c.leg[u]) /\ k.eq = <<e>>
    BY <1>5, <1>12, <2>4, <2>5 DEF Closed
  <2> QED BY <1>8, <2>1, <2>3, <2>5, <2>6
<1> QED BY <1>9, <1>10, <1>11, <1>12

LEMMA DisconnectKept ==
    ASSUME env \in Environments, NEW o \in Outcomes, NEW c, CallOK(c), NEW u \in Legs
    PROVE  CallOK(Disconnect(c, u, o).c)
<1> DEFINE e == Event("Disconnect", "none")
<1>1. CASE ~Stuck(c.leg[u])
  <2>1. PICK n : Leaves(n, c, u, o)
    BY <1>1, DisconnectIs
  <2>2. LegOK(n) /\ Stuck(n) /\ Disconnect(c, u, o) = Emit(WithLeg(c, u, n), u, o)
    BY <2>1 DEF Leaves, Stuck, Ended
  <2> DEFINE d == WithLeg(c, u, n)
  <2>3. CallOK(d) /\ d.leg[u] = n
    BY <2>2, CallOKWithLeg, CallOKFacts, WithLegFacts
  <2> HIDE DEF d
  <2>4. CallOK(Emit(d, u, o).c)
    BY <2>2, <2>3, EmitStuck
  <2> QED BY <2>2, <2>4 DEF d
<1>2. CASE Stuck(c.leg[u])
  <2> DEFINE d == Queue(c, u, <<e>>)
             r == Handle(d, u, e, o)
  <2>1. e \in QueueType /\ e \in EventType(EventKinds)
    BY BodyTypes, TypesWiden
  <2>2. CallOK(d) /\ Stuck(d.leg[u])
    <3>1. <<e>> \in Seq(QueueType)
      BY <2>1
    <3> QED BY <1>2, <3>1, QueueIs
  <2>3. Disconnect(c, u, o) = IF r.raised THEN r ELSE Emit(r.c, u, o)
    BY DEF Disconnect
  <2> HIDE DEF d, e
  <2>4. Kept(d, u, r)
    BY <2>1, <2>2, HandleKept
  <2> HIDE DEF r
  <2>5. CallOK(r.c) /\ Stuck(r.c.leg[u])
    BY <2>2, <2>4 DEF Kept
  <2>6. CallOK(Emit(r.c, u, o).c)
    BY <2>5, EmitStuck
  <2> QED BY <2>3, <2>5, <2>6
<1> QED BY <1>1, <1>2

LEMMA RefusedKept ==
    ASSUME env \in Environments, NEW o \in Outcomes, NEW c, CallOK(c)
    PROVE  CallOK(Refused(c, o).c)
<1> DEFINE e == Event("Fail", "none")
           f == Emit(Queue(c, "O", <<e>>), "O", o)
           r == Handle(f.c, "O", e, o)
<1>1. e \in QueueType /\ e \in EventType(EventKinds) /\ "O" \in Legs
  BY BodyTypes, TypesWiden, LegsAre
<1>2. Refused(c, o) = IF f.raised THEN f ELSE r
  BY DEF Refused
<1>3. CallOK(f.c)
  BY <1>1, EmitKept
<1> HIDE DEF f, e
<1>4. Kept(f.c, "O", r)
  BY <1>1, <1>3, HandleKept
<1> HIDE DEF r
<1> QED BY <1>2, <1>3, <1>4 DEF Kept

-----------------------------------------------------------------------------
(* Changes of a leg that concern nobody else.                              *)

LEMMA LegEdits ==
    ASSUME NEW l, LegOK(l), NEW b \in BOOLEAN, NEW b2 \in BOOLEAN
    PROVE  /\ l.inv = "final" => LegOK([l EXCEPT !.inv = "none", !.cb = b])
           /\ l.ka = "timer" => LegOK([l EXCEPT !.ka = "sent"])
           /\ LegOK([l EXCEPT !.old = b]) /\ LegOK([l EXCEPT !.last = b])
           /\ LegOK([l EXCEPT !.cb = b]) /\ LegOK([l EXCEPT !.ka = "off"])
           /\ LegOK([l EXCEPT !.out = b])
           /\ l.st = "Disconnected" => LegOK([l EXCEPT !.st = "Dead"])
           /\ l.ka = "sent" => LegOK([l EXCEPT !.ka = "timer", !.first = b])
           /\ LegOK([l EXCEPT !.ka = "off", !.first = b, !.last = b2])
<1> DEFINE Fits(m) == /\ m \in LegType /\ m.told = l.told /\ m.refer = l.refer /\ m.byes = l.byes
                      /\ m.eq = l.eq
<1>1. l \in LegType
  BY DEF LegOK
<1>2. ASSUME NEW m, Fits(m), m.st = l.st \/ (l.st = "Disconnected" /\ m.st = "Dead"),
             m.inv = l.inv \/ m.inv = "none", m.ka # "off" => l.ka # "off",
             l.inv = "open" => m.inv = "open"
      PROVE  LegOK(m)
  BY <1>2 DEF LegOK, Stuck, Ended
<1>3. ASSUME l.inv = "final" PROVE LegOK([l EXCEPT !.inv = "none", !.cb = b])
  <2> DEFINE m == [l EXCEPT !.inv = "none", !.cb = b]
  <2>1. Fits(m) /\ m.st = l.st /\ m.inv = "none" /\ m.ka = l.ka
    BY <1>1 DEF LegType
  <2> QED BY <1>2, <1>3, <2>1
<1>4. ASSUME l.ka = "timer" PROVE LegOK([l EXCEPT !.ka = "sent"])
  <2> DEFINE m == [l EXCEPT !.ka = "sent"]
  <2>1. Fits(m) /\ m.st = l.st /\ m.inv = l.inv
    BY <1>1 DEF LegType
  <2> QED BY <1>2, <1>4, <2>1
<1>5. LegOK([l EXCEPT !.old = b])
  <2> DEFINE m == [l EXCEPT !.old = b]
  <2>1. Fits(m) /\ m.st = l.st /\ m.inv = l.inv /\ m.ka = l.ka
    BY <1>1 DEF LegType
  <2> QED BY <1>2, <2>1
<1>6. LegOK([l EXCEPT !.last = b])
  <2> DEFINE m == [l EXCEPT !.last = b]
  <2>1. Fits(m) /\ m.st = l.st /\ m.inv = l.inv /\ m.ka = l.ka
    BY <1>1 DEF LegType
  <2> QED BY <1>2, <2>1
<1>7. LegOK([l EXCEPT !.cb = b])
  <2> DEFINE m == [l EXCEPT !.cb = b]
  <2>1. Fits(m) /\ m.st = l.st /\ m.inv = l.inv /\ m.ka = l.ka
    BY <1>1 DEF LegType
  <2> QED BY <1>2, <2>1
<1>8. LegOK([l EXCEPT !.ka = "off"])
  <2> DEFINE m == [l EXCEPT !.ka = "off"]
  <2>1. Fits(m) /\ m.st = l.st /\ m.inv = l.inv /\ m.ka = "off"
    BY <1>1 DEF LegType
  <2> QED BY <1>2, <2>1
<1>9. LegOK([l EXCEPT !.out = b])
  <2> DEFINE m == [l EXCEPT !.out = b]
  <2>1. Fits(m) /\ m.st = l.st /\ m.inv = l.inv /\ m.ka = l.ka
    BY <1>1 DEF LegType
  <2> QED BY <1>2, <2>1
<1>10. ASSUME l.st = "Disconnected" PROVE LegOK([l EXCEPT !.st = "Dead"])
  <2> DEFINE m == [l EXCEPT !.st = "Dead"]
  <2>1. Fits(m) /\ m.st = "Dead" /\ m.inv = l.inv /\ m.ka = l.ka
    BY <1>1 DEF LegType
  <2> QED BY <1>2, <1>10, <2>1
<1>11. ASSUME l.ka = "sent" PROVE LegOK([l EXCEPT !.ka = "timer", !.first = b])
  <2> DEFINE m == [l EXCEPT !.ka = "timer", !.first = b]
  <2>1. Fits(m) /\ m.st = l.st /\ m.inv = l.inv
    BY <1>1 DEF LegType
  <2> QED BY <1>2, <1>11, <2>1
<1>12. LegOK([l EXCEPT !.ka = "off", !.first = b, !.last = b2])
  <2> DEFINE m == [l EXCEPT !.ka = "off", !.first = b, !.last = b2]
  <2>1. Fits(m) /\ m.st = l.st /\ m.inv = l.inv /\ m.ka = "off"
    BY <1>1 DEF LegType
  <2> QED BY <1>2, <2>1
<1> QED BY <1>3, <1>4, <1>5, <1>6, <1>7, <1>8, <1>9, <1>10, <1>11, <1>12

\* The fields that the other leg depends on.
Alike(m, l) == m.st = l.st /\ m.lsdp = l.lsdp /\ m.rsdp = l.rsdp /\ m.eq = l.eq

LEMMA LegEditsAlike ==
    ASSUME NEW l \in LegType, NEW b, NEW b2
    PROVE  /\ Alike([l EXCEPT !.inv = "none", !.cb = b], l)
           /\ [l EXCEPT !.inv = "none", !.cb = b].inv = "none"
           /\ Alike([l EXCEPT !.ka = "sent"], l)
           /\ [l EXCEPT !.ka = "sent"].inv = l.inv /\ [l EXCEPT !.ka = "sent"].cb = l.cb
           /\ Alike([l EXCEPT !.old = b], l)
           /\ [l EXCEPT !.old = b].inv = l.inv /\ [l EXCEPT !.old = b].cb = l.cb
           /\ Alike([l EXCEPT !.last = b], l)
           /\ [l EXCEPT !.last = b].inv = l.inv /\ [l EXCEPT !.last = b].cb = l.cb
           /\ Alike([l EXCEPT !.cb = b], l)
           /\ [l EXCEPT !.cb = b].inv = l.inv /\ [l EXCEPT !.cb = b].cb = b
           /\ Alike([l EXCEPT !.ka = "off"], l)
           /\ [l EXCEPT !.ka = "off"].inv = l.inv /\ [l EXCEPT !.ka = "off"].cb = l.cb
           /\ Alike([l EXCEPT !.ka = "timer", !.first = b], l)
           /\ [l EXCEPT !.ka = "timer", !.first = b].inv = l.inv
           /\ [l EXCEPT !.ka = "timer", !.first = b].cb = l.cb
           /\ Alike([l EXCEPT !.ka = "off", !.first = b, !.last = b2], l)
           /\ [l EXCEPT !.ka = "off", !.first = b, !.last = b2].inv = l.inv
           /\ [l EXCEPT !.ka = "off", !.first = b, !.last = b2].cb = l.cb
           /\ [l EXCEPT !.st = "Dead"].st = "Dead" /\ [l EXCEPT !.st = "Dead"].inv = l.inv
           /\ [l EXCEPT !.st = "Dead"].cb = l.cb
BY DEF LegType, Alike

LEMMA ReferFacts ==
    ASSUME NEW l, LegOK(l), NEW b \in BOOLEAN
    PROVE  LET m == [SendBye(l) EXCEPT !.refer = b] IN
           LegOK(m) /\ Alike(m, l) /\ m.inv = l.inv /\ m.cb = l.cb
<1> DEFINE k == SendBye(l)
           m == [k EXCEPT !.refer = b]
<1>1. /\ k \in LegType /\ k.byes > 0
      /\ k.st = l.st /\ k.lsdp = l.lsdp /\ k.rsdp = l.rsdp /\ k.inv = l.inv /\ k.cb = l.cb
      /\ k.ka = l.ka /\ k.told = l.told /\ k.refer = l.refer /\ k.eq = l.eq
  BY ByeFacts DEF LegOK
<1> HIDE DEF k
<1>2. Same(m, k) /\ m.cb = k.cb
  BY <1>1, FlagFacts, OtherFlags
<1> HIDE DEF m
<1>3. LegOK(m) /\ Alike(m, l) /\ m.inv = l.inv /\ m.cb = l.cb
  BY <1>1, <1>2 DEF LegOK, Stuck, Same, Alike
<1> QED BY <1>3 DEF m, k

\* A re-INVITE of the far end of leg l, answered at once or not.
LEMMA OpenFacts ==
    ASSUME NEW l, LegOK(l), l.st = "Connected", NEW b \in BOOLEAN
    PROVE  /\ LegOK([l EXCEPT !.inv = "open", !.cb = b])
           /\ LET m == WithFinal([l EXCEPT !.inv = "open", !.cb = b]) IN
              LegOK(m) /\ Alike(m, l) /\ m.inv = "final" /\ m.cb = b
<1> DEFINE k == [l EXCEPT !.inv = "open", !.cb = b]
           m == WithFinal(k)
<1>1. l \in LegType /\ l.eq = <<>>
  BY DEF LegOK, Stuck, Ended
<1>2. k \in LegType /\ Alike(k, l) /\ k.cb = b /\ k.ka = l.ka
  BY <1>1 DEF LegType, Alike
<1> HIDE DEF k
<1>3. LegOK(k)
  BY <1>1, <1>2 DEF LegOK, Alike, Ended
<1>4. m \in LegType /\ m.inv = "final" /\ m.st = k.st /\ m.lsdp = k.lsdp /\ m.rsdp = k.rsdp
      /\ m.cb = k.cb /\ m.ka = k.ka /\ m.eq = k.eq
  BY <1>2, FinalFacts
<1> HIDE DEF m
<1>5. LegOK(m) /\ Alike(m, l) /\ m.inv = "final" /\ m.cb = b
  BY <1>1, <1>2, <1>4 DEF LegOK, Alike, Ended
<1> QED BY <1>3, <1>5 DEF k, m

\* The leg that waits for the answer of the other, with the body of its far end.
Opened(l)     == [LeaveConnected(l) EXCEPT !.st = "UasUpdating", !.inv = "open"]
OpenedBy(l, b) == [Opened(l) EXCEPT !.rsdp = b]

Waiting(m, l) ==
    /\ LegOK(m) /\ m.st = "UasUpdating" /\ m.inv = "open" /\ m.eq = <<>> /\ m.lsdp = l.lsdp

LEMMA OpenedFacts ==
    ASSUME NEW l, LegOK(l), l.st = "Connected", NEW b \in Sdp
    PROVE  /\ Waiting(Opened(l), l) /\ Opened(l).rsdp = l.rsdp
           /\ Waiting(OpenedBy(l, b), l) /\ OpenedBy(l, b).rsdp = b
<1> DEFINE k == LeaveConnected(l)
           m == Opened(l)
           n == OpenedBy(l, b)
<1>1. l \in LegType /\ l.eq = <<>>
  BY DEF LegOK, Stuck, Ended
<1>2. k \in LegType /\ k.ka = "off" /\ k.lsdp = l.lsdp /\ k.rsdp = l.rsdp /\ k.eq = l.eq
  BY <1>1, LeaveFacts
<1>3. m = [k EXCEPT !.st = "UasUpdating", !.inv = "open"]
  BY DEF Opened
<1> HIDE DEF k
<1>4. /\ m \in LegType /\ m.ka = "off" /\ m.lsdp = l.lsdp /\ m.rsdp = l.rsdp /\ m.eq = l.eq
      /\ m.st = "UasUpdating" /\ m.inv = "open"
  BY <1>2, <1>3 DEF LegType
<1>5. n = [m EXCEPT !.rsdp = b]
  BY DEF OpenedBy
<1> HIDE DEF m, n
<1>6. /\ n \in LegType /\ n.ka = "off" /\ n.lsdp = l.lsdp /\ n.rsdp = b /\ n.eq = l.eq
      /\ n.st = "UasUpdating" /\ n.inv = "open"
  BY <1>4, <1>5 DEF LegType
<1>7. Waiting(m, l) /\ m.rsdp = l.rsdp /\ Waiting(n, l) /\ n.rsdp = b
  BY <1>1, <1>4, <1>6 DEF Waiting, LegOK, Ended
<1> QED BY <1>7 DEF m, n

-----------------------------------------------------------------------------
(* Every step keeps what the handlers keep.                                *)

LEMMA CallFields == Call.leg = leg /\ Call.held = held
BY DEF Call

LEMMA BecomesCall ==
    ASSUME NEW c, CallOK(c), leg' = c.leg, held' = c.held
    PROVE  Call' = c
<1>1. c = [leg |-> c.leg, held |-> c.held]
  BY CallOKFacts DEF Shape
<1> QED BY <1>1 DEF Call

\* A step that changes leg u only.
LEMMA LegCall ==
    ASSUME CallOK(Call), NEW u \in Legs, NEW m, leg' = [leg EXCEPT ![u] = m], UNCHANGED held
    PROVE  Call' = WithLeg(Call, u, m)
BY DEF Call, WithLeg

LEMMA LegCallOK ==
    ASSUME CallOK(Call), NEW u \in Legs
    PROVE  LegOK(leg[u]) /\ leg[u] \in LegType /\ leg[u].eq \in Seq(QueueType)
           /\ (~Stuck(leg[u]) => leg[u].eq = <<>>)
<1>1. LegOK(leg[u]) /\ leg[u] \in LegType
  BY CallOKFacts, CallFields
<1> QED BY <1>1 DEF LegOK, LegType, QueueType

LEMMA OfferedKept ==
    ASSUME env \in Environments, NEW o \in Outcomes, NEW c, CallOK(c), NEW u \in Legs,
           c.leg[u].st = "Connected", NEW e \in EventType(EventKinds)
    PROVE  /\ CallOK(Offered(c, u, e, o).c)
           /\ LET d == WithLeg(c, u, Opened(c.leg[u]))
                  x == WithLeg(c, u, OpenedBy(c.leg[u], e.body))
                  r == IF ~Proxied(u, e) THEN RecvEvent(Overtakes(x, u), Peer(u), e, o)
                       ELSE IF o = "later" THEN Done(Hold(d, "remote", e)) ELSE Done(d)
              IN  /\ Offered(c, u, e, o).c = WithLeg(r.c, u, [r.c.leg[u] EXCEPT !.cb = ~r.raised])
                  /\ CallOK(r.c) /\ CallOK(x) /\ CallOK(d)
<1> DEFINE l == c.leg[u]
           d == WithLeg(c, u, Opened(l))
           x == WithLeg(c, u, OpenedBy(l, e.body))
           s == RecvEvent(Overtakes(x, u), Peer(u), e, o)
           r == IF ~Proxied(u, e) THEN s
                ELSE IF o = "later" THEN Done(Hold(d, "remote", e)) ELSE Done(d)
<1>1. LegOK(l) /\ Shape(c) /\ e.body \in Sdp
  BY CallOKFacts, TypesWiden
<1>2. Waiting(Opened(l), l) /\ Waiting(OpenedBy(l, e.body), l)
  BY <1>1, OpenedFacts
<1>3. CallOK(d) /\ CallOK(x) /\ x.leg[u] = OpenedBy(l, e.body)
  BY <1>1, <1>2, CallOKWithLeg, WithLegFacts DEF Waiting
<1>4. Emit(Queue(x, u, <<e>>), u, o) = s
  <2>1. x.leg[u].eq = <<>> /\ x.leg[u].st # "Dead"
    BY <1>2, <1>3 DEF Waiting
  <2> HIDE DEF x
  <2> QED BY <1>3, <2>1, Speaks
<1>5. Offered(c, u, e, o) = Done(WithLeg(r.c, u, [r.c.leg[u] EXCEPT !.cb = ~r.raised]))
  BY <1>4 DEF Offered, Opened, OpenedBy
<1>6. CallOK(s.c)
  <2> DEFINE y == Overtakes(x, u)
  <2>1. CallOK(y)
    BY <1>3, OvertakesFacts
  <2>2. s = RecvEvent(y, Peer(u), e, o)
    OBVIOUS
  <2> HIDE DEF y, s
  <2>3. Passed(y, s)
    BY <2>1, <2>2, RecvEventPasses, PeerFacts
  <2> QED BY <2>3 DEF Passed
<1>7. CallOK(r.c)
  <2>1. CallOK(Hold(d, "remote", e))
    BY <1>3, HoldFacts
  <2> HIDE DEF s, d
  <2>2. r = s \/ r = Done(Hold(d, "remote", e)) \/ r = Done(d)
    OBVIOUS
  <2> HIDE DEF r
  <2> QED BY <1>3, <1>6, <2>1, <2>2, ResultFacts
<1>8. CallOK(WithLeg(r.c, u, [r.c.leg[u] EXCEPT !.cb = ~r.raised]))
  <2> HIDE DEF r
  <2>1. LegOK(r.c.leg[u])
    BY <1>7, CallOKFacts
  <2>2. PICK b \in BOOLEAN : b = ~r.raised
    BY Zenon
  <2>3. LegOK([r.c.leg[u] EXCEPT !.cb = b])
    BY <2>1, LegEdits
  <2>4. [r.c.leg[u] EXCEPT !.cb = ~r.raised] = [r.c.leg[u] EXCEPT !.cb = b]
    BY <2>2, Zenon
  <2> QED BY <1>7, <2>3, <2>4, CallOKWithLeg
<1> HIDE DEF r
<1>9. Offered(c, u, e, o).c = WithLeg(r.c, u, [r.c.leg[u] EXCEPT !.cb = ~r.raised])
  BY <1>5, ResultFacts
<1> QED BY <1>3, <1>7, <1>8, <1>9 DEF r

LEMMA UpdateFailedKept ==
    ASSUME env \in Environments, NEW o \in Outcomes, NEW c, CallOK(c), NEW u \in Legs
    PROVE  CallOK(UpdateFailed(c, u, o).c)
<1> DEFINE l == c.leg[u]
           k == SendBye(l)
           n == EnterDisconnected(k)
           d == WithLeg(c, u, n)
           p == Queue(d, u, FailAndDisconnect)
<1>1. l \in LegType /\ Shape(c)
  BY CallOKFacts
<1>2. k \in LegType /\ k.byes > 0
  BY <1>1, ByeFacts
<1> HIDE DEF k
<1>3. LegOK(n) /\ Stuck(n)
  BY <1>2, EndingFacts
<1> HIDE DEF n
<1>4. CallOK(d) /\ d.leg[u] = n
  BY <1>1, <1>3, CallOKWithLeg, WithLegFacts
<1> HIDE DEF d
<1>5. FailAndDisconnect \in Seq(QueueType)
  BY BodyTypes DEF FailAndDisconnect
<1>6. CallOK(p) /\ Stuck(p.leg[u])
  BY <1>3, <1>4, <1>5, QueueIs
<1>7. UpdateFailed(c, u, o) = Emit(p, u, o)
  BY DEF UpdateFailed, d, n, k
<1> HIDE DEF p
<1> QED BY <1>6, <1>7, EmitStuck

LEMMA OfferedBodies ==
    ASSUME NEW b \in Offers
    PROVE  b \in Sdp /\ (b = "none" \/ b \in Bodies) /\ (env.far = "good" => b \in Bodies)
BY DEF Offers, Sdp

LEMMA InviteArrivesKept ==
    ASSUME env \in Environments, CallOK(Call), NEW o \in Outcomes, NEW u \in Legs,
           NEW body \in Offers, NEW spent \in BOOLEAN, InviteArrives(u, body, spent, o)
    PROVE  CallOK(Call')
<1> DEFINE l == leg[u]
           b == IF body = "none" THEN "hold" ELSE body
           e == Event(IF spent THEN "Spent" ELSE "Update", b)
           open == [l EXCEPT !.inv = "open", !.cb = FALSE]
           r == IF body = "none" /\ l.rsdp = "none" THEN Raises(WithLeg(Call, u, open))
                ELSE IF body = l.rsdp \/ (Proxied(u, e) /\ o = "error")
                THEN Done(WithLeg(Call, u, WithFinal(open)))
                ELSE Offered(Call, u, e, o)
<1>1. l.st = "Connected" /\ Becomes(r)
  BY DEF InviteArrives
<1>2. LegOK(l) /\ Call.leg[u] = l
  BY LegCallOK, CallFields
<1>3. LegOK(open) /\ LegOK(WithFinal(open))
  <2>1. PICK f \in BOOLEAN : f = FALSE
    BY Zenon
  <2>2. open = [l EXCEPT !.inv = "open", !.cb = f]
    BY <2>1, Zenon
  <2> HIDE DEF l, open
  <2> QED BY <1>1, <1>2, <2>2, OpenFacts
<1>4. e \in EventType(EventKinds)
  <2>1. b \in Sdp
    BY OfferedBodies, BodyTypes
  <2> HIDE DEF b
  <2> QED BY <2>1, BodyTypes
<1>5. CallOK(WithLeg(Call, u, open)) /\ CallOK(WithLeg(Call, u, WithFinal(open)))
  BY <1>3, CallOKWithLeg
<1> HIDE DEF open, e
<1>6. CallOK(Offered(Call, u, e, o).c)
  BY <1>1, <1>2, <1>4, OfferedKept
<1>7. CallOK(r.c)
  <2>1. \/ r = Raises(WithLeg(Call, u, open)) \/ r = Done(WithLeg(Call, u, WithFinal(open)))
        \/ r = Offered(Call, u, e, o)
    OBVIOUS
  <2> HIDE DEF r
  <2> QED BY <1>5, <1>6, <2>1, ResultFacts
<1> HIDE DEF r
<1> QED BY <1>1, <1>7, BecomesCall DEF Becomes

\* An event that ends a leg does not depend on the RTP proxy.
LEMMA EndsPass ==
    ASSUME env \in Environments, NEW o, NEW c, CallOK(c), NEW u \in Legs,
           NEW e \in QueueType, e.kind \in Ends
    PROVE  /\ RecvEvent(c, u, e, o) = Handle(c, u, e, o)
           /\ Kept(c, u, Handle(c, u, e, o)) /\ Passed(c, Handle(c, u, e, o))
<1>1. PICK o2 \in Outcomes : TRUE
  BY EnvType DEF Outcomes
<1>2. Handle(c, u, e, o) = Handle(c, u, e, o2)
  BY DEF Handle, Ends
<1>3. e \in EventType(EventKinds) /\ e.kind \notin {"Update", "Spent"}
  BY TypesWiden
<1> DEFINE r == Handle(c, u, e, o2)
<1>4. Kept(c, u, r) /\ r.q = <<>>
  BY <1>3, HandleKept
<1>5. RecvEvent(c, u, e, o) = IF r.raised \/ r.q = <<>> THEN r
                              ELSE Handle(Overtakes(r.c, u), Peer(u), r.q[1], o)
  BY <1>2 DEF RecvEvent
<1> HIDE DEF r
<1> QED BY <1>2, <1>4, <1>5, KeptPassed DEF r

LEMMA CancelKept ==
    ASSUME env \in Environments, CallOK(Call), NEW u \in Legs, Cancel(u)
    PROVE  CallOK(Call')
<1> DEFINE l == WithFinal(leg[u])
           n == EnterDisconnected(SendBye(l))
           c == WithLeg(Call, u, l)
           d == WithLeg(Call, u, n)
           e == Event("Disconnect", "none")
           r == IF leg[u].cb THEN RecvEvent(Overtakes(d, u), Peer(u), e, "later") ELSE Done(c)
<1>1. leg[u].inv = "open" /\ Becomes(r)
  BY DEF Cancel
<1>2. LegOK(leg[u]) /\ leg[u] \in LegType
  BY LegCallOK
<1>3. LegOK(l)
  <2>1. /\ l \in LegType /\ l.inv = "final" /\ l.st = leg[u].st /\ l.ka = leg[u].ka
        /\ l.told = leg[u].told /\ l.refer = leg[u].refer /\ l.byes = leg[u].byes
        /\ l.eq = leg[u].eq
    BY <1>2, FinalFacts
  <2> HIDE DEF l
  <2> QED BY <1>1, <1>2, <2>1 DEF LegOK, Stuck, Ended
<1>4. LegOK(n)
  BY <1>2, FinalByeFacts
<1>5. CallOK(c) /\ CallOK(d)
  BY <1>3, <1>4, CallOKWithLeg
<1>6. e \in QueueType /\ e.kind \in Ends
  BY BodyTypes DEF Event, Ends
<1> DEFINE y == Overtakes(d, u)
           s == RecvEvent(y, Peer(u), e, "later")
<1> HIDE DEF d, c, e
<1>7. CallOK(y)
  BY <1>5, OvertakesFacts
<1>8. CallOK(s.c)
  <2> HIDE DEF y
  <2>1. Passed(y, s)
    BY <1>6, <1>7, EndsPass, PeerFacts
  <2> HIDE DEF s
  <2> QED BY <2>1 DEF Passed
<1>9. CallOK(r.c)
  <2>1. r = s \/ r = Done(c)
    OBVIOUS
  <2> HIDE DEF r, s
  <2> QED BY <1>5, <1>8, <2>1, ResultFacts
<1> HIDE DEF r
<1> QED BY <1>1, <1>9, BecomesCall DEF Becomes

LEMMA AckOfInviteKept ==
    ASSUME CallOK(Call), NEW u \in Legs, AckOfInvite(u)
    PROVE  /\ CallOK(Call')
           /\ Call' = WithLeg(Call, u, [leg[u] EXCEPT !.inv = "none", !.cb = FALSE])
<1> DEFINE m == [leg[u] EXCEPT !.inv = "none", !.cb = FALSE]
<1>1. LegOK(leg[u])
  BY LegCallOK
<1>2. leg[u].inv = "final" /\ leg' = [leg EXCEPT ![u] = m] /\ UNCHANGED held
  BY DEF AckOfInvite
<1>3. LegOK(m)
  <2>1. PICK b \in BOOLEAN : b = FALSE
    BY Zenon
  <2>2. m = [leg[u] EXCEPT !.inv = "none", !.cb = b]
    BY <2>1, Zenon
  <2> HIDE DEF m
  <2> QED BY <1>1, <1>2, <2>2, LegEdits
<1> HIDE DEF m
<1>4. Call' = WithLeg(Call, u, m)
  BY <1>2, LegCall
<1> QED BY <1>3, <1>4, CallOKWithLeg DEF m

LEMMA NoAckKept ==
    ASSUME env \in Environments, CallOK(Call), NEW o \in Outcomes, NEW u \in Legs, NoAck(u, o)
    PROVE  CallOK(Call')
<1> DEFINE m == [leg[u] EXCEPT !.inv = "none", !.cb = FALSE]
           c == WithLeg(Call, u, m)
           r == IF leg[u].cb THEN Disconnect(c, u, o) ELSE Done(c)
<1>1. LegOK(leg[u])
  BY LegCallOK
<1>2. leg[u].inv = "final" /\ Becomes(r)
  BY DEF NoAck
<1>3. LegOK(m)
  <2>1. PICK b \in BOOLEAN : b = FALSE
    BY Zenon
  <2>2. m = [leg[u] EXCEPT !.inv = "none", !.cb = b]
    BY <2>1, Zenon
  <2> HIDE DEF m
  <2> QED BY <1>1, <1>2, <2>2, LegEdits
<1>4. CallOK(c)
  BY <1>3, CallOKWithLeg
<1> HIDE DEF c
<1>5. CallOK(Disconnect(c, u, o).c)
  BY <1>4, DisconnectKept
<1>6. r = Disconnect(c, u, o) \/ r = Done(c)
  OBVIOUS
<1> HIDE DEF r
<1>7. CallOK(r.c)
  BY <1>4, <1>5, <1>6, ResultFacts
<1> QED BY <1>2, <1>7, BecomesCall DEF Becomes

\* The leg after a BYE or REFER of its far end, before it tells the other leg.
ByeLeg(l) == EnterDisconnected([EndsInvite(l) EXCEPT !.out = FALSE, !.told = TRUE])
Told(l)   == [l EXCEPT !.told = TRUE]

LEMMA ByeLegFacts ==
    ASSUME NEW l \in LegType
    PROVE  LET m == ByeLeg(l) IN
           LegOK(m) /\ m.st = "Disconnected" /\ m.inv = Closed(l) /\ m.eq = l.eq /\ Stuck(m)
<1> DEFINE j == EndsInvite(l)
           k == [j EXCEPT !.out = FALSE, !.told = TRUE]
<1>1. j \in LegType /\ j.inv = Closed(l) /\ j.eq = l.eq
  BY FinalFacts DEF EndsInvite, Closed
<1> HIDE DEF j
<1>2. k \in LegType /\ k.inv = j.inv /\ k.eq = j.eq /\ k.told
  <2>1. PICK b \in BOOLEAN, b2 \in BOOLEAN : b = FALSE /\ b2 = TRUE
    BY Zenon
  <2>2. k = [j EXCEPT !.out = b, !.told = b2]
    BY <2>1, Zenon
  <2> HIDE DEF k
  <2>3. k \in LegType /\ k.inv = j.inv /\ k.eq = j.eq /\ k.told = b2
    BY <1>1, <2>2 DEF LegType
  <2> QED BY <2>1, <2>3
<1> HIDE DEF k
<1> DEFINE m == EnterDisconnected(k)
<1>3. LegOK(m) /\ m.st = "Disconnected" /\ m.inv = k.inv /\ m.eq = k.eq /\ Stuck(m)
  BY <1>2, EndingFacts
<1>4. ByeLeg(l) = m
  BY DEF ByeLeg, k, j
<1> HIDE DEF m
<1> QED BY <1>1, <1>2, <1>3, <1>4

LEMMA ToldFacts ==
    ASSUME NEW l \in LegType
    PROVE  /\ Told(l) \in LegType /\ Told(l).told /\ Told(l).st = l.st /\ Told(l).inv = l.inv
           /\ LET m == EnterDisconnected(SendBye(Told(l))) IN
              LegOK(m) /\ m.st = "Disconnected" /\ m.inv = l.inv /\ m.eq = l.eq /\ Stuck(m)
           /\ LET m == EnterDisconnected(WithFinal(Told(l))) IN
              LegOK(m) /\ m.st = "Disconnected" /\ m.inv = "final" /\ m.eq = l.eq /\ Stuck(m)
<1> DEFINE t == Told(l)
<1>1. t \in LegType /\ t.told /\ t.st = l.st /\ t.inv = l.inv /\ t.eq = l.eq
  <2>1. PICK b \in BOOLEAN : b = TRUE
    BY Zenon
  <2>2. t = [l EXCEPT !.told = b]
    BY <2>1, Zenon DEF Told
  <2> HIDE DEF t
  <2>3. Same(t, l) /\ t.told = b
    BY <2>2, FlagFacts
  <2> QED BY <2>1, <2>3 DEF Same
<1> HIDE DEF t
<1> DEFINE k == SendBye(t)
           j == WithFinal(t)
<1>2. k \in LegType /\ k.told /\ k.inv = l.inv /\ k.eq = l.eq
  BY <1>1, ByeFacts
<1>3. j \in LegType /\ j.told /\ j.inv = "final" /\ j.eq = l.eq
  BY <1>1, FinalFacts
<1> HIDE DEF k, j
<1>4. LET m == EnterDisconnected(k) IN
      LegOK(m) /\ m.st = "Disconnected" /\ m.inv = k.inv /\ m.eq = k.eq /\ Stuck(m)
  BY <1>2, EndingFacts
<1>5. LET m == EnterDisconnected(j) IN
      LegOK(m) /\ m.st = "Disconnected" /\ m.inv = j.inv /\ m.eq = j.eq /\ Stuck(m)
  BY <1>3, EndingFacts
<1> QED BY <1>1, <1>2, <1>3, <1>4, <1>5 DEF t, k, j

\* A leg that has ended tells the other.
LEMMA EndedSpeaks ==
    ASSUME env \in Environments, NEW o \in Outcomes, NEW c, CallOK(c), NEW u \in Legs,
           NEW m, LegOK(m), NEW e \in QueueType
    PROVE  CallOK(Emit(Queue(WithLeg(c, u, m), u, <<e>>), u, o).c)
<1> DEFINE d == WithLeg(c, u, m)
<1>1. CallOK(d)
  BY CallOKWithLeg
<1> HIDE DEF d
<1>2. CallOK(Emit(Queue(d, u, <<e>>), u, o).c)
  BY <1>1, EmitKept
<1> QED BY <1>2 DEF d

LEMMA AlsoTypes ==
    \A also \in BOOLEAN : LET e == [Event("Disconnect", "none") EXCEPT !.also = also] IN
        e \in QueueType /\ e.kind = "Disconnect" /\ e.kind \in Ends
<1> SUFFICES ASSUME NEW also \in BOOLEAN
             PROVE  LET e == [Event("Disconnect", "none") EXCEPT !.also = also] IN
                    e \in QueueType /\ e.kind = "Disconnect" /\ e.kind \in Ends
  OBVIOUS
<1> DEFINE x == Event("Disconnect", "none")
<1>1. x \in QueueType /\ x.kind = "Disconnect"
  BY BodyTypes DEF Event
<1> HIDE DEF x
<1>2. [x EXCEPT !.also = also] \in QueueType /\ [x EXCEPT !.also = also].kind = x.kind
  BY <1>1 DEF EventType, QueueType
<1> QED BY <1>1, <1>2 DEF x, Ends

LEMMA ByeArrivesKept ==
    ASSUME env \in Environments, CallOK(Call), NEW o \in Outcomes, NEW u \in Legs,
           NEW also \in BOOLEAN, ByeArrives(u, also, o)
    PROVE  CallOK(Call')
<1> DEFINE l == leg[u]
           e == [Event("Disconnect", "none") EXCEPT !.also = also]
           s == Emit(Queue(WithLeg(Call, u, ByeLeg(l)), u, <<e>>), u, o)
           r == IF l.st = "UasUpdating" /\ l.inv # "open" THEN Raises(Call) ELSE s
<1>1. Becomes(r)
  BY DEF ByeArrives, ByeLeg
<1>2. LegOK(ByeLeg(l))
  BY LegCallOK, ByeLegFacts
<1>3. e \in QueueType
  BY AlsoTypes
<1> HIDE DEF e
<1>4. CallOK(s.c)
  BY <1>2, <1>3, EndedSpeaks
<1>5. r = s \/ r = Raises(Call)
  OBVIOUS
<1> HIDE DEF r, s
<1>6. CallOK(r.c)
  BY <1>4, <1>5, ResultFacts
<1> QED BY <1>1, <1>6, BecomesCall DEF Becomes

LEMMA ReferArrivesKept ==
    ASSUME env \in Environments, CallOK(Call), NEW o \in Outcomes, NEW u \in Legs,
           ReferArrives(u, o)
    PROVE  CallOK(Call')
<1> DEFINE l == Told(leg[u])
           e == [Event("Disconnect", "none") EXCEPT !.also = TRUE]
           Ending(how) == Emit(Queue(WithLeg(Call, u, EnterDisconnected(how)), u, <<e>>), u, o)
           s1 == Ending(SendBye(l))
           s2 == Ending(WithFinal(l))
<1>1. Becomes(s1) \/ Becomes(s2) \/ Becomes(Raises(Call))
  BY DEF ReferArrives, Told
<1>2. LegOK(EnterDisconnected(SendBye(l))) /\ LegOK(EnterDisconnected(WithFinal(l)))
  BY LegCallOK, ToldFacts
<1>3. e \in QueueType
  BY BodyTypes
<1> HIDE DEF e, l
<1>4. CallOK(s1.c) /\ CallOK(s2.c)
  BY <1>2, <1>3, EndedSpeaks
<1>5. CallOK(Raises(Call).c)
  BY ResultFacts
<1> HIDE DEF s1, s2
<1> QED BY <1>1, <1>4, <1>5, BecomesCall DEF Becomes

LEMMA InfoArrivesKept ==
    ASSUME env \in Environments, CallOK(Call), NEW o \in Outcomes, NEW u \in Legs,
           InfoArrives(u, o)
    PROVE  CallOK(Call')
<1> DEFINE e == Event("Info", "none")
           r == Emit(Queue(Call, u, <<e>>), u, o)
<1>1. Becomes(r)
  BY DEF InfoArrives
<1>2. e \in QueueType
  BY BodyTypes
<1>3. CallOK(r.c)
  BY <1>2, EmitKept
<1> HIDE DEF r
<1> QED BY <1>1, <1>3, BecomesCall DEF Becomes

LEMMA RingingKept ==
    ASSUME env \in Environments, CallOK(Call), NEW o \in Outcomes, NEW u \in Legs,
           NEW body \in Offers, Ringing(u, body, o)
    PROVE  CallOK(Call')
<1> DEFINE e == Event("Ring", body)
           r == Emit(Queue(Call, u, <<e>>), u, o)
<1>1. Becomes(r)
  BY DEF Ringing
<1>2. e \in QueueType
  BY OfferedBodies, BodyTypes
<1>3. CallOK(r.c)
  BY <1>2, EmitKept
<1> HIDE DEF r
<1> QED BY <1>1, <1>3, BecomesCall DEF Becomes

\* The leg after the final response to our re-INVITE.
Free(l) == [l EXCEPT !.out = FALSE]
\* Leg m is leg l after its re-INVITE has been accepted.
Relieved(m, l, b) ==
    /\ LegOK(m) /\ m.inv = l.inv /\ m.eq = <<>>
    /\ m.st = "Connected" /\ m.lsdp = l.lsdp /\ m.rsdp = b
Alive(m, l) == LegOK(m) /\ m.inv = l.inv /\ m.cb = l.cb /\ m.eq = <<>>

LEMMA FreeFacts ==
    ASSUME NEW l, LegOK(l), l.st = "UacUpdating", NEW u, NEW b \in Sdp
    PROVE  /\ Alive(Free(l), l) /\ Alike(Free(l), l)
           /\ Relieved(EnterConnected(Free(l), u), l, l.rsdp)
           /\ Relieved([EnterConnected(Free(l), u) EXCEPT !.rsdp = b], l, b)
           /\ LET m == [Free(l) EXCEPT !.lsdp = b] IN
              Alive(m, l) /\ m.st = "UacUpdating"
           /\ LET m == EnterConnected([Free(l) EXCEPT !.lsdp = b], u) IN Alive(m, l)
<1> DEFINE f == Free(l)
           k == EnterConnected(f, u)
           n == [k EXCEPT !.rsdp = b]
           d == [f EXCEPT !.lsdp = b]
           g == EnterConnected(d, u)
<1>1. l \in LegType /\ l.eq = <<>> /\ l.ka = "off"
  BY DEF LegOK, Stuck, Ended, LegType
<1>2. f \in LegType /\ Alike(f, l) /\ f.inv = l.inv /\ f.cb = l.cb /\ f.ka = l.ka
  <2>1. PICK x \in BOOLEAN : x = FALSE
    BY Zenon
  <2>2. f = [l EXCEPT !.out = x]
    BY <2>1, Zenon DEF Free
  <2> HIDE DEF f
  <2>3. Same(f, l) /\ f.cb = l.cb
    BY <1>1, <2>2, FlagFacts, OtherFlags
  <2> QED BY <2>3 DEF Same, Alike
<1> HIDE DEF f
<1>3. /\ k \in LegType /\ k.st = "Connected" /\ k.lsdp = f.lsdp /\ k.rsdp = f.rsdp
      /\ k.inv = f.inv /\ k.cb = f.cb /\ k.eq = f.eq
  BY <1>2, EnterConnectedFacts
<1>4. /\ d \in LegType /\ d.lsdp = b /\ d.st = f.st /\ d.rsdp = f.rsdp /\ d.inv = f.inv
      /\ d.cb = f.cb /\ d.ka = f.ka /\ d.eq = f.eq
  BY <1>2, SdpFacts
<1> HIDE DEF k, d
<1>5. /\ n \in LegType /\ n.rsdp = b /\ n.st = k.st /\ n.lsdp = k.lsdp /\ n.inv = k.inv
      /\ n.cb = k.cb /\ n.ka = k.ka /\ n.eq = k.eq
  BY <1>3, SdpFacts
<1>6. g \in LegType /\ g.st = "Connected" /\ g.inv = d.inv /\ g.cb = d.cb /\ g.eq = d.eq
  BY <1>4, EnterConnectedFacts
<1> HIDE DEF n, g
<1>7. Alive(f, l)
  BY <1>1, <1>2 DEF Alive, Alike, LegOK, Ended
<1>8. Alive(k, l)
  BY <1>1, <1>2, <1>3 DEF Alive, Alike, LegOK, Ended
<1>9. Alive(n, l)
  BY <1>1, <1>2, <1>3, <1>5 DEF Alive, Alike, LegOK, Ended
<1>10. Alive(d, l)
  BY <1>1, <1>2, <1>4 DEF Alive, Alike, LegOK, Ended
<1>11. Alive(g, l)
  BY <1>1, <1>2, <1>4, <1>6 DEF Alive, Alike, LegOK, Ended
<1>12. /\ Alike(f, l)
       /\ k.st = "Connected" /\ k.lsdp = l.lsdp /\ k.rsdp = l.rsdp
       /\ n.st = "Connected" /\ n.lsdp = l.lsdp /\ n.rsdp = b
       /\ d.st = "UacUpdating"
  BY <1>2, <1>3, <1>4, <1>5 DEF Alike
<1>13. Relieved(k, l, l.rsdp) /\ Relieved(n, l, b)
  BY <1>8, <1>9, <1>12 DEF Relieved, Alive
<1> QED BY <1>7, <1>10, <1>11, <1>12, <1>13 DEF f, k, n, d, g

LEMMA AcceptedKept ==
    ASSUME env \in Environments, CallOK(Call), NEW o \in Outcomes, NEW u \in Legs,
           NEW body \in Offers, Accepted(u, body, o)
    PROVE  CallOK(Call')
<1> DEFINE e == Event("Connect", body)
           l == Free(leg[u])
           d == EnterConnected(l, u)
           n == [d EXCEPT !.rsdp = body]
           x == WithLeg(Call, u, d)
           s1 == Emit(Queue(WithLeg(Call, u, n), u, <<e>>), u, o)
           s2 == UpdateFailed(WithLeg(Call, u, l), u, o)
           r == IF ~Proxied(u, e) THEN s1
                ELSE CASE o = "later" -> Done(Hold(x, "remote", e))
                       [] o = "error" -> s2
                       [] o = "never" -> Done(x)
<1>1. leg[u].st = "UacUpdating" /\ Becomes(r)
  BY DEF Accepted, Free
<1>2. LegOK(leg[u]) /\ body \in Sdp
  BY LegCallOK, OfferedBodies
<1>3. LegOK(l) /\ LegOK(d) /\ LegOK(n)
  BY <1>1, <1>2, FreeFacts DEF Alive, Relieved
<1>4. e \in QueueType /\ e \in EventType(EventKinds)
  BY <1>2, BodyTypes, TypesWiden
<1>5. CallOK(x) /\ CallOK(WithLeg(Call, u, l))
  BY <1>3, CallOKWithLeg
<1> HIDE DEF e, l, n
<1>6. CallOK(s1.c)
  BY <1>3, <1>4, EndedSpeaks
<1>7. CallOK(s2.c)
  BY <1>5, UpdateFailedKept
<1> HIDE DEF x, s1, s2
<1>8. CallOK(Hold(x, "remote", e))
  BY <1>4, <1>5, HoldFacts
<1>9. r = s1 \/ r = Done(Hold(x, "remote", e)) \/ r = s2 \/ r = Done(x)
  BY ProxiedOutcomes
<1> HIDE DEF r
<1>10. CallOK(r.c)
  BY <1>5, <1>6, <1>7, <1>8, <1>9, ResultFacts
<1> QED BY <1>1, <1>10, BecomesCall DEF Becomes

LEMMA RejectedKept ==
    ASSUME env \in Environments, CallOK(Call), NEW o \in Outcomes, NEW u \in Legs,
           NEW how \in {"redirect", "refused", "timeout"}, Rejected(u, how, o)
    PROVE  CallOK(Call')
<1> DEFINE l == Free(leg[u])
           d == [l EXCEPT !.lsdp = "none"]
           e1 == Event("Redirect", "none")
           e2 == Event("Fail", "none")
           s1 == Emit(Queue(WithLeg(Call, u, EnterConnected(l, u)), u, <<e1>>), u, o)
           s2 == Emit(Queue(WithLeg(Call, u, EnterConnected(d, u)), u, <<e2>>), u, o)
           s3 == UpdateFailed(WithLeg(Call, u, d), u, o)
<1>1. leg[u].st = "UacUpdating" /\ (Becomes(s1) \/ Becomes(s2) \/ Becomes(s3))
  BY DEF Rejected, Free
<1>2. LegOK(leg[u]) /\ "none" \in Sdp
  BY LegCallOK, BodyTypes
<1>3. LegOK(EnterConnected(l, u)) /\ LegOK(d) /\ LegOK(EnterConnected(d, u))
  BY <1>1, <1>2, FreeFacts DEF Alive, Relieved
<1>4. e1 \in QueueType /\ e2 \in QueueType
  BY BodyTypes
<1>5. CallOK(WithLeg(Call, u, d))
  BY <1>3, CallOKWithLeg
<1> HIDE DEF e1, e2, l, d
<1>6. CallOK(s1.c) /\ CallOK(s2.c)
  BY <1>3, <1>4, EndedSpeaks
<1>7. CallOK(s3.c)
  BY <1>5, UpdateFailedKept
<1> HIDE DEF s1, s2, s3
<1> QED BY <1>1, <1>6, <1>7, BecomesCall DEF Becomes

LEMMA ReferResponseKept ==
    ASSUME CallOK(Call), NEW u \in Legs, NEW final \in BOOLEAN, ReferResponse(u, final)
    PROVE  CallOK(Call') /\ Call' = WithLeg(Call, u, [SendBye(leg[u]) EXCEPT !.refer = ~final])
<1> DEFINE m == [SendBye(leg[u]) EXCEPT !.refer = ~final]
<1>1. LegOK(leg[u])
  BY LegCallOK
<1>2. leg' = [leg EXCEPT ![u] = m] /\ UNCHANGED held
  BY DEF ReferResponse
<1>3. LegOK(m)
  <2>1. PICK b \in BOOLEAN : b = ~final
    BY Zenon
  <2>2. m = [SendBye(leg[u]) EXCEPT !.refer = b]
    BY <2>1, Zenon
  <2> HIDE DEF m
  <2> QED BY <1>1, <2>2, ReferFacts
<1> HIDE DEF m
<1>4. Call' = WithLeg(Call, u, m)
  BY <1>2, LegCall
<1> QED BY <1>3, <1>4, CallOKWithLeg DEF m

\* The bodies that stay at the proxy.
Removed(g, h, i) ==
    /\ g \in Seq(HeldType) /\ i \in 1 .. Len(h) /\ Len(g) = Len(h) - 1
    /\ \A j \in 1 .. Len(g) : g[j] = IF j < i THEN h[j] ELSE h[j + 1]

LEMMA RemoveFacts ==
    ASSUME NEW h \in Seq(HeldType), NEW i \in DOMAIN h
    PROVE  Removed(RemoveAt(h, i), h, i) /\ h[i] \in HeldType
<1>1. i \in 1 .. Len(h) /\ Len(h) \in Nat
  OBVIOUS
<1> DEFINE p == SubSeq(h, 1, i - 1)
           q == SubSeq(h, i + 1, Len(h))
           g == p \o q
<1>2. p \in Seq(HeldType) /\ Len(p) = i - 1 /\ \A j \in 1 .. i - 1 : p[j] = h[j]
  BY <1>1
<1>3. q \in Seq(HeldType) /\ Len(q) = Len(h) - i /\ \A j \in 1 .. Len(h) - i : q[j] = h[i + j]
  BY <1>1
<1> HIDE DEF p, q
<1>4. g \in Seq(HeldType) /\ Len(g) = Len(h) - 1
  BY <1>1, <1>2, <1>3
<1>5. ASSUME NEW j \in 1 .. Len(h) - 1
      PROVE  g[j] = IF j < i THEN h[j] ELSE h[j + 1]
  <2>1. CASE j < i
    BY <1>1, <1>2, <1>3, <2>1
  <2>2. CASE ~(j < i)
    <3>1. g[j] = q[j - Len(p)]
      BY <1>1, <1>2, <1>3, <2>2
    <3>2. j - Len(p) \in 1 .. Len(h) - i /\ i + (j - Len(p)) = j + 1
      BY <1>1, <1>2, <2>2
    <3> QED BY <1>3, <2>2, <3>1, <3>2
  <2> QED BY <2>1, <2>2
<1>6. RemoveAt(h, i) = g
  BY DEF RemoveAt, p, q
<1> HIDE DEF g
<1>7. h[i] \in HeldType
  BY <1>1
<1> QED BY <1>1, <1>4, <1>5, <1>6, <1>7 DEF Removed

LEMMA RsdpFacts ==
    ASSUME NEW l, LegOK(l), NEW b \in Sdp
    PROVE  LET m == [l EXCEPT !.rsdp = b] IN
           /\ LegOK(m) /\ m.rsdp = b /\ m.st = l.st /\ m.lsdp = l.lsdp /\ m.inv = l.inv
           /\ m.cb = l.cb /\ m.eq = l.eq
<1> DEFINE m == [l EXCEPT !.rsdp = b]
<1>1. l \in LegType
  BY DEF LegOK
<1>2. /\ m \in LegType /\ m.rsdp = b
      /\ m.st = l.st /\ m.lsdp = l.lsdp /\ m.inv = l.inv /\ m.cb = l.cb
      /\ m.ka = l.ka /\ m.told = l.told /\ m.refer = l.refer /\ m.byes = l.byes /\ m.eq = l.eq
  BY <1>1, SdpFacts
<1> HIDE DEF m
<1>3. LegOK(m)
  BY <1>2 DEF LegOK, Stuck
<1> QED BY <1>2, <1>3 DEF m

LEMMA StaleTypes ==
    ASSUME NEW x \in HeldType
    PROVE  LET e == [x.ev EXCEPT !.fresh = FALSE] IN
           /\ e \in EventType(EventKinds) /\ e.kind = x.ev.kind /\ e.body = x.ev.body
           /\ e.body \in Sdp /\ ~e.fresh /\ e.also = x.ev.also
<1> DEFINE v == x.ev
           e == [v EXCEPT !.fresh = FALSE]
<1>1. v \in EventType(EventKinds)
  BY DEF HeldType
<1>2. PICK b \in BOOLEAN : b = FALSE
  BY Zenon
<1>3. e = [v EXCEPT !.fresh = b]
  BY <1>2, Zenon
<1> HIDE DEF v, e
<1>4. e \in EventType(EventKinds) /\ e.kind = v.kind /\ e.body = v.body /\ e.body \in Sdp
      /\ e.fresh = b /\ e.also = v.also
  BY <1>1, <1>3 DEF EventType
<1>5. ~e.fresh
  BY <1>2, <1>4
<1> QED BY <1>4, <1>5 DEF v, e

LEMMA RemoteSdpDoneKept ==
    ASSUME env \in Environments, CallOK(Call), NEW o \in Outcomes, NEW i \in DOMAIN held,
           NEW ok, RemoteSdpDone(i, ok, o)
    PROVE  CallOK(Call')
<1> DEFINE x == held[i]
           c == WithHeld(Call, RemoveAt(held, i))
           m == [leg["O"] EXCEPT !.rsdp = x.ev.body]
           d == WithLeg(c, "O", m)
           y == OvertakesBefore(d, i)
           e == [x.ev EXCEPT !.fresh = FALSE]
           s1 == Refused(c, o)
           s2 == RecvEvent(y, "A", e, o)
<1>1. Becomes(s1) \/ Becomes(Done(d)) \/ Becomes(s2)
  BY DEF RemoteSdpDone
<1>2. held \in Seq(HeldType) /\ "A" \in Legs /\ "O" \in Legs
  BY CallOKFacts, CallFields, LegsAre
<1>3. RemoveAt(held, i) \in Seq(HeldType) /\ x \in HeldType
  BY <1>2, RemoveFacts DEF Removed
<1>4. CallOK(c)
  BY <1>3, CallOKWithHeld
<1>5. e \in EventType(EventKinds) /\ e.body = x.ev.body /\ e.body \in Sdp
  BY <1>3, StaleTypes
<1>6. LegOK(m)
  <2>1. LegOK(leg["O"]) /\ x.ev.body \in Sdp
    BY <1>2, <1>5, LegCallOK
  <2> QED BY <2>1, RsdpFacts
<1> HIDE DEF c, x, m, e
<1>7. CallOK(d) /\ CallOK(y)
  BY <1>2, <1>4, <1>6, CallOKWithLeg, OvertakesFacts
<1>8. CallOK(s1.c)
  BY <1>4, RefusedKept
<1> HIDE DEF d, y
<1>9. CallOK(s2.c)
  <2>1. Passed(y, s2)
    BY <1>2, <1>5, <1>7, RecvEventPasses
  <2> HIDE DEF s2
  <2> QED BY <2>1 DEF Passed
<1>10. CallOK(Done(d).c)
  BY <1>7, ResultFacts
<1> HIDE DEF s1, s2
<1> QED BY <1>1, <1>8, <1>9, <1>10, BecomesCall DEF Becomes

LEMMA LocalSdpDoneKept ==
    ASSUME env \in Environments, CallOK(Call), NEW o \in Outcomes, NEW i \in DOMAIN held,
           NEW ok, LocalSdpDone(i, ok, o)
    PROVE  CallOK(Call')
<1> DEFINE x == held[i]
           c == WithHeld(Call, RemoveAt(held, i))
           e == [x.ev EXCEPT !.fresh = FALSE]
           s1 == Refused(c, o)
           s2 == RecvEvent(c, "O", e, o)
<1>1. Becomes(s1) \/ Becomes(s2)
  BY DEF LocalSdpDone
<1>2. held \in Seq(HeldType) /\ "O" \in Legs
  BY CallOKFacts, CallFields, LegsAre
<1>3. RemoveAt(held, i) \in Seq(HeldType) /\ x \in HeldType
  BY <1>2, RemoveFacts DEF Removed
<1>4. CallOK(c)
  BY <1>3, CallOKWithHeld
<1>5. e \in EventType(EventKinds)
  BY <1>3, StaleTypes
<1> HIDE DEF c, x, e
<1>6. CallOK(s1.c)
  BY <1>4, RefusedKept
<1>7. CallOK(s2.c)
  <2>1. Passed(c, s2)
    BY <1>2, <1>4, <1>5, RecvEventPasses
  <2> HIDE DEF s2
  <2> QED BY <2>1 DEF Passed
<1> HIDE DEF s1, s2
<1> QED BY <1>1, <1>6, <1>7, BecomesCall DEF Becomes

LEMMA KeepAliveKept ==
    ASSUME CallOK(Call), NEW u \in Legs, KeepAlive(u)
    PROVE  /\ CallOK(Call')
           /\ \E m : /\ Call' = WithLeg(Call, u, m) /\ LegOK(m) /\ Alike(m, leg[u])
                     /\ m.inv = leg[u].inv /\ m.cb = leg[u].cb
<1>1. LegOK(leg[u]) /\ leg[u] \in LegType
  BY LegCallOK
<1> DEFINE m1 == [leg[u] EXCEPT !.ka = "sent"]
           m2 == [leg[u] EXCEPT !.old = FALSE]
<1>2. /\ UNCHANGED held
      /\ \/ leg[u].ka = "timer" /\ leg' = [leg EXCEPT ![u] = m1]
         \/ leg' = [leg EXCEPT ![u] = m2]
  BY DEF KeepAlive
<1>3. leg[u].ka = "timer" => LegOK(m1)
  BY <1>1, LegEdits
<1>4. LegOK(m2)
  <2>1. PICK b \in BOOLEAN : b = FALSE
    BY Zenon
  <2>2. m2 = [leg[u] EXCEPT !.old = b]
    BY <2>1, Zenon
  <2> HIDE DEF m2
  <2> QED BY <1>1, <2>2, LegEdits
<1>5. /\ Alike(m1, leg[u]) /\ m1.inv = leg[u].inv /\ m1.cb = leg[u].cb
      /\ Alike(m2, leg[u]) /\ m2.inv = leg[u].inv /\ m2.cb = leg[u].cb
  BY <1>1, LegEditsAlike
<1> HIDE DEF m1, m2
<1>6. CASE leg[u].ka = "timer" /\ leg' = [leg EXCEPT ![u] = m1]
  <2>1. Call' = WithLeg(Call, u, m1)
    BY <1>2, <1>6, LegCall
  <2> QED BY <1>3, <1>5, <1>6, <2>1, CallOKWithLeg
<1>7. CASE leg' = [leg EXCEPT ![u] = m2]
  <2>1. Call' = WithLeg(Call, u, m2)
    BY <1>2, <1>7, LegCall
  <2> QED BY <1>4, <1>5, <2>1, CallOKWithLeg
<1> QED BY <1>2, <1>6, <1>7

LEMMA KeepAliveRespKept ==
    ASSUME env \in Environments, CallOK(Call), NEW o \in Outcomes, NEW u \in Legs, NEW good,
           KeepAliveResp(u, good, o)
    PROVE  CallOK(Call')
<1>1. LegOK(leg[u]) /\ leg[u] \in LegType
  BY LegCallOK
<1> DEFINE l == leg[u]
           m1 == [l EXCEPT !.ka = "timer", !.first = FALSE]
           m2 == [l EXCEPT !.ka = "off", !.first = FALSE, !.last = TRUE]
           m3 == [l EXCEPT !.ka = "off"]
           s == Disconnect(WithLeg(Call, u, m3), u, o)
<1>2. /\ l.ka = "sent"
      /\ \/ Becomes(Done(WithLeg(Call, u, m1))) \/ Becomes(Done(WithLeg(Call, u, m2)))
         \/ Becomes(s)
  BY DEF KeepAliveResp
<1>3. LegOK(m1) /\ LegOK(m2) /\ LegOK(m3)
  <2>1. PICK b \in BOOLEAN, b2 \in BOOLEAN : b = FALSE /\ b2 = TRUE
    BY Zenon
  <2>2. /\ m1 = [l EXCEPT !.ka = "timer", !.first = b]
        /\ m2 = [l EXCEPT !.ka = "off", !.first = b, !.last = b2]
    BY <2>1, Zenon
  <2> HIDE DEF m1, m2, l
  <2> QED BY <1>1, <1>2, <2>2, LegEdits DEF l
<1>4. CallOK(WithLeg(Call, u, m1)) /\ CallOK(WithLeg(Call, u, m2)) /\ CallOK(WithLeg(Call, u, m3))
  BY <1>3, CallOKWithLeg
<1>5. CallOK(s.c)
  BY <1>4, DisconnectKept
<1> HIDE DEF m1, m2, s
<1>6. CallOK(Done(WithLeg(Call, u, m1)).c) /\ CallOK(Done(WithLeg(Call, u, m2)).c)
  BY <1>4, ResultFacts
<1> QED BY <1>2, <1>5, <1>6, BecomesCall DEF Becomes

LEMMA LastTimerKept ==
    ASSUME env \in Environments, CallOK(Call), NEW o \in Outcomes, NEW u \in Legs,
           LastTimer(u, o)
    PROVE  CallOK(Call')
<1> DEFINE m == [leg[u] EXCEPT !.last = FALSE]
           s == Disconnect(WithLeg(Call, u, m), u, o)
<1>1. LegOK(leg[u]) /\ Becomes(s)
  BY LegCallOK DEF LastTimer
<1>2. LegOK(m)
  <2>1. PICK b \in BOOLEAN : b = FALSE
    BY Zenon
  <2>2. m = [leg[u] EXCEPT !.last = b]
    BY <2>1, Zenon
  <2> HIDE DEF m
  <2> QED BY <1>1, <2>2, LegEdits
<1>3. CallOK(WithLeg(Call, u, m))
  BY <1>2, CallOKWithLeg
<1>4. CallOK(s.c)
  BY <1>3, DisconnectKept
<1> HIDE DEF s
<1> QED BY <1>1, <1>4, BecomesCall DEF Becomes

LEMMA HangupKept ==
    ASSUME env \in Environments, CallOK(Call), NEW o \in Outcomes, NEW u \in Legs, Hangup(u, o)
    PROVE  CallOK(Call')
<1> DEFINE s == Disconnect(Call, u, o)
<1>1. Becomes(s)
  BY DEF Hangup
<1>2. CallOK(s.c)
  BY DisconnectKept
<1> HIDE DEF s
<1> QED BY <1>1, <1>2, BecomesCall DEF Becomes

LEMMA GoDeadKept ==
    ASSUME CallOK(Call), NEW u \in Legs, GoDead(u)
    PROVE  /\ CallOK(Call') /\ leg[u].st = "Disconnected"
           /\ Call' = WithLeg(Call, u, [leg[u] EXCEPT !.st = "Dead"])
<1> DEFINE m == [leg[u] EXCEPT !.st = "Dead"]
<1>1. leg[u].st = "Disconnected" /\ leg' = [leg EXCEPT ![u] = m] /\ UNCHANGED held
  BY DEF GoDead
<1>2. LegOK(m)
  BY <1>1, LegCallOK, LegEdits
<1> HIDE DEF m
<1>3. Call' = WithLeg(Call, u, m)
  BY <1>1, LegCall
<1> QED BY <1>1, <1>2, <1>3, CallOKWithLeg DEF m

-----------------------------------------------------------------------------
(* The bodies at the RTP proxy.                                            *)

LEMMA BodIs ==
    ASSUME NEW h \in Seq(HeldType), NEW T, NEW b
    PROVE  b \in Bod(h, T) <=> \E i \in 1 .. Len(h) : Role(h[i]) \in T /\ h[i].ev.body = b
BY DEF Bod

LEMMA FewIs ==
    ASSUME NEW h \in Seq(HeldType), NEW T
    PROVE  Few(h, T) <=> \A i, j \in 1 .. Len(h) : Role(h[i]) \in T /\ Role(h[j]) \in T => i = j
BY DEF Few

LEMMA BodMono ==
    ASSUME NEW h \in Seq(HeldType)
    PROVE  /\ Bod(h, {"askA"}) \subseteq Bod(h, OfA) /\ Bod(h, {"answerA"}) \subseteq Bod(h, OfA)
           /\ Bod(h, {"answerO"}) \subseteq Bod(h, OfO)
BY DEF Bod, OfA, OfO

\* What all questions about the bodies depend on.
Fewer(g, h) ==
    /\ Bod(g, OfA) \subseteq Bod(h, OfA) /\ Bod(g, OfO) \subseteq Bod(h, OfO)
    /\ Bod(g, {"askA"}) \subseteq Bod(h, {"askA"})
    /\ Bod(g, {"answerA"}) \subseteq Bod(h, {"answerA"})
    /\ Bod(g, {"answerO"}) \subseteq Bod(h, {"answerO"})
    /\ HeldWell(h) => HeldWell(g)

\* Member i of g is member at[i] of h.
Embeds(g, h, at) ==
    /\ \A i \in 1 .. Len(g) : /\ at[i] \in 1 .. Len(h)
                              /\ g[i].dir = h[at[i]].dir /\ g[i].ev = h[at[i]].ev
    /\ \A i, j \in 1 .. Len(g) : at[i] = at[j] => i = j

LEMMA FewerBy ==
    ASSUME NEW g \in Seq(HeldType), NEW h \in Seq(HeldType), NEW at, Embeds(g, h, at)
    PROVE  Fewer(g, h)
<1> USE DEF Embeds
<1>1. \A i \in 1 .. Len(g) : Role(g[i]) = Role(h[at[i]]) /\ g[i].ev = h[at[i]].ev
  BY DEF Role
<1>2. ASSUME NEW T PROVE Bod(g, T) \subseteq Bod(h, T)
  <2> SUFFICES ASSUME NEW b \in Bod(g, T) PROVE b \in Bod(h, T)
    OBVIOUS
  <2>1. PICK i \in 1 .. Len(g) : Role(g[i]) \in T /\ g[i].ev.body = b
    BY BodIs
  <2>2. at[i] \in 1 .. Len(h) /\ Role(h[at[i]]) \in T /\ h[at[i]].ev.body = b
    BY <1>1, <2>1
  <2> QED BY <2>2, BodIs
<1>3. ASSUME NEW T, Few(h, T) PROVE Few(g, T)
  <2> SUFFICES ASSUME NEW i \in 1 .. Len(g), NEW j \in 1 .. Len(g),
                      Role(g[i]) \in T, Role(g[j]) \in T
               PROVE  i = j
    BY FewIs
  <2>1. Role(h[at[i]]) \in T /\ Role(h[at[j]]) \in T /\ at[i] \in 1 .. Len(h) /\ at[j] \in 1 .. Len(h)
    BY <1>1
  <2>2. at[i] = at[j]
    BY <1>3, <2>1, FewIs
  <2> QED BY <2>2
<1>4. ASSUME HeldWell(h) PROVE HeldWell(g)
  <2>1. DOMAIN g = 1 .. Len(g) /\ DOMAIN h = 1 .. Len(h)
    OBVIOUS
  <2>2. \A i \in DOMAIN g : Role(g[i]) # "other" /\ g[i].ev.body # "none"
    BY <1>1, <1>4, <2>1 DEF HeldWell
  <2>3. Few(g, OfA) /\ Few(g, OfO)
    BY <1>3, <1>4 DEF HeldWell
  <2>4. Bod(g, {"answerA"}) = {} \/ Bod(g, {"answerO"}) = {}
    BY <1>2, <1>4 DEF HeldWell
  <2> QED BY <2>2, <2>3, <2>4 DEF HeldWell
<1>5. /\ Bod(g, OfA) \subseteq Bod(h, OfA) /\ Bod(g, OfO) \subseteq Bod(h, OfO)
      /\ Bod(g, {"askA"}) \subseteq Bod(h, {"askA"})
      /\ Bod(g, {"answerA"}) \subseteq Bod(h, {"answerA"})
      /\ Bod(g, {"answerO"}) \subseteq Bod(h, {"answerO"})
  BY <1>2
<1> QED BY <1>4, <1>5 DEF Fewer

LEMMA DelayedFewer ==
    ASSUME NEW h \in Seq(HeldType), NEW g, Delayed(g, h)
    PROVE  Fewer(g, h) /\ (h = <<>> => g = <<>>)
<1>1. g \in Seq(HeldType) /\ Len(g) = Len(h) /\ Len(h) \in Nat
  BY DEF Delayed
<1> DEFINE at == [i \in 1 .. Len(h) |-> i]
<1>2. \A i \in 1 .. Len(g) : at[i] = i
  BY <1>1
<1>3. \A i \in 1 .. Len(g) : g[i].dir = h[i].dir /\ g[i].ev = h[i].ev
  BY <1>1 DEF Delayed
<1> HIDE DEF at
<1>4. Fewer(g, h)
  <2>1. Embeds(g, h, at)
    BY <1>1, <1>2, <1>3 DEF Embeds
  <2> QED BY <1>1, <2>1, FewerBy
<1>5. h = <<>> => g = <<>>
  BY <1>1
<1> QED BY <1>4, <1>5

LEMMA RemovedFewer ==
    ASSUME NEW h \in Seq(HeldType), NEW g, NEW i, Removed(g, h, i)
    PROVE  /\ Fewer(g, h) /\ h[i] \in HeldType
           /\ \A T : /\ Role(h[i]) \in T => h[i].ev.body \in Bod(h, T)
                     /\ Role(h[i]) \in T /\ Few(h, T) => Bod(g, T) = {}
<1>1. /\ g \in Seq(HeldType) /\ i \in 1 .. Len(h) /\ Len(g) = Len(h) - 1 /\ Len(h) \in Nat
      /\ \A j \in 1 .. Len(g) : g[j] = IF j < i THEN h[j] ELSE h[j + 1]
  BY DEF Removed
<1> DEFINE at == [j \in 1 .. Len(g) |-> IF j < i THEN j ELSE j + 1]
<1>2. ASSUME NEW j \in 1 .. Len(g)
      PROVE  at[j] \in 1 .. Len(h) /\ at[j] # i /\ g[j] = h[at[j]]
  BY <1>1
<1>3. \A j, k \in 1 .. Len(g) : at[j] = at[k] => j = k
  BY <1>1
<1> HIDE DEF at
<1>4. Fewer(g, h)
  <2>1. Embeds(g, h, at)
    BY <1>1, <1>2, <1>3 DEF Embeds
  <2> QED BY <1>1, <2>1, FewerBy
<1>5. ASSUME NEW T, Role(h[i]) \in T
      PROVE  h[i].ev.body \in Bod(h, T) /\ (Few(h, T) => Bod(g, T) = {})
  <2>1. h[i].ev.body \in Bod(h, T)
    BY <1>1, <1>5, BodIs
  <2>2. ASSUME Few(h, T), NEW b \in Bod(g, T) PROVE FALSE
    <3>1. PICK j \in 1 .. Len(g) : Role(g[j]) \in T
      BY <1>1, <2>2, BodIs
    <3>2. Role(h[at[j]]) \in T /\ at[j] \in 1 .. Len(h) /\ at[j] # i
      BY <1>2, <3>1
    <3> QED BY <1>1, <1>5, <2>2, <3>2, FewIs
  <2> QED BY <2>1, <2>2
<1>6. h[i] \in HeldType
  BY <1>1
<1> QED BY <1>4, <1>5, <1>6

\* g is h with one body more, which is part of what role says.
Added(g, h, role, b) ==
    /\ g \in Seq(HeldType) /\ Len(g) = Len(h) + 1
    /\ \A i \in 1 .. Len(h) : g[i] = h[i]
    /\ Role(g[Len(h) + 1]) = role /\ g[Len(h) + 1].ev.body = b

LEMMA AddedFacts ==
    ASSUME NEW h \in Seq(HeldType), NEW g, NEW role, NEW b, Added(g, h, role, b)
    PROVE  /\ \A T : Bod(g, T) = IF role \in T THEN Bod(h, T) \cup {b} ELSE Bod(h, T)
           /\ \A T : Few(h, T) /\ (role \in T => Bod(h, T) = {}) => Few(g, T)
<1>1. /\ g \in Seq(HeldType) /\ Len(g) = Len(h) + 1 /\ Len(h) \in Nat
      /\ \A i \in 1 .. Len(h) : g[i] = h[i]
      /\ Role(g[Len(h) + 1]) = role /\ g[Len(h) + 1].ev.body = b
  BY DEF Added
<1>2. ASSUME NEW T PROVE Bod(g, T) = IF role \in T THEN Bod(h, T) \cup {b} ELSE Bod(h, T)
  <2>1. \A x : x \in Bod(h, T) => x \in Bod(g, T)
    <3> SUFFICES ASSUME NEW x \in Bod(h, T) PROVE x \in Bod(g, T)
      OBVIOUS
    <3>1. PICK i \in 1 .. Len(h) : Role(h[i]) \in T /\ h[i].ev.body = x
      BY BodIs
    <3>2. i \in 1 .. Len(g) /\ g[i] = h[i]
      BY <1>1
    <3> QED BY <1>1, <3>1, <3>2, BodIs
  <2>2. role \in T => b \in Bod(g, T)
    <3>1. Len(h) + 1 \in 1 .. Len(g)
      BY <1>1
    <3> QED BY <1>1, <3>1, BodIs
  <2>3. \A x : x \in Bod(g, T) => x \in Bod(h, T) \/ (x = b /\ role \in T)
    <3> SUFFICES ASSUME NEW x \in Bod(g, T) PROVE x \in Bod(h, T) \/ (x = b /\ role \in T)
      OBVIOUS
    <3>1. PICK i \in 1 .. Len(g) : Role(g[i]) \in T /\ g[i].ev.body = x
      BY <1>1, BodIs
    <3>2. i \in 1 .. Len(h) \/ i = Len(h) + 1
      BY <1>1
    <3> QED BY <1>1, <3>1, <3>2, BodIs
  <2> QED BY <2>1, <2>2, <2>3
<1>3. ASSUME NEW T, Few(h, T), role \in T => Bod(h, T) = {} PROVE Few(g, T)
  <2> SUFFICES ASSUME NEW i \in 1 .. Len(g), NEW j \in 1 .. Len(g),
                      Role(g[i]) \in T, Role(g[j]) \in T
               PROVE  i = j
    BY <1>1, FewIs
  <2>1. (i \in 1 .. Len(h) \/ i = Len(h) + 1) /\ (j \in 1 .. Len(h) \/ j = Len(h) + 1)
    BY <1>1
  <2>2. CASE role \in T
    <3>1. \A k \in 1 .. Len(h) : Role(h[k]) \notin T
      <4> SUFFICES ASSUME NEW k \in 1 .. Len(h), Role(h[k]) \in T PROVE FALSE
        OBVIOUS
      <4>1. h[k].ev.body \in Bod(h, T)
        BY BodIs
      <4> QED BY <1>3, <2>2, <4>1
    <3> QED BY <1>1, <2>1, <3>1
  <2>3. CASE role \notin T
    BY <1>1, <1>3, <2>1, <2>3, FewIs
  <2> QED BY <2>2, <2>3
<1> QED BY <1>2, <1>3

-----------------------------------------------------------------------------
(* A call in which nobody refuses anything.                                *)

LEMMA BenignIs ==
    ASSUME env \in Environments, Benign
    PROVE  /\ env.far = "good" /\ ~Bad
           /\ \/ env.rtpp = "no" /\ Outcomes = {"direct"}
              \/ env.rtpp = "good" /\ Outcomes = {"later"}
BY EnvType DEF Benign, Outcomes, Bad

LEMMA ExchangeFewer ==
    ASSUME NEW a, NEW o, NEW h, NEW g, Exchange(a, o, h), Fewer(g, h)
    PROVE  Exchange(a, o, g)
<1>1. AsksA(a, o, g)
  BY DEF Exchange, AsksA, Fewer
<1>2. AsksO(a, o, g)
  BY DEF Exchange, AsksO, Fewer
<1> QED BY <1>1, <1>2 DEF Exchange, Fewer

LEMMA ExchangeAlike ==
    ASSUME NEW a, NEW o, NEW h, NEW b, NEW p, Exchange(a, o, h), Alike(b, a), Alike(p, o)
    PROVE  Exchange(b, p, h)
BY DEF Exchange, Alike, Described, AsksA, AsksO

LEMMA PairedFewer ==
    ASSUME NEW c, NEW d, Paired(c), d.leg = c.leg, Fewer(d.held, c.held),
           c.held = <<>> => d.held = <<>>
    PROVE  Paired(d)
BY ExchangeFewer DEF Paired, Well

LEMMA PairedOvertakes ==
    ASSUME NEW c, CallOK(c), NEW u, NEW n, Paired(c)
    PROVE  Paired(Overtakes(c, u)) /\ Paired(OvertakesBefore(c, n))
<1>1. /\ Overtakes(c, u).leg = c.leg /\ Delayed(Overtakes(c, u).held, c.held)
      /\ OvertakesBefore(c, n).leg = c.leg /\ Delayed(OvertakesBefore(c, n).held, c.held)
  BY OvertakesFacts
<1>2. c.held \in Seq(HeldType)
  BY CallOKFacts
<1>3. /\ Fewer(Overtakes(c, u).held, c.held) /\ (c.held = <<>> => Overtakes(c, u).held = <<>>)
      /\ Fewer(OvertakesBefore(c, n).held, c.held)
      /\ (c.held = <<>> => OvertakesBefore(c, n).held = <<>>)
  BY <1>1, <1>2, DelayedFewer
<1> QED BY <1>1, <1>3, PairedFewer

\* The two legs by name.
LEMMA LegByName ==
    ASSUME NEW c, Shape(c), NEW u \in Legs, NEW m
    PROVE  /\ u = "A" => WithLeg(c, u, m).leg["A"] = m /\ WithLeg(c, u, m).leg["O"] = c.leg["O"]
           /\ u = "O" => WithLeg(c, u, m).leg["O"] = m /\ WithLeg(c, u, m).leg["A"] = c.leg["A"]
           /\ u = "A" \/ u = "O"
           /\ WithLeg(c, u, m).held = c.held
BY WithLegFacts, LegsAre

LEMMA PairedEdit ==
    ASSUME NEW c, CallOK(c), NEW u \in Legs, NEW m, Paired(c), Alike(m, c.leg[u]), LegWell(m)
    PROVE  Paired(WithLeg(c, u, m))
<1>1. Shape(c)
  BY CallOKFacts
<1>2. \A l : Alike(l, l)
  BY DEF Alike
<1>3. CASE u = "A"
  <2>1. /\ WithLeg(c, u, m).leg["A"] = m /\ WithLeg(c, u, m).leg["O"] = c.leg["O"]
        /\ WithLeg(c, u, m).held = c.held
    BY <1>1, <1>3, LegByName
  <2>2. Exchange(c.leg["A"], c.leg["O"], c.held) => Exchange(m, c.leg["O"], c.held)
    BY <1>2, <1>3, ExchangeAlike
  <2>3. m.st = c.leg["A"].st
    BY <1>3 DEF Alike
  <2> QED BY <2>1, <2>2, <2>3 DEF Paired, Well
<1>4. CASE u = "O"
  <2>1. /\ WithLeg(c, u, m).leg["O"] = m /\ WithLeg(c, u, m).leg["A"] = c.leg["A"]
        /\ WithLeg(c, u, m).held = c.held
    BY <1>1, <1>4, LegByName
  <2>2. Exchange(c.leg["A"], c.leg["O"], c.held) => Exchange(c.leg["A"], m, c.held)
    BY <1>2, <1>4, ExchangeAlike
  <2>3. m.st = c.leg["O"].st
    BY <1>4 DEF Alike
  <2> QED BY <2>1, <2>2, <2>3 DEF Paired, Well
<1> QED BY <1>3, <1>4, LegsAre

\* A call that has ended.
LEMMA PairedEnded ==
    ASSUME NEW c, NEW u \in Legs, LegWell(c.leg[u]), LegWell(c.leg[Peer(u)]),
           c.leg[u].st \in Ended, c.leg[Peer(u)].st \in Ended, env.rtpp = "no" => c.held = <<>>
    PROVE  Paired(c)
BY LegsAre DEF Paired, Well

LEMMA PairedLegs ==
    ASSUME NEW c, Paired(c), NEW u \in Legs
    PROVE  /\ LegWell(c.leg[u]) /\ LegWell(c.leg[Peer(u)])
           /\ (c.leg[u].st \in Ended) <=> (c.leg[Peer(u)].st \in Ended)
           /\ (env.rtpp = "no" => c.held = <<>>)
           /\ c.leg[u].st \notin Ended => Exchange(c.leg["A"], c.leg["O"], c.held)
BY LegsAre DEF Paired, Well

-----------------------------------------------------------------------------
(* What the handlers do there.                                             *)

LEMMA LegStates ==
    ASSUME NEW c, CallOK(c), NEW u \in Legs
    PROVE  c.leg[u].st \in {"Connected", "UacUpdating", "UasUpdating"} \cup Ended
BY CallOKFacts DEF LegType, Ended

\* Disconnect ends any leg, and answers its re-INVITE.
LEMMA HearsEnd ==
    ASSUME env \in Environments, NEW o, NEW c, CallOK(c), NEW v \in Legs, LegFit(c.leg[v]),
           LegWell(c.leg[v]) \/ c.leg[v].st \notin Ended, NEW e \in QueueType, e.kind = "Disconnect"
    PROVE  LET r == RecvEvent(c, v, e, o) IN
           /\ CallOK(r.c) /\ LegWell(r.c.leg[v]) /\ r.c.leg[v].st \in Ended
           /\ r.c.leg[Peer(v)] = c.leg[Peer(v)] /\ r.c.held = c.held
<1> DEFINE r == Handle(c, v, e, o)
           l == c.leg[v]
<1>1. e.kind \in Ends
  BY DEF Ends
<1>2. RecvEvent(c, v, e, o) = r /\ Kept(c, v, r)
  BY <1>1, EndsPass
<1>3. l.st \in {"Connected", "UacUpdating", "UasUpdating"} \cup Ended
  BY LegStates
<1>4. r.c.leg[v].eq = c.leg[v].eq /\ CallOK(r.c) /\ r.c.leg[Peer(v)] = c.leg[Peer(v)]
  BY <1>2 DEF Kept
<1> SUFFICES LegWell(r.c.leg[v]) /\ r.c.leg[v].st \in Ended /\ r.c.held = c.held
  BY <1>2, <1>4
<1>5. CASE l.st = "Connected"
  <2>1. r = ConnectedEnds(c, v, e)
    BY <1>1, <1>5, HandleCases
  <2> HIDE DEF r
  <2>2. r.c.leg[v].st = "Disconnected" /\ r.c.leg[v].inv = l.inv /\ r.c.held = c.held
    BY <1>5, <2>1, ConnectedEndsKept
  <2> QED BY <1>4, <1>5, <2>2 DEF LegWell, LegFit, Ended
<1>6. CASE l.st = "UacUpdating"
  <2>1. r = UacUpdatingEnds(c, v)
    BY <1>1, <1>6, HandleCases
  <2> HIDE DEF r
  <2>2. r.c.leg[v].st = "Disconnected" /\ r.c.leg[v].inv = l.inv /\ r.c.held = c.held
    BY <1>6, <2>1, UacUpdatingEndsKept
  <2> QED BY <1>4, <1>6, <2>2 DEF LegWell, LegFit, Ended
<1>7. CASE l.st = "UasUpdating"
  <2> DEFINE m == EnterDisconnected(SendBye(WithFinal(l)))
  <2>1. r = UasUpdatingDisconnect(c, v)
    BY <1>7, HandleCases
  <2>2. l.inv = "open"
    BY <1>7 DEF LegFit
  <2>3. r = Done(WithLeg(c, v, m))
    BY <2>1, <2>2 DEF UasUpdatingDisconnect
  <2>4. m.st = "Disconnected" /\ m.inv = "final" /\ Shape(c)
    BY CallOKFacts, FinalByeFacts
  <2> HIDE DEF r, m
  <2>5. r.c.leg[v] = m /\ r.c.held = c.held
    BY <2>3, <2>4, WithLegFacts, ResultFacts
  <2> QED BY <1>4, <1>7, <2>4, <2>5 DEF LegWell, LegFit, Ended
<1>8. CASE l.st \in Ended
  <2>1. r = Done(c)
    BY <1>8, HandleCases
  <2> QED BY <1>8, <2>1, ResultFacts
<1> QED BY <1>3, <1>5, <1>6, <1>7, <1>8

\* A leg that has ended tells the other, and the call has ended.
LEMMA EndTold ==
    ASSUME env \in Environments, NEW o, NEW c, CallOK(c), NEW u \in Legs,
           LegWell(c.leg[u]), c.leg[u].st \in Ended, LegWell(c.leg[Peer(u)]),
           env.rtpp = "no" => c.held = <<>>, NEW e \in QueueType, e.kind = "Disconnect"
    PROVE  Paired(RecvEvent(Overtakes(c, u), Peer(u), e, o).c)
<1> DEFINE d == Overtakes(c, u)
           v == Peer(u)
           r == RecvEvent(d, v, e, o)
<1>1. CallOK(d) /\ d.leg = c.leg /\ Delayed(d.held, c.held) /\ c.held \in Seq(HeldType)
  BY OvertakesFacts, CallOKFacts
<1>2. c.held = <<>> => d.held = <<>>
  BY <1>1, DelayedFewer
<1>3. v \in Legs /\ Peer(v) = u
  BY PeerFacts
<1> HIDE DEF d, v
<1>4. LegFit(d.leg[v]) /\ LegWell(d.leg[v])
  BY <1>1 DEF LegWell, v
<1>5. /\ LegWell(r.c.leg[v]) /\ r.c.leg[v].st \in Ended
      /\ r.c.leg[u] = d.leg[u] /\ r.c.held = d.held
  BY <1>1, <1>3, <1>4, HearsEnd
<1> HIDE DEF r
<1>6. Paired(r.c)
  BY <1>1, <1>2, <1>3, <1>5, PairedEnded DEF v
<1> QED BY <1>6 DEF r, d, v

\* Leg u, which has ended as m says, tells the other.
LEMMA EndSpeaks ==
    ASSUME env \in Environments, NEW o, NEW c, CallOK(c), NEW u \in Legs, Paired(c),
           NEW m, LegOK(m), m.st = "Disconnected", m.inv # "open", m.eq = <<>>,
           NEW e \in QueueType, e.kind = "Disconnect"
    PROVE  /\ Paired(Emit(Queue(WithLeg(c, u, m), u, <<e>>), u, o).c)
           /\ Paired(RecvEvent(Overtakes(WithLeg(c, u, m), u), Peer(u), e, o).c)
<1> DEFINE d == WithLeg(c, u, m)
<1>1. Shape(c) /\ Peer(u) \in Legs /\ Peer(u) # u
  BY CallOKFacts, PeerFacts
<1>2. CallOK(d) /\ d.leg[u] = m /\ d.leg[Peer(u)] = c.leg[Peer(u)] /\ d.held = c.held
  BY <1>1, CallOKWithLeg, WithLegFacts
<1> HIDE DEF d
<1>3. LegWell(m) /\ m.st \in Ended
  BY DEF LegWell, LegFit, Ended
<1>4. LegWell(c.leg[Peer(u)]) /\ (env.rtpp = "no" => c.held = <<>>)
  BY PairedLegs
<1>5. Paired(RecvEvent(Overtakes(d, u), Peer(u), e, o).c)
  BY <1>2, <1>3, <1>4, EndTold
<1>6. Emit(Queue(d, u, <<e>>), u, o) = RecvEvent(Overtakes(d, u), Peer(u), e, o)
  <2>1. e \in EventType(EventKinds) /\ d.leg[u].eq = <<>> /\ d.leg[u].st # "Dead"
    BY <1>2, TypesWiden
  <2> QED BY <1>2, <2>1, Speaks
<1> QED BY <1>5, <1>6 DEF d

LEMMA LiveLeg ==
    ASSUME NEW l, LegWell(l), l.st \notin Ended
    PROVE  ~Stuck(l) /\ l.eq = <<>> /\ Closed(l) # "open"
BY DEF LegWell, LegFit, Stuck, Ended, Closed

LEMMA DisconnectPaired ==
    ASSUME env \in Environments, NEW o, NEW c, CallOK(c), NEW u \in Legs, Paired(c)
    PROVE  Paired(Disconnect(c, u, o).c)
<1> DEFINE e == Event("Disconnect", "none")
           l == c.leg[u]
<1>1. e \in QueueType /\ e.kind = "Disconnect" /\ e \in EventType(EventKinds) /\ e.kind \in Ends
  BY BodyTypes, TypesWiden DEF Event, Ends
<1>2. /\ LegWell(l) /\ LegWell(c.leg[Peer(u)]) /\ (env.rtpp = "no" => c.held = <<>>) /\ Shape(c)
      /\ (l.st \in Ended) <=> (c.leg[Peer(u)].st \in Ended)
      /\ l \in LegType
  BY PairedLegs, CallOKFacts
<1>3. CASE l.st \notin Ended
  <2>1. ~Stuck(l) /\ Closed(l) # "open"
    BY <1>2, <1>3, LiveLeg
  <2>2. PICK n : Leaves(n, c, u, o)
    BY <2>1, DisconnectIs
  <2> DEFINE d == WithLeg(c, u, n)
             y == WithQueue(d, u, <<>>)
  <2>3. /\ LegOK(n) /\ n.st = "Disconnected" /\ n.inv # "open" /\ n.eq = <<e>>
        /\ Disconnect(c, u, o) = Emit(d, u, o)
    BY <2>1, <2>2 DEF Leaves
  <2>4. /\ CallOK(d) /\ d.leg[u] = n /\ d.leg[Peer(u)] = c.leg[Peer(u)] /\ d.held = c.held
        /\ Shape(d)
    BY <1>2, <2>3, CallOKWithLeg, WithLegFacts, PeerFacts
  <2> HIDE DEF d
  <2>5. CallOK(y)
    <3>1. <<>> \in Seq(QueueType)
      OBVIOUS
    <3> QED BY <2>4, <3>1, WithQueueOK
  <2>6. /\ y.leg[u].eq = <<>> /\ y.leg[u].st = n.st /\ y.leg[u].inv = n.inv
        /\ y.leg[Peer(u)] = d.leg[Peer(u)] /\ y.held = d.held
    <3>1. d.leg[u] \in LegType
      BY <2>3, <2>4 DEF LegOK
    <3> QED BY <2>4, <3>1, WithQueueFacts
  <2>7. Emit(d, u, o) = RecvEvent(Overtakes(y, u), Peer(u), e, o)
    BY <1>1, <2>3, <2>4, EmitSingle
  <2> HIDE DEF y, e
  <2>8. LegWell(y.leg[u]) /\ y.leg[u].st \in Ended
    BY <2>3, <2>6 DEF LegWell, LegFit, Ended
  <2>9. Paired(RecvEvent(Overtakes(y, u), Peer(u), e, o).c)
    BY <1>1, <1>2, <2>4, <2>5, <2>6, <2>8, EndTold
  <2> QED BY <2>3, <2>7, <2>9
<1>4. CASE l.st \in Ended
  <2> DEFINE d == Queue(c, u, <<e>>)
             r == Handle(d, u, e, o)
  <2>1. d = WithQueue(c, u, l.eq \o <<e>>)
    BY DEF Queue
  <2>2. /\ d.leg[u].st = l.st /\ d.leg[u].inv = l.inv /\ d.leg[u].cb = l.cb
        /\ d.leg[Peer(u)] = c.leg[Peer(u)] /\ d.held = c.held
    BY <1>2, <2>1, WithQueueFacts
  <2>3. r = Done(d)
    BY <1>4, <2>2, HandleCases
  <2>4. Disconnect(c, u, o) = IF r.raised THEN r ELSE Emit(r.c, u, o)
    BY DEF Disconnect
  <2>5. Disconnect(c, u, o) = Emit(d, u, o)
    <3> HIDE DEF d, r
    <3> QED BY <2>3, <2>4, ResultFacts
  <2>6. CASE l.st = "Dead"
    <3> HIDE DEF d
    <3>1. Emit(d, u, o) = Done(d)
      BY <2>2, <2>6 DEF Emit
    <3>2. LegWell(d.leg[u])
      BY <1>2, <2>2, <2>6 DEF LegWell, LegFit
    <3>3. Paired(d)
      BY <1>2, <1>4, <2>2, <3>2, PairedEnded
    <3> QED BY <2>5, <3>1, <3>3, ResultFacts
  <2>7. CASE l.st # "Dead"
    <3>1. l.eq = <<>>
      BY <1>2, <2>7 DEF LegWell, LegFit
    <3>2. Emit(d, u, o) = RecvEvent(Overtakes(c, u), Peer(u), e, o)
      BY <1>1, <2>7, <3>1, Speaks
    <3>3. Paired(RecvEvent(Overtakes(c, u), Peer(u), e, o).c)
      BY <1>1, <1>2, <1>4, EndTold
    <3> QED BY <2>5, <3>2, <3>3
  <2> QED BY <2>6, <2>7
<1> QED BY <1>3, <1>4

-----------------------------------------------------------------------------
(* Every step keeps the pairing: the steps that end the call, and those    *)
(* that concern one leg.                                                   *)

LEMMA PairedResult ==
    ASSUME NEW r, CallOK(Call'), Becomes(r), CallOK(r.c), Paired(r.c)
    PROVE  Paired(Call')
BY BecomesCall DEF Becomes

LEMMA CancelPaired ==
    ASSUME env \in Environments, CallOK(Call), Paired(Call), NEW u \in Legs, Cancel(u)
    PROVE  Paired(Call')
<1> DEFINE l == leg[u]
           n == EnterDisconnected(SendBye(WithFinal(l)))
           d == WithLeg(Call, u, n)
           e == Event("Disconnect", "none")
           r == RecvEvent(Overtakes(d, u), Peer(u), e, "later")
<1>1. LegWell(l) /\ l \in LegType /\ l.inv = "open"
  BY PairedLegs, CallFields, LegCallOK DEF Cancel
<1>2. l.cb /\ l.eq = <<>>
  BY <1>1 DEF LegWell, LegFit
<1>3. leg' = r.c.leg /\ held' = r.c.held
  BY <1>2 DEF Cancel, Becomes
<1>4. LegOK(n) /\ n.st = "Disconnected" /\ n.inv = "final" /\ n.eq = <<>>
  BY <1>1, <1>2, FinalByeFacts
<1>5. e \in QueueType /\ e.kind = "Disconnect" /\ e.kind \in Ends
  BY BodyTypes DEF Event, Ends
<1> HIDE DEF n, e
<1>6. Paired(r.c)
  BY <1>4, <1>5, EndSpeaks
<1>7. CallOK(r.c)
  <2> DEFINE y == Overtakes(d, u)
  <2>1. CallOK(y)
    BY <1>4, CallOKWithLeg, OvertakesFacts
  <2> HIDE DEF y
  <2> DEFINE s == RecvEvent(y, Peer(u), e, "later")
  <2>2. Passed(y, s)
    BY <1>5, <2>1, EndsPass, PeerFacts
  <2>3. r = s
    BY DEF y
  <2> HIDE DEF s, r
  <2> QED BY <2>2, <2>3 DEF Passed
<1> HIDE DEF r
<1> QED BY <1>3, <1>6, <1>7, BecomesCall

LEMMA QuietPaired ==
    ASSUME CallOK(Call), Paired(Call), NEW u \in Legs, NEW m, Alike(m, leg[u]),
           m.inv = leg[u].inv \/ m.inv = "none", leg[u].inv = "open" => m.inv = "open" /\ m.cb = leg[u].cb
    PROVE  Paired(WithLeg(Call, u, m))
<1>1. LegWell(leg[u]) /\ Call.leg[u] = leg[u]
  BY PairedLegs, CallFields
<1>2. LegWell(m)
  BY <1>1 DEF LegWell, LegFit, Alike
<1> QED BY <1>1, <1>2, PairedEdit

LEMMA AckOfInvitePaired ==
    ASSUME CallOK(Call), Paired(Call), NEW u \in Legs, AckOfInvite(u)
    PROVE  Paired(Call')
<1> DEFINE m == [leg[u] EXCEPT !.inv = "none", !.cb = FALSE]
<1>1. Call' = WithLeg(Call, u, m) /\ leg[u].inv = "final"
  BY AckOfInviteKept DEF AckOfInvite
<1>2. Alike(m, leg[u]) /\ m.inv = "none"
  <2>1. PICK b \in BOOLEAN : b = FALSE
    BY Zenon
  <2>2. m = [leg[u] EXCEPT !.inv = "none", !.cb = b]
    BY <2>1, Zenon
  <2> HIDE DEF m
  <2>3. leg[u] \in LegType
    BY LegCallOK
  <2> QED BY <2>2, <2>3 DEF LegType, Alike
<1> HIDE DEF m
<1> QED BY <1>1, <1>2, QuietPaired

LEMMA KeepAlivePaired ==
    ASSUME CallOK(Call), Paired(Call), NEW u \in Legs, KeepAlive(u)
    PROVE  Paired(Call')
<1>1. PICK m : /\ Call' = WithLeg(Call, u, m) /\ LegOK(m) /\ Alike(m, leg[u])
               /\ m.inv = leg[u].inv /\ m.cb = leg[u].cb
  BY KeepAliveKept
<1> QED BY <1>1, QuietPaired

LEMMA ReferResponsePaired ==
    ASSUME CallOK(Call), Paired(Call), NEW u \in Legs, NEW final \in BOOLEAN, ReferResponse(u, final)
    PROVE  Paired(Call')
<1>1. PICK b \in BOOLEAN : b = ~final
  BY Zenon
<1> DEFINE m == [SendBye(leg[u]) EXCEPT !.refer = b]
<1>2. [SendBye(leg[u]) EXCEPT !.refer = ~final] = m
  BY <1>1, Zenon
<1>3. Call' = WithLeg(Call, u, m)
  <2> HIDE DEF m
  <2> QED BY <1>2, ReferResponseKept
<1>4. Alike(m, leg[u]) /\ m.inv = leg[u].inv /\ m.cb = leg[u].cb
  BY LegCallOK, ReferFacts
<1> HIDE DEF m
<1> QED BY <1>3, <1>4, QuietPaired

LEMMA GoDeadPaired ==
    ASSUME CallOK(Call), Paired(Call), NEW u \in Legs, GoDead(u)
    PROVE  Paired(Call')
<1> DEFINE m == [leg[u] EXCEPT !.st = "Dead"]
           d == WithLeg(Call, u, m)
<1>1. Call' = d /\ leg[u].st = "Disconnected" /\ Shape(Call) /\ Call.leg[u] = leg[u]
  BY GoDeadKept, CallOKFacts, CallFields
<1>2. m.st = "Dead" /\ m.inv = leg[u].inv /\ m.cb = leg[u].cb
  BY LegCallOK, LegEditsAlike
<1> HIDE DEF m
<1>3. /\ LegWell(leg[u]) /\ LegWell(Call.leg[Peer(u)])
      /\ Call.leg[Peer(u)].st \in Ended /\ (env.rtpp = "no" => Call.held = <<>>)
  BY <1>1, PairedLegs DEF Ended
<1>4. LegWell(m) /\ m.st \in Ended
  BY <1>1, <1>2, <1>3 DEF LegWell, LegFit, Ended
<1>5. d.leg[u] = m /\ d.leg[Peer(u)] = Call.leg[Peer(u)] /\ d.held = Call.held
  BY <1>1, WithLegFacts, PeerFacts
<1> HIDE DEF d
<1>6. Paired(d)
  BY <1>3, <1>4, <1>5, PairedEnded
<1> QED BY <1>1, <1>6

LEMMA NoAckPaired ==
    ASSUME env \in Environments, CallOK(Call), Paired(Call), NEW o \in Outcomes, NEW u \in Legs,
           NoAck(u, o)
    PROVE  Paired(Call')
<1> DEFINE m == [leg[u] EXCEPT !.inv = "none", !.cb = FALSE]
           c == WithLeg(Call, u, m)
           r == IF leg[u].cb THEN Disconnect(c, u, o) ELSE Done(c)
<1>1. leg[u].inv = "final" /\ Becomes(r) /\ LegOK(leg[u]) /\ leg[u] \in LegType
  BY LegCallOK DEF NoAck
<1>2. Alike(m, leg[u]) /\ m.inv = "none" /\ LegOK(m)
  <2>1. PICK b \in BOOLEAN : b = FALSE
    BY Zenon
  <2>2. m = [leg[u] EXCEPT !.inv = "none", !.cb = b]
    BY <2>1, Zenon
  <2> HIDE DEF m
  <2> QED BY <1>1, <2>2, LegEdits, LegEditsAlike
<1>3. CallOK(c) /\ Paired(c)
  <2> HIDE DEF m
  <2> QED BY <1>1, <1>2, QuietPaired, CallOKWithLeg
<1> HIDE DEF c
<1>4. CallOK(Disconnect(c, u, o).c) /\ Paired(Disconnect(c, u, o).c)
  BY <1>3, DisconnectKept, DisconnectPaired
<1>5. r = Disconnect(c, u, o) \/ r = Done(c)
  OBVIOUS
<1> HIDE DEF r
<1>6. CallOK(r.c) /\ Paired(r.c)
  BY <1>3, <1>4, <1>5, ResultFacts
<1> QED BY <1>1, <1>6, BecomesCall DEF Becomes

LEMMA KeepAliveRespPaired ==
    ASSUME env \in Environments, CallOK(Call), Paired(Call), NEW o \in Outcomes, NEW u \in Legs,
           NEW good, KeepAliveResp(u, good, o)
    PROVE  Paired(Call')
<1> DEFINE l == leg[u]
           m1 == [l EXCEPT !.ka = "timer", !.first = FALSE]
           m2 == [l EXCEPT !.ka = "off", !.first = FALSE, !.last = TRUE]
           m3 == [l EXCEPT !.ka = "off"]
           c3 == WithLeg(Call, u, m3)
           s == Disconnect(c3, u, o)
           Quiet(m) == LegOK(m) /\ Alike(m, l) /\ m.inv = l.inv /\ m.cb = l.cb
<1>1. LegOK(l) /\ l \in LegType
  BY LegCallOK
<1>2. /\ l.ka = "sent"
      /\ \/ Becomes(Done(WithLeg(Call, u, m1))) \/ Becomes(Done(WithLeg(Call, u, m2)))
         \/ Becomes(s)
  BY DEF KeepAliveResp
<1>3. Quiet(m1) /\ Quiet(m2) /\ Quiet(m3)
  <2>1. PICK b \in BOOLEAN, b2 \in BOOLEAN : b = FALSE /\ b2 = TRUE
    BY Zenon
  <2>2. /\ m1 = [l EXCEPT !.ka = "timer", !.first = b]
        /\ m2 = [l EXCEPT !.ka = "off", !.first = b, !.last = b2]
    BY <2>1, Zenon
  <2> HIDE DEF m1, m2, l
  <2>3. LegOK(m1) /\ LegOK(m2) /\ LegOK(m3)
    BY <1>1, <1>2, <2>2, LegEdits
  <2>4. /\ Alike(m1, l) /\ m1.inv = l.inv /\ m1.cb = l.cb
        /\ Alike(m2, l) /\ m2.inv = l.inv /\ m2.cb = l.cb
        /\ Alike(m3, l) /\ m3.inv = l.inv /\ m3.cb = l.cb
    <3>1. Alike(m1, l) /\ m1.inv = l.inv /\ m1.cb = l.cb
      BY <1>1, <2>2 DEF LegType, Alike
    <3>2. Alike(m2, l) /\ m2.inv = l.inv /\ m2.cb = l.cb
      BY <1>1, <2>2 DEF LegType, Alike
    <3>3. Alike(m3, l) /\ m3.inv = l.inv /\ m3.cb = l.cb
      BY <1>1 DEF LegType, Alike
    <3> QED BY <3>1, <3>2, <3>3
  <2> QED BY <2>3, <2>4
<1> HIDE DEF m1, m2, m3
<1>4. ASSUME NEW m, Quiet(m) PROVE CallOK(WithLeg(Call, u, m)) /\ Paired(WithLeg(Call, u, m))
  BY <1>4, QuietPaired, CallOKWithLeg
<1>5. /\ CallOK(WithLeg(Call, u, m1)) /\ Paired(WithLeg(Call, u, m1))
      /\ CallOK(WithLeg(Call, u, m2)) /\ Paired(WithLeg(Call, u, m2))
      /\ CallOK(c3) /\ Paired(c3)
  BY <1>3, <1>4
<1> HIDE DEF c3
<1>6. CallOK(s.c) /\ Paired(s.c)
  BY <1>5, DisconnectKept, DisconnectPaired
<1> HIDE DEF s
<1>7. /\ CallOK(Done(WithLeg(Call, u, m1)).c) /\ Paired(Done(WithLeg(Call, u, m1)).c)
      /\ CallOK(Done(WithLeg(Call, u, m2)).c) /\ Paired(Done(WithLeg(Call, u, m2)).c)
  BY <1>5, ResultFacts
<1> QED BY <1>2, <1>6, <1>7, BecomesCall DEF Becomes

LEMMA LastTimerPaired ==
    ASSUME env \in Environments, CallOK(Call), Paired(Call), NEW o \in Outcomes, NEW u \in Legs,
           LastTimer(u, o)
    PROVE  Paired(Call')
<1> DEFINE m == [leg[u] EXCEPT !.last = FALSE]
           c == WithLeg(Call, u, m)
           s == Disconnect(c, u, o)
<1>1. LegOK(leg[u]) /\ leg[u] \in LegType /\ Becomes(s)
  BY LegCallOK DEF LastTimer
<1>2. LegOK(m) /\ Alike(m, leg[u]) /\ m.inv = leg[u].inv /\ m.cb = leg[u].cb
  <2>1. PICK b \in BOOLEAN : b = FALSE
    BY Zenon
  <2>2. m = [leg[u] EXCEPT !.last = b]
    BY <2>1, Zenon
  <2> HIDE DEF m
  <2> QED BY <1>1, <2>2, LegEdits, LegEditsAlike
<1> HIDE DEF m
<1>3. CallOK(c) /\ Paired(c)
  BY <1>2, QuietPaired, CallOKWithLeg
<1> HIDE DEF c
<1>4. CallOK(s.c) /\ Paired(s.c)
  BY <1>3, DisconnectKept, DisconnectPaired
<1> HIDE DEF s
<1> QED BY <1>1, <1>4, BecomesCall DEF Becomes

LEMMA HangupPaired ==
    ASSUME env \in Environments, CallOK(Call), Paired(Call), NEW o \in Outcomes, NEW u \in Legs,
           Hangup(u, o)
    PROVE  Paired(Call')
<1> DEFINE s == Disconnect(Call, u, o)
<1>1. Becomes(s)
  BY DEF Hangup
<1>2. CallOK(s.c) /\ Paired(s.c)
  BY DisconnectKept, DisconnectPaired
<1> HIDE DEF s
<1> QED BY <1>1, <1>2, BecomesCall DEF Becomes

LEMMA ByeArrivesPaired ==
    ASSUME env \in Environments, CallOK(Call), Paired(Call), NEW o \in Outcomes, NEW u \in Legs,
           NEW also \in BOOLEAN, ByeArrives(u, also, o)
    PROVE  Paired(Call')
<1> DEFINE l == leg[u]
           m == ByeLeg(l)
           e == [Event("Disconnect", "none") EXCEPT !.also = also]
           s == Emit(Queue(WithLeg(Call, u, m), u, <<e>>), u, o)
<1>1. l.st \in {"Connected"} \cup Updating
  BY DEF ByeArrives
<1>2. LegWell(l) /\ l \in LegType
  BY PairedLegs, CallFields, LegCallOK
<1>3. l.eq = <<>> /\ Closed(l) # "open" /\ ~(l.st = "UasUpdating" /\ l.inv # "open")
  BY <1>1, <1>2, LiveLeg DEF Updating, Ended, LegWell, LegFit
<1>4. Becomes(s)
  BY <1>3 DEF ByeArrives, ByeLeg
<1>5. LegOK(m) /\ m.st = "Disconnected" /\ m.inv # "open" /\ m.eq = <<>>
  BY <1>2, <1>3, ByeLegFacts
<1>6. e \in QueueType /\ e.kind = "Disconnect"
  BY AlsoTypes
<1> HIDE DEF e, m
<1>7. CallOK(s.c) /\ Paired(s.c)
  BY <1>5, <1>6, EndedSpeaks, EndSpeaks
<1> HIDE DEF s
<1> QED BY <1>4, <1>7, BecomesCall DEF Becomes

LEMMA ReferArrivesPaired ==
    ASSUME env \in Environments, CallOK(Call), Paired(Call), NEW o \in Outcomes, NEW u \in Legs,
           ReferArrives(u, o)
    PROVE  Paired(Call')
<1> DEFINE l == leg[u]
           t == Told(l)
           e == [Event("Disconnect", "none") EXCEPT !.also = TRUE]
           m1 == EnterDisconnected(SendBye(t))
           m2 == EnterDisconnected(WithFinal(t))
           s1 == Emit(Queue(WithLeg(Call, u, m1), u, <<e>>), u, o)
           s2 == Emit(Queue(WithLeg(Call, u, m2), u, <<e>>), u, o)
<1>1. LegWell(l) /\ l \in LegType
  BY PairedLegs, CallFields, LegCallOK
<1>2. t.st = l.st /\ t.inv = l.inv
  BY <1>1, ToldFacts
<1>3. (l.st = "Connected" /\ Becomes(s1)) \/ (l.st = "UasUpdating" /\ Becomes(s2))
  <2>1. t = [l EXCEPT !.told = TRUE]
    BY DEF Told
  <2>2. l.st = "UasUpdating" => l.inv = "open"
    BY <1>1 DEF LegWell, LegFit
  <2>3. \/ t.st = "Connected" /\ Becomes(s1)
        \/ t.st = "UasUpdating" /\ Becomes(IF t.inv # "open" THEN Raises(Call) ELSE s2)
    BY <2>1 DEF ReferArrives
  <2> HIDE DEF t, s1, s2
  <2> QED BY <1>2, <2>2, <2>3
<1>4. /\ LegOK(m1) /\ m1.st = "Disconnected" /\ m1.inv = l.inv /\ m1.eq = l.eq
      /\ LegOK(m2) /\ m2.st = "Disconnected" /\ m2.inv = "final" /\ m2.eq = l.eq
  BY <1>1, ToldFacts
<1>5. e \in QueueType /\ e.kind = "Disconnect"
  BY AlsoTypes
<1> HIDE DEF e, m1, m2
<1>6. CASE l.st = "Connected" /\ Becomes(s1)
  <2>1. l.eq = <<>> /\ l.inv # "open"
    BY <1>1, <1>6 DEF LegWell, LegFit
  <2>2. CallOK(s1.c) /\ Paired(s1.c)
    BY <1>4, <1>5, <2>1, EndedSpeaks, EndSpeaks
  <2> HIDE DEF s1
  <2> QED BY <1>6, <2>2, BecomesCall DEF Becomes
<1>7. CASE l.st = "UasUpdating" /\ Becomes(s2)
  <2>1. l.eq = <<>>
    BY <1>1, <1>7 DEF LegWell, LegFit
  <2>2. CallOK(s2.c) /\ Paired(s2.c)
    BY <1>4, <1>5, <2>1, EndedSpeaks, EndSpeaks
  <2> HIDE DEF s2
  <2> QED BY <1>7, <2>2, BecomesCall DEF Becomes
<1> QED BY <1>3, <1>6, <1>7

LEMMA InfoArrivesPaired ==
    ASSUME env \in Environments, CallOK(Call), Paired(Call), NEW o \in Outcomes, NEW u \in Legs,
           InfoArrives(u, o)
    PROVE  Paired(Call')
<1> DEFINE e == Event("Info", "none")
           s == Emit(Queue(Call, u, <<e>>), u, o)
           d == Overtakes(Call, u)
<1>1. leg[u].eq = <<>> /\ leg[u].st = "Connected" /\ Becomes(s) /\ Call.leg[u] = leg[u]
  BY CallFields DEF InfoArrives
<1>2. e \in EventType(EventKinds) /\ e.kind = "Info" /\ e \in QueueType
  BY BodyTypes, TypesWiden DEF Event
<1> HIDE DEF e
<1>3. s = RecvEvent(d, Peer(u), e, o)
  BY <1>1, <1>2, Speaks
<1>4. CallOK(d) /\ Paired(d)
  BY OvertakesFacts, PairedOvertakes
<1> HIDE DEF d
<1>5. d.leg[Peer(u)].st \in {"Connected", "UacUpdating", "UasUpdating"} \cup Ended
  BY <1>4, LegStates, PeerFacts
<1>6. Handle(d, Peer(u), e, o) = Done(d)
  BY <1>2, <1>5, HandleCases DEF Ends
<1>7. RecvEvent(d, Peer(u), e, o) = Done(d)
  BY <1>6, ResultFacts DEF RecvEvent
<1> HIDE DEF s
<1> QED BY <1>1, <1>3, <1>4, <1>7, BecomesCall, ResultFacts DEF Becomes

-----------------------------------------------------------------------------
(* The answers to a re-INVITE of ours.                                     *)

LEMMA AskerWaits ==
    ASSUME NEW c, NEW u \in Legs, Paired(c), c.leg[u].st = "UacUpdating"
    PROVE  /\ c.leg[Peer(u)].st = "UasUpdating" /\ c.leg[Peer(u)].inv = "open"
           /\ c.leg[u].lsdp = c.leg[Peer(u)].rsdp
           /\ c.leg[u].inv # "open" /\ c.leg[u].eq = <<>> /\ c.leg[Peer(u)].eq = <<>>
           /\ Exchange(c.leg["A"], c.leg["O"], c.held)
<1>1. /\ LegWell(c.leg[u]) /\ LegWell(c.leg[Peer(u)])
      /\ Exchange(c.leg["A"], c.leg["O"], c.held)
  BY PairedLegs DEF Ended
<1>2. c.leg[Peer(u)].st = "UasUpdating" /\ c.leg[u].lsdp = c.leg[Peer(u)].rsdp
  BY <1>1, LegsAre DEF Exchange, AsksA, AsksO
<1> QED BY <1>1, <1>2 DEF LegWell, LegFit

\* Fail answers the re-INVITE of a leg that waits.
LEMMA HearsFail ==
    ASSUME env \in Environments, NEW o, NEW c, CallOK(c), NEW v \in Legs,
           c.leg[v].st = "UasUpdating", c.leg[v].inv = "open"
    PROVE  LET r == RecvEvent(c, v, Event("Fail", "none"), o) IN
           /\ CallOK(r.c) /\ ~r.raised /\ LegWell(r.c.leg[v]) /\ r.c.held = c.held
           /\ r.c.leg[Peer(v)] = c.leg[Peer(v)]
<1> DEFINE e == Event("Fail", "none")
           r == Handle(c, v, e, o)
           k == [c.leg[v] EXCEPT !.rsdp = "none"]
           m == EnterConnected(WithFinal(k), v)
<1>1. e \in QueueType /\ e.kind = "Fail" /\ e.kind \in Ends
  BY BodyTypes DEF Event, Ends
<1>2. RecvEvent(c, v, e, o) = r /\ Kept(c, v, r)
  BY <1>1, EndsPass
<1>3. r = UasUpdatingFail(c, v)
  BY <1>1, HandleCases
<1>4. LegOK(k) /\ k.st = "UasUpdating" /\ k.inv = "open"
  <2>1. LegOK(c.leg[v]) /\ "none" \in Sdp
    BY CallOKFacts, BodyTypes
  <2> QED BY <2>1, RsdpFacts
<1>5. r = Done(WithLeg(c, v, m))
  BY <1>3, <1>4 DEF UasUpdatingFail
<1>6. m.st = "Connected" /\ m.inv = "final" /\ m.eq = <<>>
  <2> HIDE DEF k
  <2> QED BY <1>4, AnsweredFacts
<1> HIDE DEF m, r
<1>7. Shape(c) /\ Peer(v) # v /\ Peer(v) \in Legs
  BY CallOKFacts, PeerFacts
<1>8. r.c.leg[v] = m /\ r.c.held = c.held /\ ~r.raised /\ r.c.leg[Peer(v)] = c.leg[Peer(v)]
  BY <1>5, <1>7, WithLegFacts, ResultFacts
<1>9. LegWell(r.c.leg[v])
  BY <1>6, <1>8 DEF LegWell, LegFit
<1> QED BY <1>2, <1>8, <1>9 DEF Kept

LEMMA UpdateFailedPaired ==
    ASSUME env \in Environments, NEW o \in Outcomes, NEW c, CallOK(c), NEW u \in Legs, Paired(c),
           c.leg[u].st = "UacUpdating", NEW m, LegOK(m), m.inv = c.leg[u].inv, m.eq = <<>>
    PROVE  Paired(UpdateFailed(WithLeg(c, u, m), u, o).c)
<1> DEFINE k == SendBye(m)
           n == EnterDisconnected(k)
           d == WithLeg(c, u, m)
           z == WithLeg(c, u, n)
           f == Event("Fail", "none")
           e == Event("Disconnect", "none")
           v == Peer(u)
           y == Overtakes(z, u)
           r1 == RecvEvent(y, v, f, o)
           y2 == Overtakes(r1.c, u)
           p == WithQueue(z, u, <<f, e>>)
<1>1. Shape(c) /\ v \in Legs /\ v # u /\ Peer(v) = u
  BY CallOKFacts, PeerFacts
<1>2. m \in LegType
  BY DEF LegOK
<1>3. k \in LegType /\ k.byes > 0 /\ k.inv = m.inv /\ k.eq = m.eq
  BY <1>2, ByeFacts
<1> HIDE DEF k
<1>4. LegOK(n) /\ n.st = "Disconnected" /\ n.inv = m.inv /\ n.eq = <<>>
  BY <1>3, EndingFacts
<1>5. d.leg[u] = m
  BY <1>1, WithLegFacts
<1>6. WithLeg(d, u, n) = z
  BY <1>1, WithLegTwice
<1>7. UpdateFailed(d, u, o) = Emit(Queue(z, u, FailAndDisconnect), u, o)
  BY <1>5, <1>6 DEF UpdateFailed, k
<1> HIDE DEF n
<1>8. /\ CallOK(z) /\ z.leg[u] = n /\ z.leg[v] = c.leg[v] /\ z.held = c.held /\ Shape(z)
  BY <1>1, <1>4, CallOKWithLeg, WithLegFacts
<1>9. /\ f \in QueueType /\ e \in QueueType /\ e.kind = "Disconnect"
      /\ f \in EventType(EventKinds) /\ e \in EventType(EventKinds)
  BY BodyTypes, TypesWiden DEF Event
<1>10. Queue(z, u, FailAndDisconnect) = p
  <2>1. FailAndDisconnect = <<f, e>>
    BY DEF FailAndDisconnect
  <2>2. <<f, e>> \in Seq(QueueType) /\ <<>> \o <<f, e>> = <<f, e>>
    BY <1>9
  <2> HIDE DEF z, f, e
  <2> QED BY <1>4, <1>8, <2>1, <2>2 DEF Queue
<1> HIDE DEF z, f, e
<1>11. /\ p.leg[u].eq = <<f, e>> /\ p.leg[u].st = n.st
       /\ WithQueue(p, u, <<>>) = z
  <2>1. z.leg[u] \in LegType
    BY <1>4, <1>8 DEF LegOK
  <2> QED BY <1>4, <1>8, <2>1, WithQueueFacts
<1> HIDE DEF p
<1>12. Emit(p, u, o) = Give(r1, u, e, o)
  BY <1>4, <1>9, <1>11, EmitPair
<1>13. CallOK(y) /\ y.leg = z.leg /\ Delayed(y.held, z.held) /\ z.held \in Seq(HeldType)
  BY <1>8, OvertakesFacts, CallOKFacts
<1>14. z.held = <<>> => y.held = <<>>
  BY <1>13, DelayedFewer
<1> HIDE DEF y
<1>15. c.leg[v].st = "UasUpdating" /\ c.leg[v].inv = "open" /\ c.leg[u].inv # "open"
  BY AskerWaits
<1>16. /\ CallOK(r1.c) /\ ~r1.raised /\ LegWell(r1.c.leg[v]) /\ r1.c.held = y.held
       /\ r1.c.leg[u] = n
  <2>1. y.leg[v].st = "UasUpdating" /\ y.leg[v].inv = "open" /\ y.leg[u] = n
    BY <1>8, <1>13, <1>15
  <2> QED BY <1>1, <1>13, <2>1, HearsFail DEF f
<1> HIDE DEF r1
<1>17. Give(r1, u, e, o) = RecvEvent(y2, v, e, o)
  BY <1>16 DEF Give
<1>18. LegWell(n) /\ n.st \in Ended
  BY <1>4, <1>15 DEF LegWell, LegFit, Ended
<1>19. env.rtpp = "no" => r1.c.held = <<>>
  BY <1>8, <1>14, <1>16, PairedLegs
<1>20. Paired(RecvEvent(y2, v, e, o).c)
  BY <1>9, <1>16, <1>18, <1>19, EndTold
<1> QED BY <1>7, <1>10, <1>12, <1>17, <1>20

LEMMA RejectedPaired ==
    ASSUME env \in Environments, CallOK(Call), Paired(Call), NEW o \in Outcomes, NEW u \in Legs,
           Rejected(u, "timeout", o)
    PROVE  Paired(Call')
<1> DEFINE m == [Free(leg[u]) EXCEPT !.lsdp = "none"]
           d == WithLeg(Call, u, m)
           s == UpdateFailed(d, u, o)
<1>1. leg[u].st = "UacUpdating" /\ Becomes(s) /\ Call.leg[u] = leg[u]
  BY CallFields DEF Rejected, Free
<1>2. LegOK(leg[u]) /\ "none" \in Sdp
  BY LegCallOK, BodyTypes
<1>3. LegOK(m) /\ m.inv = leg[u].inv /\ m.eq = <<>>
  BY <1>1, <1>2, FreeFacts DEF Alive
<1> HIDE DEF m
<1>4. CallOK(d) /\ Paired(s.c)
  BY <1>1, <1>3, CallOKWithLeg, UpdateFailedPaired
<1> HIDE DEF d
<1>5. CallOK(s.c)
  BY <1>4, UpdateFailedKept
<1> HIDE DEF s
<1> QED BY <1>1, <1>4, <1>5, BecomesCall DEF Becomes

-----------------------------------------------------------------------------
(* Questions and answers, one handler at a time.                           *)

LEMMA EventFields ==
    ASSUME NEW k, NEW b
    PROVE  LET e == Event(k, b) IN e.kind = k /\ e.body = b /\ e.fresh /\ ~e.also
BY DEF Event

\* An update with the body that the far end has is answered.
LEMMA UpdateKnown ==
    ASSUME NEW o, NEW c, NEW v, NEW e, e.kind = "Update", c.leg[v].st = "Connected",
           c.leg[v].lsdp # "none", c.leg[v].lsdp = e.body
    PROVE  RecvEvent(c, v, e, o)
               = Handle(Overtakes(c, v), Peer(v), Event("Connect", c.leg[v].rsdp), o)
<1> DEFINE r == Handle(c, v, e, o)
           x == Event("Connect", c.leg[v].rsdp)
<1>1. r = Says(c, x)
  <2>1. r = ConnectedUpdate(c, v, e, o)
    BY HandleCases
  <2> HIDE DEF r
  <2> QED BY <2>1 DEF ConnectedUpdate
<1>2. RecvEvent(c, v, e, o) = IF r.raised \/ r.q = <<>> THEN r
                              ELSE Handle(Overtakes(r.c, v), Peer(v), r.q[1], o)
  BY DEF RecvEvent
<1> HIDE DEF r, x
<1>3. r.c = c /\ r.q = <<x>> /\ ~r.raised /\ r.q # <<>> /\ r.q[1] = x
  BY <1>1, SaysFacts
<1> QED BY <1>2, <1>3 DEF x

\* Another goes to the RTP proxy, or out as a re-INVITE.
LEMMA UpdateHeld ==
    ASSUME NEW c, NEW v, NEW e, e.kind = "Update", c.leg[v].st = "Connected",
           c.leg[v].lsdp # "none", c.leg[v].lsdp # e.body, Proxied(v, e)
    PROVE  RecvEvent(c, v, e, "later") = Done(Hold(c, "local", e))
<1>1. Handle(c, v, e, "later") = Done(Hold(c, "local", e))
  BY HandleCases DEF ConnectedUpdate
<1> QED BY <1>1, ResultFacts DEF RecvEvent

LEMMA UpdateSent ==
    ASSUME NEW o, NEW c, CallOK(c), NEW v \in Legs, NEW e \in EventType(EventKinds),
           e.kind = "Update", c.leg[v].st = "Connected",
           c.leg[v].lsdp # "none", c.leg[v].lsdp # e.body, ~Proxied(v, e)
    PROVE  LET r == RecvEvent(c, v, e, o)
               m == r.c.leg[v]
               l == c.leg[v] IN
           /\ ~r.raised /\ r.c.held = c.held /\ r.c.leg[Peer(v)] = c.leg[Peer(v)]
           /\ m.st = "UacUpdating" /\ m.lsdp = e.body /\ m.rsdp = l.rsdp
           /\ m.inv = l.inv /\ m.cb = l.cb /\ m.eq = l.eq
<1> DEFINE l == c.leg[v]
           k == LeaveConnected(l)
           m == [k EXCEPT !.st = "UacUpdating", !.lsdp = e.body, !.out = TRUE]
<1>1. l \in LegType /\ Shape(c) /\ e.body \in Sdp /\ Peer(v) \in Legs /\ Peer(v) # v
  BY CallOKFacts, TypesWiden, PeerFacts
<1>2. Handle(c, v, e, o) = Done(WithLeg(c, v, m))
  <2>1. Handle(c, v, e, o) = ConnectedUpdate(c, v, e, o)
    BY HandleCases
  <2>2. ConnectedUpdate(c, v, e, o) = Done(WithLeg(c, v, m))
    BY DEF ConnectedUpdate
  <2> QED BY <2>1, <2>2
<1>3. k \in LegType /\ k.rsdp = l.rsdp /\ k.inv = l.inv /\ k.cb = l.cb /\ k.eq = l.eq
  BY <1>1, LeaveFacts
<1> HIDE DEF k
<1>4. /\ m.st = "UacUpdating" /\ m.lsdp = e.body /\ m.rsdp = k.rsdp
      /\ m.inv = k.inv /\ m.cb = k.cb /\ m.eq = k.eq
  BY <1>3 DEF LegType
<1> HIDE DEF m
<1>5. RecvEvent(c, v, e, o) = Done(WithLeg(c, v, m))
  BY <1>2, ResultFacts DEF RecvEvent
<1> DEFINE w == WithLeg(c, v, m)
<1>6. w.leg[v] = m /\ w.held = c.held /\ w.leg[Peer(v)] = c.leg[Peer(v)]
  BY <1>1, WithLegFacts
<1> HIDE DEF w
<1>7. RecvEvent(c, v, e, o).c = w /\ ~RecvEvent(c, v, e, o).raised
  BY <1>5, ResultFacts DEF w
<1> QED BY <1>3, <1>4, <1>6, <1>7

\* The answer, at a leg that waits for it.
LEMMA AnswerHeld ==
    ASSUME NEW c, NEW v, NEW e, e.kind = "Connect", c.leg[v].st = "UasUpdating", Proxied(v, e)
    PROVE  /\ Handle(c, v, e, "later") = Done(Hold(c, "local", e))
           /\ RecvEvent(c, v, e, "later") = Done(Hold(c, "local", e))
<1>1. Handle(c, v, e, "later") = Done(Hold(c, "local", e))
  BY HandleCases DEF UasUpdatingConnect, AtProxy
<1> QED BY <1>1, ResultFacts DEF RecvEvent

\* Leg v has answered with body b.
Replied(r, c, v, b) ==
    LET m == r.c.leg[v] IN
    /\ ~r.raised /\ r.c.held = c.held /\ r.c.leg[Peer(v)] = c.leg[Peer(v)]
    /\ m.st = "Connected" /\ m.lsdp = b /\ m.rsdp = c.leg[v].rsdp
    /\ m.inv = "final" /\ m.eq = <<>>

LEMMA AnswerGiven ==
    ASSUME NEW o, NEW c, CallOK(c), NEW v \in Legs, NEW e \in EventType(EventKinds),
           e.kind = "Connect", c.leg[v].st = "UasUpdating", c.leg[v].inv = "open", ~Proxied(v, e)
    PROVE  /\ Replied(Handle(c, v, e, o), c, v, e.body)
           /\ Replied(RecvEvent(c, v, e, o), c, v, e.body)
<1> DEFINE d == WithLocal(c, v, e.body)
           m == EnterConnected(WithFinal(d.leg[v]), v)
           w == WithLeg(d, v, m)
<1>1. e.body \in Sdp /\ Peer(v) \in Legs /\ Peer(v) # v
  BY TypesWiden, PeerFacts
<1>2. /\ CallOK(d) /\ d.held = c.held /\ d.leg[v].lsdp = e.body
      /\ d.leg[v].st = c.leg[v].st /\ d.leg[v].inv = c.leg[v].inv
      /\ d.leg[v].rsdp = c.leg[v].rsdp /\ d.leg[Peer(v)] = c.leg[Peer(v)]
  BY <1>1, WithLocalFacts
<1>3. Handle(c, v, e, o) = Done(w)
  BY HandleCases DEF UasUpdatingConnect
<1> HIDE DEF d
<1>4. LegOK(d.leg[v]) /\ Shape(d)
  BY <1>2, CallOKFacts
<1>5. /\ m.st = "Connected" /\ m.inv = "final" /\ m.eq = <<>>
      /\ m.lsdp = d.leg[v].lsdp /\ m.rsdp = d.leg[v].rsdp
  BY <1>2, <1>4, AnsweredFacts
<1> HIDE DEF m
<1>6. w.leg[v] = m /\ w.held = d.held /\ w.leg[Peer(v)] = d.leg[Peer(v)]
  BY <1>1, <1>4, WithLegFacts
<1> HIDE DEF w
<1>7. Done(w).c = w /\ ~Done(w).raised
  BY ResultFacts
<1>8. Replied(Done(w), c, v, e.body)
  BY <1>2, <1>5, <1>6, <1>7 DEF Replied
<1>9. RecvEvent(c, v, e, o) = Done(w)
  BY <1>3, ResultFacts DEF RecvEvent
<1> QED BY <1>3, <1>8, <1>9

\* Ring: the body is written down, and the handler raises.
LEMMA RingHeard ==
    ASSUME NEW o, NEW c, CallOK(c), NEW v \in Legs, NEW e \in EventType(EventKinds),
           e.kind = "Ring", c.leg[v].st = "UasUpdating", ~Proxied(v, e)
    PROVE  LET r == RecvEvent(c, v, e, o)
               m == r.c.leg[v]
               l == c.leg[v] IN
           /\ CallOK(r.c) /\ r.c.held = c.held /\ r.c.leg[Peer(v)] = c.leg[Peer(v)]
           /\ m.st = l.st /\ m.lsdp = e.body /\ m.rsdp = l.rsdp
           /\ m.inv = l.inv /\ m.cb = l.cb /\ m.eq = l.eq
<1> DEFINE d == WithLocal(c, v, e.body)
<1>1. e.body \in Sdp
  BY TypesWiden
<1>2. /\ CallOK(d) /\ d.held = c.held /\ d.leg[v].lsdp = e.body
      /\ d.leg[v].st = c.leg[v].st /\ d.leg[v].inv = c.leg[v].inv /\ d.leg[v].eq = c.leg[v].eq
      /\ d.leg[v].rsdp = c.leg[v].rsdp /\ d.leg[Peer(v)] = c.leg[Peer(v)]
      /\ d.leg[v].cb = c.leg[v].cb
  BY <1>1, WithLocalFacts
<1>3. Handle(c, v, e, o) = Raises(d)
  BY HandleCases DEF UasUpdatingRing
<1> HIDE DEF d
<1>4. RecvEvent(c, v, e, o) = Raises(d)
  BY <1>3, ResultFacts DEF RecvEvent
<1>5. RecvEvent(c, v, e, o).c = d
  BY <1>4, ResultFacts
<1> QED BY <1>2, <1>5

LEMMA RingHeld ==
    ASSUME NEW c, NEW v, NEW e, e.kind = "Ring", c.leg[v].st = "UasUpdating", Proxied(v, e)
    PROVE  RecvEvent(c, v, e, "later") = Done(Hold(c, "local", e))
<1>1. Handle(c, v, e, "later") = Done(Hold(c, "local", e))
  BY HandleCases DEF UasUpdatingRing, AtProxy
<1> QED BY <1>1, ResultFacts DEF RecvEvent

\* Events that find no handler.
LEMMA NotHeard ==
    ASSUME NEW o, NEW c, NEW v, NEW e,
           \/ c.leg[v].st \in Ended
           \/ c.leg[v].st = "UasUpdating" /\ e.kind = "Update"
           \/ c.leg[v].st = "Connected" /\ e.kind \in {"Connect", "Ring"}
           \/ c.leg[v].st = "UacUpdating" /\ e.kind \in {"Connect", "Ring", "Update"}
    PROVE  RecvEvent(c, v, e, o) = Done(c)
<1>1. Handle(c, v, e, o) = Done(c)
  BY HandleCases DEF Ends
<1> QED BY <1>1, ResultFacts DEF RecvEvent

-----------------------------------------------------------------------------
(* Where the question and its answer are.                                  *)

\* g is h with body b more, which is part of what role says.
Contents(g, h, role, b) ==
    /\ HeldWell(g)
    /\ Bod(g, OfA) = IF role \in OfA THEN Bod(h, OfA) \cup {b} ELSE Bod(h, OfA)
    /\ Bod(g, OfO) = IF role \in OfO THEN Bod(h, OfO) \cup {b} ELSE Bod(h, OfO)
    /\ Bod(g, {"askA"}) = IF role = "askA" THEN Bod(h, {"askA"}) \cup {b} ELSE Bod(h, {"askA"})
    /\ Bod(g, {"answerA"})
          = IF role = "answerA" THEN Bod(h, {"answerA"}) \cup {b} ELSE Bod(h, {"answerA"})
    /\ Bod(g, {"answerO"})
          = IF role = "answerO" THEN Bod(h, {"answerO"}) \cup {b} ELSE Bod(h, {"answerO"})

\* A body may go to the proxy in this role.
Room(h, role, b) ==
    /\ HeldWell(h) /\ b # "none" /\ role \in OfA \cup OfO \cup {"ring"}
    /\ role \in OfA => Bod(h, OfA) = {}
    /\ role \in OfO => Bod(h, OfO) = {}
    /\ role = "answerA" => Bod(h, {"answerO"}) = {}
    /\ role = "answerO" => Bod(h, {"answerA"}) = {}

LEMMA HeldAdd ==
    ASSUME NEW h \in Seq(HeldType), NEW g, NEW role, NEW b, Added(g, h, role, b), Room(h, role, b)
    PROVE  Contents(g, h, role, b)
<1>1. ASSUME NEW T
      PROVE  /\ Bod(g, T) = IF role \in T THEN Bod(h, T) \cup {b} ELSE Bod(h, T)
             /\ Few(h, T) /\ (role \in T => Bod(h, T) = {}) => Few(g, T)
  BY AddedFacts
<1>2. /\ Bod(g, OfA) = IF role \in OfA THEN Bod(h, OfA) \cup {b} ELSE Bod(h, OfA)
      /\ Bod(g, OfO) = IF role \in OfO THEN Bod(h, OfO) \cup {b} ELSE Bod(h, OfO)
      /\ Few(g, OfA) /\ Few(g, OfO)
  BY <1>1 DEF Room, HeldWell
<1>3. /\ Bod(g, {"askA"}) = IF role = "askA" THEN Bod(h, {"askA"}) \cup {b} ELSE Bod(h, {"askA"})
      /\ Bod(g, {"answerA"})
            = IF role = "answerA" THEN Bod(h, {"answerA"}) \cup {b} ELSE Bod(h, {"answerA"})
      /\ Bod(g, {"answerO"})
            = IF role = "answerO" THEN Bod(h, {"answerO"}) \cup {b} ELSE Bod(h, {"answerO"})
  <2>1. (role \in {"askA"} <=> role = "askA") /\ (role \in {"answerA"} <=> role = "answerA")
        /\ (role \in {"answerO"} <=> role = "answerO")
    OBVIOUS
  <2> QED BY <1>1, <2>1
<1>4. Bod(g, {"answerA"}) = {} \/ Bod(g, {"answerO"}) = {}
  BY <1>3 DEF Room, HeldWell
<1>5. \A i \in DOMAIN g : Role(g[i]) # "other" /\ g[i].ev.body # "none"
  <2>1. /\ g \in Seq(HeldType) /\ Len(g) = Len(h) + 1 /\ Len(h) \in Nat
        /\ \A i \in 1 .. Len(h) : g[i] = h[i]
        /\ Role(g[Len(h) + 1]) = role /\ g[Len(h) + 1].ev.body = b
    BY DEF Added
  <2>2. DOMAIN g = 1 .. Len(g) /\ DOMAIN h = 1 .. Len(h)
    BY <2>1
  <2>3. \A i \in 1 .. Len(h) : Role(h[i]) # "other" /\ h[i].ev.body # "none"
    BY <2>2 DEF Room, HeldWell
  <2>4. role # "other" /\ b # "none"
    BY DEF Room, OfA, OfO
  <2> QED BY <2>1, <2>2, <2>3, <2>4
<1> QED BY <1>2, <1>3, <1>4, <1>5 DEF Contents, HeldWell

LEMMA HoldAdds ==
    ASSUME NEW c, CallOK(c), NEW dir \in {"local", "remote"}, NEW e \in EventType(EventKinds)
    PROVE  LET g == Hold(c, dir, e).held IN
           /\ dir = "local" /\ e.kind = "Update" => Added(g, c.held, "askA", e.body)
           /\ dir = "remote" /\ e.kind = "Connect" => Added(g, c.held, "answerA", e.body)
           /\ dir = "remote" /\ e.kind = "Update" => Added(g, c.held, "askO", e.body)
           /\ dir = "local" /\ e.kind = "Connect" => Added(g, c.held, "answerO", e.body)
           /\ dir = "local" /\ e.kind = "Ring" => Added(g, c.held, "ring", e.body)
<1> DEFINE h == c.held
           x == [dir |-> dir, ev |-> e, late |-> FALSE]
           g == Append(h, x)
<1>1. h \in Seq(HeldType) /\ x \in HeldType
  BY CallOKFacts DEF HeldType
<1>2. x.dir = dir /\ x.ev = e
  OBVIOUS
<1>3. Hold(c, dir, e).held = g
  BY HoldFacts
<1> HIDE DEF x, h
<1>4. /\ g \in Seq(HeldType) /\ Len(g) = Len(h) + 1 /\ \A i \in 1 .. Len(h) : g[i] = h[i]
      /\ g[Len(h) + 1] = x
  BY <1>1
<1> HIDE DEF g
<1>5. ASSUME NEW role, Role(x) = role PROVE Added(g, h, role, e.body)
  BY <1>2, <1>4, <1>5 DEF Added
<1>6. /\ dir = "local" /\ e.kind = "Update" => Role(x) = "askA"
      /\ dir = "remote" /\ e.kind = "Connect" => Role(x) = "answerA"
      /\ dir = "remote" /\ e.kind = "Update" => Role(x) = "askO"
      /\ dir = "local" /\ e.kind = "Connect" => Role(x) = "answerO"
      /\ dir = "local" /\ e.kind = "Ring" => Role(x) = "ring"
  BY <1>2 DEF Role
<1> QED BY <1>3, <1>5, <1>6 DEF h

\* The far end of leg A asks: its leg waits.
LEMMA OpensA ==
    ASSUME NEW a, NEW o, NEW h \in Seq(HeldType), Exchange(a, o, h), a.st = "Connected",
           NEW b, b.st = "UasUpdating", b.lsdp = a.lsdp, b.rsdp # "none"
    PROVE  Exchange(b, o, h) /\ Bod(h, OfA) = {} /\ o.st # "UacUpdating"
<1>1. Bod(h, OfA) = {} /\ o.st # "UacUpdating"
  BY DEF Exchange, AsksA
<1>2. Bod(h, {"askA"}) = {} /\ Bod(h, {"answerA"}) = {}
  BY <1>1, BodMono
<1> QED BY <1>1, <1>2 DEF Exchange, AsksA, AsksO, Described

\* The question goes to the proxy.
LEMMA AsksAHeld ==
    ASSUME NEW a, NEW o, NEW h \in Seq(HeldType), NEW g, Exchange(a, o, h), Bod(h, OfA) = {},
           a.st = "UasUpdating", o.st = "Connected", Added(g, h, "askA", a.rsdp)
    PROVE  Exchange(a, o, g)
<1>1. Room(h, "askA", a.rsdp)
  BY DEF Exchange, Described, Room, OfA, OfO
<1>2. Contents(g, h, "askA", a.rsdp)
  BY <1>1, HeldAdd
<1>3. Bod(h, {"askA"}) = {} /\ Bod(h, {"answerA"}) = {}
  BY BodMono
<1>4. /\ HeldWell(g) /\ Bod(g, OfA) = {a.rsdp} /\ Bod(g, OfO) = Bod(h, OfO)
      /\ Bod(g, {"askA"}) = {a.rsdp} /\ Bod(g, {"answerA"}) = {}
      /\ Bod(g, {"answerO"}) = Bod(h, {"answerO"})
  BY <1>2, <1>3 DEF Contents, OfA, OfO
<1> QED BY <1>4 DEF Exchange, AsksA, AsksO

\* Leg O sends it to its far end.
LEMMA AsksASent ==
    ASSUME NEW a, NEW o, NEW h \in Seq(HeldType), Exchange(a, o, h), Bod(h, OfA) = {},
           a.st = "UasUpdating", o.st = "Connected",
           NEW p, p.st = "UacUpdating", p.lsdp = a.rsdp, p.rsdp = o.rsdp
    PROVE  Exchange(a, p, h)
<1>1. Bod(h, {"askA"}) = {} /\ Bod(h, {"answerA"}) = {} /\ Bod(h, OfO) = {} /\ Bod(h, {"answerO"}) = {}
  BY BodMono DEF Exchange, AsksO
<1> QED BY <1>1 DEF Exchange, AsksA, AsksO, Described

\* Leg A has its answer from leg O, whose far end has the same body.
LEMMA AnswersA ==
    ASSUME NEW a, NEW o, NEW h \in Seq(HeldType), Exchange(a, o, h), Bod(h, OfA) = {},
           a.st = "UasUpdating", o.st # "UacUpdating", Bod(h, {"answerO"}) = {},
           o.st = "Connected" => a.rsdp = o.lsdp,
           NEW b, b.st = "Connected", b.rsdp = a.rsdp, b.lsdp = o.rsdp
    PROVE  Exchange(b, o, h)
<1>1. Bod(h, {"askA"}) = {} /\ Bod(h, {"answerA"}) = {}
  BY BodMono
<1> QED BY <1>1 DEF Exchange, AsksA, AsksO, Described

\* The far end of leg O answers, and the answer goes to the proxy.
LEMMA AnswersAHeld ==
    ASSUME NEW a, NEW o, NEW h \in Seq(HeldType), NEW g, NEW b, Exchange(a, o, h), b # "none",
           o.st = "UacUpdating", Added(g, h, "answerA", b),
           NEW p, p.st = "Connected", p.lsdp = o.lsdp, p.rsdp = o.rsdp
    PROVE  Exchange(a, p, g)
<1>1. Bod(h, OfA) = {} /\ Bod(h, OfO) = {} /\ a.st = "UasUpdating" /\ o.lsdp = a.rsdp
  BY DEF Exchange, AsksA, AsksO
<1>2. Bod(h, {"askA"}) = {} /\ Bod(h, {"answerA"}) = {} /\ Bod(h, {"answerO"}) = {}
  BY <1>1, BodMono
<1>3. Room(h, "answerA", b)
  BY <1>1, <1>2 DEF Exchange, Room, OfA, OfO
<1>4. Contents(g, h, "answerA", b)
  BY <1>3, HeldAdd
<1>5. /\ HeldWell(g) /\ Bod(g, OfO) = {} /\ Bod(g, {"askA"}) = {} /\ Bod(g, {"answerO"}) = {}
  BY <1>1, <1>2, <1>4 DEF Contents, OfA, OfO
<1> QED BY <1>1, <1>5 DEF Exchange, AsksA, AsksO, Described

\* The same with the far end of leg O: its question is at the proxy at once.
LEMMA AsksOHeld ==
    ASSUME NEW a, NEW o, NEW h \in Seq(HeldType), NEW g, NEW b, Exchange(a, o, h), b # "none",
           o.st = "Connected", Added(g, h, "askO", b),
           NEW p, p.st = "UasUpdating", p.lsdp = o.lsdp, p.rsdp = o.rsdp
    PROVE  Exchange(a, p, g)
<1>1. Bod(h, OfO) = {} /\ a.st # "UacUpdating"
  BY DEF Exchange, AsksO
<1>2. Bod(h, {"answerO"}) = {}
  BY <1>1, BodMono
<1>3. Room(h, "askO", b)
  BY <1>1 DEF Exchange, Room, OfA, OfO
<1>4. Contents(g, h, "askO", b)
  BY <1>3, HeldAdd
<1>5. /\ HeldWell(g) /\ Bod(g, OfA) = Bod(h, OfA) /\ Bod(g, {"askA"}) = Bod(h, {"askA"})
      /\ Bod(g, {"answerA"}) = Bod(h, {"answerA"}) /\ Bod(g, {"answerO"}) = {}
  BY <1>2, <1>4 DEF Contents, OfA, OfO
<1> QED BY <1>1, <1>5 DEF Exchange, AsksA, AsksO, Described

LEMMA AsksOSent ==
    ASSUME NEW a, NEW o, NEW h \in Seq(HeldType), Exchange(a, o, h), Bod(h, OfO) = {},
           o.st = "UasUpdating", a.st = "Connected",
           NEW b, b.st = "UacUpdating", b.lsdp = o.rsdp, b.rsdp = a.rsdp
    PROVE  Exchange(b, o, h)
<1>1. Bod(h, {"answerO"}) = {} /\ Bod(h, OfA) = {} /\ o.st # "UacUpdating"
  BY BodMono DEF Exchange, AsksA
<1>2. Bod(h, {"askA"}) = {} /\ Bod(h, {"answerA"}) = {}
  BY <1>1, BodMono
<1> QED BY <1>1, <1>2 DEF Exchange, AsksA, AsksO, Described

\* The answer to leg O goes to the proxy, from a leg A that has or knows it.
LEMMA AnswersOHeld ==
    ASSUME NEW a, NEW o, NEW h \in Seq(HeldType), NEW g, Exchange(a, o, h), Bod(h, OfO) = {},
           o.st = "UasUpdating", a.st \in {"Connected", "UacUpdating"},
           NEW b, b.st = "Connected", b.lsdp = a.lsdp, b.lsdp = o.rsdp, b.rsdp # "none",
           Added(g, h, "answerO", b.rsdp)
    PROVE  Exchange(b, o, g)
<1>1. Bod(h, OfA) = {} /\ o.st # "UacUpdating" /\ Described(b)
  BY DEF Exchange, AsksA, Described
<1>2. Bod(h, {"askA"}) = {} /\ Bod(h, {"answerA"}) = {} /\ Bod(h, {"answerO"}) = {}
  BY <1>1, BodMono
<1>3. Room(h, "answerO", b.rsdp)
  BY <1>1, <1>2 DEF Exchange, Room, OfA, OfO
<1>4. Contents(g, h, "answerO", b.rsdp)
  BY <1>3, HeldAdd
<1>5. /\ HeldWell(g) /\ Bod(g, OfA) = {} /\ Bod(g, {"askA"}) = {} /\ Bod(g, {"answerA"}) = {}
      /\ Bod(g, {"answerO"}) = {b.rsdp}
  BY <1>1, <1>2, <1>4 DEF Contents, OfA, OfO
<1> QED BY <1>1, <1>5 DEF Exchange, AsksA, AsksO, Described

\* Leg O gives its answer.
LEMMA AnswersO ==
    ASSUME NEW a, NEW o, NEW h \in Seq(HeldType), NEW b, Exchange(a, o, h), Bod(h, OfO) = {},
           o.st = "UasUpdating", a.st # "UacUpdating", Bod(h, {"answerA"}) = {}, b # "none",
           a.st = "UasUpdating" \/ (b = a.rsdp /\ a.lsdp = o.rsdp),
           NEW p, p.st = "Connected", p.lsdp = b, p.rsdp = o.rsdp
    PROVE  Exchange(a, p, h)
<1>1. Bod(h, {"answerO"}) = {}
  BY BodMono
<1> QED BY <1>1 DEF Exchange, AsksA, AsksO, Described

\* A ringing response: nothing but the body that a waiting leg has sent last.
LEMMA RingsA ==
    ASSUME NEW a, NEW o, NEW h, Exchange(a, o, h), a.st = "UasUpdating",
           NEW b, b.st = "UasUpdating", b.lsdp # "none", b.rsdp = a.rsdp
    PROVE  Exchange(b, o, h)
BY DEF Exchange, AsksA, AsksO, Described

LEMMA RingsO ==
    ASSUME NEW a, NEW o, NEW h, Exchange(a, o, h), o.st = "UasUpdating",
           NEW p, p.st = "UasUpdating", p.lsdp # "none", p.rsdp = o.rsdp
    PROVE  Exchange(a, p, h)
BY DEF Exchange, AsksA, AsksO, Described

LEMMA RingsHeld ==
    ASSUME NEW a, NEW o, NEW h \in Seq(HeldType), NEW g, NEW b, Exchange(a, o, h), b # "none",
           Added(g, h, "ring", b)
    PROVE  Exchange(a, o, g)
<1>1. Room(h, "ring", b)
  BY DEF Exchange, Room, OfA, OfO
<1>2. Contents(g, h, "ring", b)
  BY <1>1, HeldAdd
<1>3. /\ HeldWell(g) /\ Bod(g, OfA) = Bod(h, OfA) /\ Bod(g, OfO) = Bod(h, OfO)
      /\ Bod(g, {"askA"}) = Bod(h, {"askA"}) /\ Bod(g, {"answerA"}) = Bod(h, {"answerA"})
      /\ Bod(g, {"answerO"}) = Bod(h, {"answerO"})
  BY <1>2 DEF Contents, OfA, OfO
<1> QED BY <1>3 DEF Exchange, AsksA, AsksO

LEMMA OpensO ==
    ASSUME NEW a, NEW o, NEW h \in Seq(HeldType), Exchange(a, o, h), o.st = "Connected",
           NEW p, p.st = "UasUpdating", p.lsdp = o.lsdp, p.rsdp # "none"
    PROVE  Exchange(a, p, h) /\ Bod(h, OfO) = {} /\ a.st # "UacUpdating"
<1>1. Bod(h, OfO) = {} /\ a.st # "UacUpdating"
  BY DEF Exchange, AsksO
<1>2. Bod(h, {"answerO"}) = {}
  BY <1>1, BodMono
<1> QED BY <1>1, <1>2 DEF Exchange, AsksA, AsksO, Described

-----------------------------------------------------------------------------
(* The far end of a leg asks.                                              *)

\* The pairing, but for the callbacks of leg u, in a call that has not ended.
Nearly(c, u) ==
    /\ CallOK(c)
    /\ LegFit(c.leg[u]) /\ LegWell(c.leg[Peer(u)])
    /\ c.leg["A"].st \notin Ended /\ c.leg["O"].st \notin Ended
    /\ Exchange(c.leg["A"], c.leg["O"], c.held)
    /\ env.rtpp = "no" => c.held = <<>>

LEMMA NearlyCallback ==
    ASSUME NEW c, NEW u \in Legs, Nearly(c, u), NEW b, b
    PROVE  Paired(WithLeg(c, u, [c.leg[u] EXCEPT !.cb = b]))
<1> DEFINE l == c.leg[u]
           m == [l EXCEPT !.cb = b]
<1>1. Shape(c) /\ l \in LegType
  BY CallOKFacts DEF Nearly
<1>2. Alike(m, l) /\ m.inv = l.inv /\ m.cb = b
  <2> HIDE DEF l
  <2> QED BY <1>1 DEF LegType, Alike
<1> HIDE DEF m
<1>3. LegWell(m)
  BY <1>2 DEF LegWell, LegFit, Alike, Nearly
<1>4. \A k : Alike(k, k)
  BY DEF Alike
<1>5. CASE u = "A"
  <2>1. /\ WithLeg(c, u, m).leg["A"] = m /\ WithLeg(c, u, m).leg["O"] = c.leg["O"]
        /\ WithLeg(c, u, m).held = c.held
    BY <1>1, <1>5, LegByName
  <2>2. Exchange(m, c.leg["O"], c.held)
    BY <1>2, <1>4, <1>5, ExchangeAlike DEF Nearly
  <2>3. m.st = c.leg["A"].st
    BY <1>2, <1>5 DEF Alike
  <2> QED BY <1>3, <1>5, <2>1, <2>2, <2>3, LegsAre DEF Paired, Well, Nearly, m
<1>6. CASE u = "O"
  <2>1. /\ WithLeg(c, u, m).leg["O"] = m /\ WithLeg(c, u, m).leg["A"] = c.leg["A"]
        /\ WithLeg(c, u, m).held = c.held
    BY <1>1, <1>6, LegByName
  <2>2. Exchange(c.leg["A"], m, c.held)
    BY <1>2, <1>4, <1>6, ExchangeAlike DEF Nearly
  <2>3. m.st = c.leg["O"].st
    BY <1>2, <1>6 DEF Alike
  <2> QED BY <1>3, <1>6, <2>1, <2>2, <2>3, LegsAre DEF Paired, Well, Nearly, m
<1> QED BY <1>5, <1>6, LegsAre

LEMMA OvertakesHeld ==
    ASSUME NEW c, CallOK(c), NEW v
    PROVE  LET d == Overtakes(c, v) IN
           /\ CallOK(d) /\ d.leg = c.leg /\ Fewer(d.held, c.held)
           /\ d.held \in Seq(HeldType) /\ (c.held = <<>> => d.held = <<>>)
<1>1. /\ CallOK(Overtakes(c, v)) /\ Overtakes(c, v).leg = c.leg
      /\ Delayed(Overtakes(c, v).held, c.held)
  BY OvertakesFacts
<1>2. c.held \in Seq(HeldType) /\ Overtakes(c, v).held \in Seq(HeldType)
  BY <1>1, CallOKFacts
<1> QED BY <1>1, <1>2, DelayedFewer

LEMMA NearlyOvertakes ==
    ASSUME NEW c, NEW u, Nearly(c, u), NEW v
    PROVE  Nearly(Overtakes(c, v), u)
<1> DEFINE d == Overtakes(c, v)
<1>1. CallOK(d) /\ d.leg = c.leg /\ Fewer(d.held, c.held) /\ (c.held = <<>> => d.held = <<>>)
  BY OvertakesHeld DEF Nearly
<1> HIDE DEF d
<1>2. Exchange(c.leg["A"], c.leg["O"], d.held)
  BY <1>1, ExchangeFewer DEF Nearly
<1>3. Nearly(d, u)
  BY <1>1, <1>2 DEF Nearly
<1> QED BY <1>3 DEF d

LEMMA NearlyPaired ==
    ASSUME NEW c, NEW u \in Legs, Nearly(c, u), c.leg[u].inv = "open" => c.leg[u].cb
    PROVE  Paired(c)
<1>1. LegWell(c.leg[u])
  BY DEF Nearly, LegWell
<1> QED BY <1>1, LegsAre DEF Nearly, Paired, Well

\* What the handler of a question leaves to leg u, which has asked.
Asked(c, r, u) ==
    ~r.raised /\ Nearly(r.c, u) /\ (r.c.leg[u].inv = "open" => r.c.leg[u].cb = c.leg[u].cb)

\* Leg A waits, its question is on its way to leg O.
LEMMA QuestionOfA ==
    ASSUME env \in Environments, Benign, NEW o \in Outcomes, NEW c, Nearly(c, "A"),
           Bod(c.held, OfA) = {}, c.leg["A"].st = "UasUpdating", c.leg["O"].st # "UacUpdating",
           NEW e \in EventType(EventKinds), e.kind = "Update", e.body = c.leg["A"].rsdp
    PROVE  Asked(c, RecvEvent(c, "O", e, o), "A")
<1> DEFINE a == c.leg["A"]
           p == c.leg["O"]
           r == RecvEvent(c, "O", e, o)
<1> SUFFICES Asked(c, r, "A")
  OBVIOUS
<1>1. /\ CallOK(c) /\ LegFit(a) /\ LegWell(p) /\ a.st \notin Ended /\ p.st \notin Ended
      /\ Exchange(a, p, c.held) /\ (env.rtpp = "no" => c.held = <<>>)
  BY LegsAre DEF Nearly
<1>2. c.held \in Seq(HeldType) /\ "A" \in Legs /\ "O" \in Legs
  BY <1>1, CallOKFacts, LegsAre
<1>3. p.st \in {"Connected", "UasUpdating"}
  BY <1>1, <1>2, LegStates
<1>4. Passed(c, r)
  BY <1>1, <1>2, RecvEventPasses
<1>5. CallOK(r.c)
  BY <1>4 DEF Passed
<1>6. CASE p.st = "UasUpdating"
  <2>1. r = Done(c)
    BY <1>6, NotHeard
  <2> HIDE DEF r
  <2> QED BY <2>1, ResultFacts DEF Asked
<1>7. CASE p.st = "Connected" /\ p.lsdp = e.body
  <2> DEFINE d == Overtakes(c, "O")
             x == Event("Connect", p.rsdp)
             s == Handle(d, "A", x, o)
  <2>1. p.lsdp # "none" /\ p.rsdp # "none"
    BY <1>1 DEF Exchange, Described
  <2>2. r = s
    BY <1>7, <2>1, UpdateKnown, LegsAre
  <2>3. /\ CallOK(d) /\ d.leg = c.leg /\ Fewer(d.held, c.held)
        /\ d.held \in Seq(HeldType) /\ (c.held = <<>> => d.held = <<>>)
    BY <1>1, OvertakesHeld
  <2>4. p.rsdp \in Sdp
    <3>1. p \in LegType
      BY <1>1, <1>2, CallOKFacts
    <3> HIDE DEF p
    <3> QED BY <3>1 DEF LegType
  <2>5. x \in EventType(EventKinds) /\ x.kind = "Connect" /\ x.body = p.rsdp /\ ~Proxied("A", x)
    BY <2>4, BodyTypes, TypesWiden, EventFields DEF Proxied
  <2>6. d.leg["A"].st = "UasUpdating" /\ d.leg["A"].inv = "open"
    BY <1>1, <2>3 DEF LegFit
  <2> HIDE DEF d, x, r
  <2>7. Replied(s, d, "A", p.rsdp)
    BY <1>2, <2>3, <2>5, <2>6, AnswerGiven
  <2> HIDE DEF s
  <2> DEFINE b == s.c.leg["A"]
  <2>8. /\ ~s.raised /\ s.c.held = d.held /\ s.c.leg["O"] = p
        /\ b.st = "Connected" /\ b.lsdp = p.rsdp /\ b.rsdp = a.rsdp
        /\ b.inv = "final" /\ b.eq = <<>>
    BY <2>3, <2>7, LegsAre DEF Replied
  <2> HIDE DEF b
  <2>9. Exchange(a, p, d.held) /\ Bod(d.held, OfA) = {} /\ Bod(d.held, {"answerO"}) = {}
    <3>1. Exchange(a, p, d.held)
      BY <1>1, <2>3, ExchangeFewer
    <3>2. Bod(d.held, OfA) = {}
      BY <2>3 DEF Fewer
    <3>3. Bod(d.held, OfO) = {}
      BY <1>7, <3>1 DEF Exchange, AsksO
    <3> QED BY <2>3, <3>1, <3>2, <3>3, BodMono
  <2>10. Exchange(b, p, d.held)
    BY <1>7, <2>3, <2>8, <2>9, AnswersA
  <2>11. LegFit(b) /\ b.st \notin Ended
    BY <2>8 DEF LegFit, Ended
  <2>12. Nearly(s.c, "A")
    BY <1>1, <1>5, <2>2, <2>3, <2>8, <2>10, <2>11, LegsAre DEF Nearly, b
  <2> QED BY <2>2, <2>8, <2>12 DEF Asked, b
<1>8. CASE p.st = "Connected" /\ p.lsdp # e.body /\ Proxied("O", e)
  <2>1. p.lsdp # "none"
    BY <1>1 DEF Exchange, Described
  <2>2. o = "later"
    BY <1>8, BenignIs DEF Proxied
  <2> DEFINE g == Hold(c, "local", e)
  <2>3. r = Done(g)
    BY <1>8, <2>1, <2>2, UpdateHeld
  <2>4. g.leg = c.leg /\ Added(g.held, c.held, "askA", a.rsdp)
    BY <1>1, HoldFacts, HoldAdds
  <2> HIDE DEF g, r
  <2>5. Exchange(a, p, g.held)
    BY <1>1, <1>2, <1>8, <2>4, AsksAHeld
  <2>6. r.c = g /\ ~r.raised
    BY <2>3, ResultFacts
  <2>7. env.rtpp # "no"
    BY <1>8 DEF Proxied
  <2> QED BY <1>1, <1>5, <2>4, <2>5, <2>6, <2>7, LegsAre DEF Nearly, Asked
<1>9. CASE p.st = "Connected" /\ p.lsdp # e.body /\ ~Proxied("O", e)
  <2>1. p.lsdp # "none"
    BY <1>1 DEF Exchange, Described
  <2> DEFINE m == r.c.leg["O"]
  <2>2. /\ ~r.raised /\ r.c.held = c.held /\ r.c.leg["A"] = a
        /\ m.st = "UacUpdating" /\ m.lsdp = e.body /\ m.rsdp = p.rsdp
        /\ m.inv = p.inv /\ m.cb = p.cb /\ m.eq = p.eq
    BY <1>1, <1>2, <1>9, <2>1, UpdateSent, LegsAre
  <2> HIDE DEF r, m
  <2>3. Exchange(a, m, c.held)
    BY <1>1, <1>2, <1>9, <2>2, AsksASent
  <2>4. LegWell(m) /\ m.st \notin Ended
    BY <1>1, <1>9, <2>2 DEF LegWell, LegFit, Ended
  <2> QED BY <1>1, <1>5, <2>2, <2>3, <2>4, LegsAre DEF Nearly, m, Asked
<1> QED BY <1>3, <1>6, <1>7, <1>8, <1>9

\* The reverse.
LEMMA QuestionOfO ==
    ASSUME env \in Environments, Benign, NEW o \in Outcomes, NEW c, Nearly(c, "O"),
           Bod(c.held, OfO) = {}, c.leg["O"].st = "UasUpdating", c.leg["A"].st # "UacUpdating",
           NEW e \in EventType(EventKinds), e.kind = "Update", e.body = c.leg["O"].rsdp
    PROVE  Asked(c, RecvEvent(c, "A", e, o), "O")
<1> DEFINE a == c.leg["A"]
           p == c.leg["O"]
           r == RecvEvent(c, "A", e, o)
<1> SUFFICES Asked(c, r, "O")
  OBVIOUS
<1>1. /\ CallOK(c) /\ LegFit(p) /\ LegWell(a) /\ a.st \notin Ended /\ p.st \notin Ended
      /\ Exchange(a, p, c.held) /\ (env.rtpp = "no" => c.held = <<>>)
  BY LegsAre DEF Nearly
<1>2. c.held \in Seq(HeldType) /\ "A" \in Legs /\ "O" \in Legs
  BY <1>1, CallOKFacts, LegsAre
<1>3. a.st \in {"Connected", "UasUpdating"}
  BY <1>1, <1>2, LegStates
<1>4. Passed(c, r)
  BY <1>1, <1>2, RecvEventPasses
<1>5. CallOK(r.c)
  BY <1>4 DEF Passed
<1>6. CASE a.st = "UasUpdating"
  <2>1. r = Done(c)
    BY <1>6, NotHeard
  <2> HIDE DEF r
  <2> QED BY <2>1, ResultFacts DEF Asked
<1>7. CASE a.st = "Connected" /\ a.lsdp = e.body
  <2> DEFINE x == Event("Connect", a.rsdp)
             s == Handle(c, "O", x, o)
  <2>1. a.lsdp # "none" /\ a.rsdp # "none"
    BY <1>1 DEF Exchange, Described
  <2>2. r = s
    <3>1. Overtakes(c, "A") = c
      BY DEF Overtakes
    <3> QED BY <1>7, <2>1, <3>1, UpdateKnown, LegsAre
  <2>3. a.rsdp \in Sdp
    <3>1. a \in LegType
      BY <1>1, <1>2, CallOKFacts
    <3> HIDE DEF a
    <3> QED BY <3>1 DEF LegType
  <2>4. x \in EventType(EventKinds) /\ x.kind = "Connect" /\ x.body = a.rsdp /\ x.fresh
    BY <2>3, BodyTypes, TypesWiden, EventFields
  <2>5. p.inv = "open"
    BY <1>1 DEF LegFit
  <2>6. Bod(c.held, {"answerA"}) = {}
    <3>1. Bod(c.held, OfA) = {}
      BY <1>1, <1>7 DEF Exchange, AsksA
    <3> QED BY <1>2, <3>1, BodMono
  <2> HIDE DEF x, r
  <2>7. CASE Proxied("O", x)
    <3>1. o = "later"
      BY <2>7, BenignIs DEF Proxied
    <3> DEFINE g == Hold(c, "local", x)
    <3>2. s = Done(g)
      BY <2>4, <2>7, <3>1, AnswerHeld
    <3>3. g.leg = c.leg /\ Added(g.held, c.held, "answerO", a.rsdp)
      BY <1>1, <2>4, HoldFacts, HoldAdds
    <3> HIDE DEF g, s
    <3>4. Exchange(a, p, g.held)
      BY <1>1, <1>2, <1>7, <2>1, <3>3, AnswersOHeld
    <3>5. r.c = g /\ ~r.raised
      BY <2>2, <3>2, ResultFacts
    <3>6. env.rtpp # "no"
      BY <2>7 DEF Proxied
    <3> QED BY <1>1, <1>5, <3>3, <3>4, <3>5, <3>6, LegsAre DEF Nearly, Asked
  <2>8. CASE ~Proxied("O", x)
    <3>1. Replied(s, c, "O", a.rsdp)
      BY <1>1, <1>2, <2>4, <2>5, <2>8, AnswerGiven
    <3> HIDE DEF s
    <3> DEFINE b == s.c.leg["O"]
    <3>2. /\ ~s.raised /\ s.c.held = c.held /\ s.c.leg["A"] = a
          /\ b.st = "Connected" /\ b.lsdp = a.rsdp /\ b.rsdp = p.rsdp
          /\ b.inv = "final" /\ b.eq = <<>>
      BY <3>1, LegsAre DEF Replied
    <3> HIDE DEF b
    <3>3. Exchange(a, b, c.held)
      BY <1>1, <1>2, <1>7, <2>1, <2>6, <3>2, AnswersO
    <3>4. LegFit(b) /\ b.st \notin Ended
      BY <3>2 DEF LegFit, Ended
    <3>5. Nearly(s.c, "O")
      BY <1>1, <1>5, <2>2, <3>2, <3>3, <3>4, LegsAre DEF Nearly, b
    <3> QED BY <2>2, <3>2, <3>5 DEF Asked, b
  <2> QED BY <2>7, <2>8
<1>8. CASE a.st = "Connected" /\ a.lsdp # e.body
  <2>1. a.lsdp # "none" /\ ~Proxied("A", e)
    BY <1>1 DEF Exchange, Described, Proxied
  <2> DEFINE m == r.c.leg["A"]
  <2>2. /\ ~r.raised /\ r.c.held = c.held /\ r.c.leg["O"] = p
        /\ m.st = "UacUpdating" /\ m.lsdp = e.body /\ m.rsdp = a.rsdp
        /\ m.inv = a.inv /\ m.cb = a.cb /\ m.eq = a.eq
    BY <1>1, <1>2, <1>8, <2>1, UpdateSent, LegsAre
  <2> HIDE DEF r, m
  <2>3. Exchange(m, p, c.held)
    BY <1>1, <1>2, <1>8, <2>2, AsksOSent
  <2>4. LegWell(m) /\ m.st \notin Ended
    BY <1>1, <1>8, <2>2 DEF LegWell, LegFit, Ended
  <2> QED BY <1>1, <1>5, <2>2, <2>3, <2>4, LegsAre DEF Nearly, m, Asked
<1> QED BY <1>3, <1>6, <1>7, <1>8

\* The far end of a connected leg asks, and nothing raises.
LEMMA OfferedPaired ==
    ASSUME env \in Environments, Benign, NEW o \in Outcomes, NEW c, CallOK(c), Paired(c),
           NEW u \in Legs, c.leg[u].st = "Connected", NEW b \in Sdp, b # "none"
    PROVE  Paired(Offered(c, u, Event("Update", b), o).c)
<1> DEFINE l == c.leg[u]
           e == Event("Update", b)
           d == WithLeg(c, u, Opened(l))
           x == WithLeg(c, u, OpenedBy(l, e.body))
           r == IF ~Proxied(u, e) THEN RecvEvent(Overtakes(x, u), Peer(u), e, o)
                ELSE IF o = "later" THEN Done(Hold(d, "remote", e)) ELSE Done(d)
<1>1. e \in EventType(EventKinds) /\ e.kind = "Update" /\ e.body = b
  BY BodyTypes, EventFields
<1>2. /\ Offered(c, u, e, o).c = WithLeg(r.c, u, [r.c.leg[u] EXCEPT !.cb = ~r.raised])
      /\ CallOK(r.c) /\ CallOK(x) /\ CallOK(d)
  BY <1>1, OfferedKept
<1>3. LegOK(l) /\ Shape(c) /\ c.held \in Seq(HeldType) /\ Peer(u) \in Legs /\ Peer(u) # u
  BY CallOKFacts, PeerFacts
<1>4. /\ Waiting(Opened(l), l) /\ Opened(l).rsdp = l.rsdp
      /\ Waiting(OpenedBy(l, b), l) /\ OpenedBy(l, b).rsdp = b
  BY <1>3, OpenedFacts
<1>5. /\ LegWell(l) /\ LegWell(c.leg[Peer(u)]) /\ (env.rtpp = "no" => c.held = <<>>)
      /\ Exchange(c.leg["A"], c.leg["O"], c.held)
      /\ c.leg[Peer(u)].st \notin Ended
  BY PairedLegs DEF Ended
<1> DEFINE m == OpenedBy(l, b)
           n == Opened(l)
<1>6. /\ m.st = "UasUpdating" /\ m.inv = "open" /\ m.eq = <<>> /\ m.lsdp = l.lsdp /\ m.rsdp = b
      /\ n.st = "UasUpdating" /\ n.inv = "open" /\ n.eq = <<>> /\ n.lsdp = l.lsdp
      /\ n.rsdp = l.rsdp
  BY <1>4 DEF Waiting
<1>7. /\ x.leg[u] = m /\ x.leg[Peer(u)] = c.leg[Peer(u)] /\ x.held = c.held
      /\ d.leg[u] = n /\ d.leg[Peer(u)] = c.leg[Peer(u)] /\ d.held = c.held
  BY <1>1, <1>3, WithLegFacts
<1> HIDE DEF e, x, d, m, n
<1>8. LegFit(m) /\ LegFit(n) /\ m.st \notin Ended /\ n.st \notin Ended
  BY <1>6 DEF LegFit, Ended
<1>9. ~r.raised /\ Nearly(r.c, u)
  <2>1. CASE u = "A"
    <3> DEFINE y == Overtakes(x, "A")
    <3>1. Exchange(m, c.leg["O"], c.held) /\ Bod(c.held, OfA) = {} /\ c.leg["O"].st # "UacUpdating"
      BY <1>3, <1>5, <1>6, <2>1, OpensA
    <3>2. Nearly(x, "A")
      BY <1>2, <1>5, <1>7, <1>8, <2>1, <3>1, LegsAre DEF Nearly
    <3>3. y = x
      BY DEF Overtakes
    <3>4. Asked(x, RecvEvent(x, "O", e, o), "A")
      BY <1>1, <1>6, <1>7, <2>1, <3>1, <3>2, QuestionOfA, LegsAre
    <3>5. r = RecvEvent(x, "O", e, o)
      BY <2>1, <3>3, LegsAre DEF Proxied
    <3> HIDE DEF r
    <3> QED BY <2>1, <3>4, <3>5 DEF Asked
  <2>2. CASE u = "O" /\ ~Proxied(u, e)
    <3> DEFINE y == Overtakes(x, "O")
    <3>1. Exchange(c.leg["A"], m, c.held) /\ Bod(c.held, OfO) = {} /\ c.leg["A"].st # "UacUpdating"
      BY <1>3, <1>5, <1>6, <2>2, OpensO
    <3>2. Nearly(x, "O")
      BY <1>2, <1>5, <1>7, <1>8, <2>2, <3>1, LegsAre DEF Nearly
    <3>3. Nearly(y, "O")
      BY <3>2, NearlyOvertakes
    <3>4. y.leg = x.leg /\ Fewer(y.held, x.held)
      BY <1>2, OvertakesHeld
    <3> HIDE DEF y
    <3>5. Bod(y.held, OfO) = {}
      BY <1>7, <3>1, <3>4 DEF Fewer
    <3>6. Asked(y, RecvEvent(y, "A", e, o), "O")
      BY <1>1, <1>6, <1>7, <2>2, <3>1, <3>3, <3>4, <3>5, QuestionOfO, LegsAre
    <3>7. r = RecvEvent(y, "A", e, o)
      BY <2>2, LegsAre DEF y
    <3> HIDE DEF r
    <3> QED BY <2>2, <3>6, <3>7 DEF Asked
  <2>3. CASE Proxied(u, e)
    <3>1. u = "O" /\ o = "later" /\ env.rtpp # "no"
      BY <2>3, BenignIs DEF Proxied
    <3> DEFINE g == Hold(d, "remote", e)
    <3>2. r = Done(g)
      BY <2>3, <3>1
    <3>3. g.leg = d.leg /\ Added(g.held, c.held, "askO", b)
      BY <1>1, <1>2, <1>7, HoldFacts, HoldAdds
    <3> HIDE DEF g, r
    <3>4. Exchange(c.leg["A"], n, g.held)
      BY <1>3, <1>5, <1>6, <3>1, <3>3, AsksOHeld
    <3>5. r.c = g /\ ~r.raised
      BY <3>2, ResultFacts
    <3> QED BY <1>2, <1>5, <1>7, <1>8, <3>1, <3>3, <3>4, <3>5, LegsAre DEF Nearly
  <2> QED BY <2>1, <2>2, <2>3, LegsAre
<1> HIDE DEF r
<1>10. Paired(WithLeg(r.c, u, [r.c.leg[u] EXCEPT !.cb = ~r.raised]))
  BY <1>9, NearlyCallback
<1> QED BY <1>2, <1>10 DEF e

LEMMA InviteArrivesPaired ==
    ASSUME env \in Environments, Benign, CallOK(Call), Paired(Call), NEW o \in Outcomes,
           NEW u \in Legs, NEW body \in Offers, InviteArrives(u, body, FALSE, o)
    PROVE  Paired(Call')
<1> DEFINE l == leg[u]
           e == Event("Update", body)
           m == WithFinal([l EXCEPT !.inv = "open", !.cb = FALSE])
           r1 == Done(WithLeg(Call, u, m))
           r2 == Offered(Call, u, e, o)
<1>1. body \in Sdp /\ body # "none"
  BY BenignIs, OfferedBodies, DialogAssumption
<1>2. o # "error"
  BY BenignIs
<1>3. l.st = "Connected" /\ (Becomes(r1) \/ Becomes(r2))
  BY <1>1, <1>2 DEF InviteArrives
<1>4. LegOK(l) /\ Call.leg[u] = l /\ LegWell(l)
  BY LegCallOK, CallFields, PairedLegs
<1>5. LegOK(m) /\ Alike(m, l) /\ m.inv = "final"
  <2>1. PICK b \in BOOLEAN : b = FALSE
    BY Zenon
  <2>2. m = WithFinal([l EXCEPT !.inv = "open", !.cb = b])
    BY <2>1, Zenon
  <2> HIDE DEF m
  <2> QED BY <1>3, <1>4, <2>2, OpenFacts
<1> HIDE DEF m, e
<1>6. LegWell(m)
  BY <1>3, <1>4, <1>5 DEF LegWell, LegFit, Alike
<1>7. CallOK(r1.c) /\ Paired(r1.c)
  BY <1>4, <1>5, <1>6, PairedEdit, CallOKWithLeg, ResultFacts
<1>8. CallOK(r2.c) /\ Paired(r2.c)
  BY <1>1, <1>3, <1>4, OfferedPaired, OfferedKept, BodyTypes DEF e
<1> HIDE DEF r1, r2
<1> QED BY <1>3, <1>7, <1>8, BecomesCall DEF Becomes

-----------------------------------------------------------------------------
(* The far end of a leg that asks for the other rings or accepts.          *)

LEMMA Conversing ==
    ASSUME NEW c, LegWell(c.leg["A"]), LegWell(c.leg["O"]),
           c.leg["A"].st \notin Ended, c.leg["O"].st \notin Ended,
           Exchange(c.leg["A"], c.leg["O"], c.held), env.rtpp = "no" => c.held = <<>>
    PROVE  Paired(c)
BY DEF Paired, Well

LEMMA RingPaired ==
    ASSUME env \in Environments, Benign, NEW o \in Outcomes, NEW c, CallOK(c), Paired(c),
           NEW v \in Legs, c.leg[v].st = "UasUpdating",
           NEW e \in EventType(EventKinds), e.kind = "Ring", e.body # "none"
    PROVE  Paired(RecvEvent(c, v, e, o).c)
<1> DEFINE r == RecvEvent(c, v, e, o)
           l == c.leg[v]
<1>1. /\ LegWell(l) /\ LegWell(c.leg[Peer(v)]) /\ c.leg[Peer(v)].st \notin Ended
      /\ (env.rtpp = "no" => c.held = <<>>) /\ Exchange(c.leg["A"], c.leg["O"], c.held)
      /\ l.inv = "open"
  BY PairedLegs DEF Ended, LegWell, LegFit
<1>2. c.held \in Seq(HeldType)
  BY CallOKFacts
<1>3. CASE Proxied(v, e)
  <2>1. v = "O" /\ o = "later" /\ env.rtpp # "no"
    BY <1>3, BenignIs DEF Proxied
  <2> DEFINE g == Hold(c, "local", e)
  <2>2. r = Done(g)
    BY <1>3, <2>1, RingHeld
  <2>3. g.leg = c.leg /\ Added(g.held, c.held, "ring", e.body)
    BY HoldFacts, HoldAdds
  <2> HIDE DEF g, r
  <2>4. Exchange(c.leg["A"], c.leg["O"], g.held)
    BY <1>1, <1>2, <2>3, RingsHeld
  <2>5. Paired(g)
    BY <1>1, <2>1, <2>3, <2>4, LegsAre DEF Paired, Well, Ended
  <2>6. Paired(r.c)
    BY <2>2, <2>5, ResultFacts
  <2> QED BY <2>6 DEF r
<1>4. CASE ~Proxied(v, e)
  <2> DEFINE m == r.c.leg[v]
  <2>1. /\ r.c.held = c.held /\ r.c.leg[Peer(v)] = c.leg[Peer(v)]
        /\ m.st = l.st /\ m.lsdp = e.body /\ m.rsdp = l.rsdp
        /\ m.inv = l.inv /\ m.cb = l.cb /\ m.eq = l.eq
    BY <1>4, RingHeard
  <2> HIDE DEF r
  <2>2. LegWell(m) /\ m.st \notin Ended
    BY <1>1, <2>1 DEF LegWell, LegFit, Ended
  <2>3. CASE v = "A"
    <3>1. Exchange(m, c.leg["O"], c.held)
      BY <1>1, <2>1, <2>3, RingsA
    <3>2. Paired(r.c)
      BY <1>1, <2>1, <2>2, <2>3, <3>1, LegsAre, Conversing
    <3> QED BY <3>2 DEF r
  <2>4. CASE v = "O"
    <3>1. Exchange(c.leg["A"], m, c.held)
      BY <1>1, <2>1, <2>4, RingsO
    <3>2. Paired(r.c)
      BY <1>1, <2>1, <2>2, <2>4, <3>1, LegsAre, Conversing
    <3> QED BY <3>2 DEF r
  <2> QED BY <2>3, <2>4, LegsAre
<1> QED BY <1>3, <1>4

LEMMA RingingPaired ==
    ASSUME env \in Environments, Benign, CallOK(Call), Paired(Call), NEW o \in Outcomes,
           NEW u \in Legs, NEW body \in Offers, Ringing(u, body, o)
    PROVE  Paired(Call')
<1> DEFINE e == Event("Ring", body)
           s == Emit(Queue(Call, u, <<e>>), u, o)
           d == Overtakes(Call, u)
<1>1. leg[u].st = "UacUpdating" /\ Becomes(s) /\ Call.leg[u] = leg[u]
  BY CallFields DEF Ringing
<1>2. body \in Sdp /\ body # "none"
  BY BenignIs, OfferedBodies, DialogAssumption
<1>3. e \in QueueType /\ e \in EventType(EventKinds) /\ e.kind = "Ring" /\ e.body = body
  BY <1>2, BodyTypes, TypesWiden, EventFields
<1> HIDE DEF e
<1>4. leg[u].eq = <<>> /\ Call.leg[Peer(u)].st = "UasUpdating"
  BY <1>1, AskerWaits
<1>5. s = RecvEvent(d, Peer(u), e, o)
  BY <1>1, <1>3, <1>4, Speaks
<1>6. CallOK(d) /\ Paired(d) /\ d.leg = Call.leg /\ Peer(u) \in Legs
  BY OvertakesFacts, PairedOvertakes, PeerFacts
<1> HIDE DEF d
<1>7. Paired(RecvEvent(d, Peer(u), e, o).c)
  BY <1>2, <1>3, <1>4, <1>6, RingPaired
<1>8. CallOK(s.c)
  BY <1>3, EmitKept
<1> HIDE DEF s
<1> QED BY <1>1, <1>5, <1>7, <1>8, BecomesCall DEF Becomes

\* The answer passes without a stop.
LEMMA AnswersThroughA ==
    ASSUME NEW a, NEW o, NEW h \in Seq(HeldType), Exchange(a, o, h), o.st = "UacUpdating",
           NEW b, b.st = "Connected", NEW p, p.st = "Connected", b.rsdp = a.rsdp,
           b.lsdp = p.rsdp, p.lsdp = o.lsdp, p.rsdp # "none"
    PROVE  Exchange(b, p, h)
<1>1. Bod(h, OfA) = {} /\ Bod(h, OfO) = {} /\ o.lsdp = a.rsdp
  BY DEF Exchange, AsksA, AsksO
<1>2. Bod(h, {"askA"}) = {} /\ Bod(h, {"answerA"}) = {} /\ Bod(h, {"answerO"}) = {}
  BY <1>1, BodMono
<1> QED BY <1>1, <1>2 DEF Exchange, AsksA, AsksO, Described

LEMMA AnswersThroughO ==
    ASSUME NEW a, NEW o, NEW h \in Seq(HeldType), Exchange(a, o, h), a.st = "UacUpdating",
           NEW b, b.st = "Connected", NEW p, p.st = "Connected", p.rsdp = o.rsdp,
           p.lsdp = b.rsdp, b.lsdp = a.lsdp, b.rsdp # "none"
    PROVE  Exchange(b, p, h)
<1>1. Bod(h, OfA) = {} /\ Bod(h, OfO) = {} /\ a.lsdp = o.rsdp
  BY DEF Exchange, AsksA, AsksO
<1>2. Bod(h, {"askA"}) = {} /\ Bod(h, {"answerA"}) = {} /\ Bod(h, {"answerO"}) = {}
  BY <1>1, BodMono
<1> QED BY <1>1, <1>2 DEF Exchange, AsksA, AsksO, Described

LEMMA AcceptedPaired ==
    ASSUME env \in Environments, Benign, CallOK(Call), Paired(Call), NEW o \in Outcomes,
           NEW u \in Legs, NEW body \in Offers, Accepted(u, body, o)
    PROVE  Paired(Call')
<1> DEFINE l == leg[u]
           v == Peer(u)
           e == Event("Connect", body)
           k == EnterConnected(Free(l), u)
           m == [k EXCEPT !.rsdp = body]
           x == WithLeg(Call, u, m)
           y == Overtakes(x, u)
           s == Emit(Queue(x, u, <<e>>), u, o)
           g == Hold(WithLeg(Call, u, k), "remote", e)
<1>1. body \in Sdp /\ body # "none"
  BY BenignIs, OfferedBodies, DialogAssumption
<1>2. /\ l.st = "UacUpdating" /\ Call.leg[u] = l /\ Shape(Call) /\ LegOK(l)
      /\ v \in Legs /\ v # u /\ Peer(v) = u /\ Call.held \in Seq(HeldType)
  BY CallFields, CallOKFacts, PeerFacts, LegCallOK DEF Accepted
<1>3. IF Proxied(u, e) THEN o = "later" /\ u = "O" /\ env.rtpp # "no" /\ Becomes(Done(g))
      ELSE Becomes(s)
  <2>1. Proxied(u, e) => o = "later" /\ u = "O" /\ env.rtpp # "no"
    BY BenignIs DEF Proxied
  <2> QED BY <2>1 DEF Accepted, Free
<1>4. /\ e \in QueueType /\ e \in EventType(EventKinds) /\ e.kind = "Connect" /\ e.body = body
      /\ e.fresh
  BY <1>1, BodyTypes, TypesWiden, EventFields
<1>5. /\ Call.leg[v].st = "UasUpdating" /\ Call.leg[v].inv = "open" /\ l.lsdp = Call.leg[v].rsdp
      /\ l.inv # "open" /\ l.eq = <<>> /\ Call.leg[v].eq = <<>>
      /\ Exchange(Call.leg["A"], Call.leg["O"], Call.held)
  BY <1>2, AskerWaits
<1>6. /\ LegOK(k) /\ k.inv = l.inv /\ k.eq = <<>> /\ k.st = "Connected" /\ k.lsdp = l.lsdp
      /\ k.rsdp = l.rsdp
      /\ LegOK(m) /\ m.inv = l.inv /\ m.eq = <<>> /\ m.st = "Connected" /\ m.lsdp = l.lsdp
      /\ m.rsdp = body
  <2>1. body \in Sdp /\ LegOK(leg[u]) /\ leg[u].st = "UacUpdating"
    BY <1>1, <1>2
  <2>2. Relieved(k, l, l.rsdp) /\ Relieved(m, l, body)
    BY <2>1, FreeFacts
  <2> HIDE DEF k, m
  <2> QED BY <2>2 DEF Relieved
<1> HIDE DEF k, m, e
<1>7. LegWell(k) /\ LegWell(m) /\ k.st \notin Ended /\ m.st \notin Ended
  BY <1>5, <1>6 DEF LegWell, LegFit, Ended
<1>8. LegWell(Call.leg[v]) /\ Call.leg[v].st \notin Ended /\ (env.rtpp = "no" => Call.held = <<>>)
  BY <1>2, <1>5, PairedLegs DEF Ended
<1>9. CASE Proxied(u, e)
  <2> DEFINE w == WithLeg(Call, u, k)
  <2>1. CallOK(w) /\ w.leg[u] = k /\ w.leg[v] = Call.leg[v] /\ w.held = Call.held
    BY <1>2, <1>6, CallOKWithLeg, WithLegFacts
  <2> HIDE DEF w
  <2>2. g = Hold(w, "remote", e)
    BY DEF w
  <2> HIDE DEF g
  <2>3. CallOK(g) /\ g.leg = w.leg /\ Added(g.held, Call.held, "answerA", body)
    BY <1>4, <2>1, <2>2, HoldFacts, HoldAdds
  <2>4. u = "O" /\ env.rtpp # "no" /\ Becomes(Done(g))
    BY <1>3, <1>9
  <2>5. Exchange(Call.leg["A"], k, g.held)
    BY <1>1, <1>2, <1>5, <1>6, <2>3, <2>4, AnswersAHeld
  <2>6. Paired(g)
    BY <1>7, <1>8, <2>1, <2>3, <2>4, <2>5, LegsAre, Conversing
  <2> QED BY <2>3, <2>4, <2>6, BecomesCall, ResultFacts DEF Becomes
<1>10. CASE ~Proxied(u, e)
  <2>1. CallOK(x) /\ x.leg[u] = m /\ x.leg[v] = Call.leg[v] /\ x.held = Call.held
    BY <1>2, <1>6, CallOKWithLeg, WithLegFacts
  <2>2. CallOK(s.c)
    BY <1>4, <1>6, EndedSpeaks
  <2> HIDE DEF x
  <2>3. s = RecvEvent(y, v, e, o)
    BY <1>4, <1>6, <2>1, Speaks
  <2>4. /\ CallOK(y) /\ y.leg = x.leg /\ Fewer(y.held, x.held)
        /\ y.held \in Seq(HeldType) /\ (x.held = <<>> => y.held = <<>>)
    BY <2>1, OvertakesHeld
  <2>5. Becomes(s)
    BY <1>3, <1>10
  <2> HIDE DEF y, s
  <2>6. Exchange(Call.leg["A"], Call.leg["O"], y.held)
    BY <1>5, <2>1, <2>4, ExchangeFewer
  <2>7. CASE Proxied(v, e)
    <3>1. v = "O" /\ u = "A" /\ o = "later" /\ env.rtpp # "no"
      BY <1>2, <2>7, BenignIs, LegsAre DEF Proxied
    <3> DEFINE f == Hold(y, "local", e)
    <3>2. s = Done(f)
      BY <1>4, <1>5, <2>1, <2>3, <2>4, <2>7, <3>1, AnswerHeld
    <3>3. f.leg = y.leg /\ Added(f.held, y.held, "answerO", body)
      BY <1>4, <2>4, HoldFacts, HoldAdds
    <3> HIDE DEF f
    <3>4. Exchange(m, Call.leg["O"], f.held)
      <4>1. Bod(y.held, OfO) = {}
        BY <1>2, <2>6, <3>1 DEF Exchange, AsksO
      <4> QED BY <1>1, <1>2, <1>5, <1>6, <2>4, <2>6, <3>1, <3>3, <4>1, AnswersOHeld
    <3>5. Paired(f)
      BY <1>7, <1>8, <2>1, <2>4, <3>1, <3>3, <3>4, Conversing
    <3> QED BY <2>2, <2>5, <3>2, <3>5, BecomesCall, ResultFacts DEF Becomes
  <2>8. CASE ~Proxied(v, e)
    <3>1. y.leg[v].st = "UasUpdating" /\ y.leg[v].inv = "open"
      BY <1>5, <2>1, <2>4
    <3>2. Replied(s, y, v, body)
      BY <1>2, <1>4, <2>3, <2>4, <2>8, <3>1, AnswerGiven
    <3> DEFINE b == s.c.leg[v]
    <3>3. /\ s.c.held = y.held /\ s.c.leg[u] = m
          /\ b.st = "Connected" /\ b.lsdp = body /\ b.rsdp = Call.leg[v].rsdp
          /\ b.inv = "final" /\ b.eq = <<>>
      BY <1>2, <2>1, <2>4, <3>2 DEF Replied
    <3> HIDE DEF b
    <3>4. LegWell(b) /\ b.st \notin Ended
      BY <3>3 DEF LegWell, LegFit, Ended
    <3>5. CASE u = "A"
      <4>1. Exchange(m, b, y.held)
        BY <1>1, <1>2, <1>6, <2>4, <2>6, <3>3, <3>5, LegsAre, AnswersThroughO
      <4>2. Paired(s.c)
        BY <1>2, <1>7, <1>8, <2>1, <2>4, <3>3, <3>4, <3>5, <4>1, LegsAre, Conversing DEF b
      <4> QED BY <2>2, <2>5, <4>2, BecomesCall DEF Becomes
    <3>6. CASE u = "O"
      <4>1. Exchange(b, m, y.held)
        BY <1>1, <1>2, <1>6, <2>4, <2>6, <3>3, <3>6, LegsAre, AnswersThroughA
      <4>2. Paired(s.c)
        BY <1>2, <1>7, <1>8, <2>1, <2>4, <3>3, <3>4, <3>6, <4>1, LegsAre, Conversing DEF b
      <4> QED BY <2>2, <2>5, <4>2, BecomesCall DEF Becomes
    <3> QED BY <3>5, <3>6, LegsAre
  <2> QED BY <2>7, <2>8
<1> QED BY <1>9, <1>10

-----------------------------------------------------------------------------
(* The RTP proxy returns a body.                                           *)

LEMMA BodyTaken ==
    ASSUME CallOK(Call), NEW i \in DOMAIN held
    PROVE  LET c == WithHeld(Call, RemoveAt(held, i)) IN
           /\ CallOK(c) /\ c.leg = leg /\ c.held \in Seq(HeldType) /\ held \in Seq(HeldType)
           /\ Removed(c.held, held, i) /\ Fewer(c.held, held)
           /\ held # <<>> /\ held[i] \in HeldType
<1>1. held \in Seq(HeldType) /\ Shape(Call)
  BY CallOKFacts, CallFields
<1> DEFINE g == RemoveAt(held, i)
           c == WithHeld(Call, g)
<1>2. Removed(g, held, i) /\ held[i] \in HeldType
  BY <1>1, RemoveFacts
<1>3. g \in Seq(HeldType) /\ Len(held) # 0
  BY <1>1, <1>2 DEF Removed
<1> HIDE DEF g
<1>4. CallOK(c) /\ c.leg = leg /\ c.held = g
  BY <1>1, <1>3, CallOKWithHeld, WithHeldFacts, CallFields
<1>5. Fewer(g, held)
  BY <1>1, <1>2, RemovedFewer
<1> HIDE DEF c
<1>6. held # <<>>
  BY <1>1, <1>3
<1>7. /\ CallOK(c) /\ c.leg = leg /\ c.held \in Seq(HeldType) /\ held \in Seq(HeldType)
      /\ Removed(c.held, held, i) /\ Fewer(c.held, held)
      /\ held # <<>> /\ held[i] \in HeldType
  BY <1>1, <1>2, <1>3, <1>4, <1>5, <1>6
<1> QED BY <1>7 DEF c, g

\* What is taken from the proxy was the only one of its kind.
LEMMA OnlyOne ==
    ASSUME NEW h \in Seq(HeldType), NEW g, NEW i, Removed(g, h, i), HeldWell(h)
    PROVE  LET role == Role(h[i])
               b    == h[i].ev.body IN
           /\ b # "none" /\ role \in OfA \cup OfO \cup {"ring"}
           /\ role \in OfA => b \in Bod(h, OfA) /\ Bod(g, OfA) = {}
           /\ role \in OfO => b \in Bod(h, OfO) /\ Bod(g, OfO) = {}
           /\ role = "askA" => b \in Bod(h, {"askA"})
           /\ role = "answerA" => b \in Bod(h, {"answerA"})
           /\ role = "answerO" => b \in Bod(h, {"answerO"})
<1>1. i \in DOMAIN h
  BY DEF Removed
<1>2. Role(h[i]) # "other" /\ h[i].ev.body # "none" /\ Few(h, OfA) /\ Few(h, OfO)
  BY <1>1 DEF HeldWell
<1>3. Role(h[i]) \in OfA \cup OfO \cup {"ring"}
  BY <1>2 DEF Role, OfA, OfO
<1>4. /\ Role(h[i]) \in OfA => h[i].ev.body \in Bod(h, OfA) /\ Bod(g, OfA) = {}
      /\ Role(h[i]) \in OfO => h[i].ev.body \in Bod(h, OfO) /\ Bod(g, OfO) = {}
  BY <1>2, RemovedFewer
<1>5. ASSUME NEW t, Role(h[i]) = t PROVE h[i].ev.body \in Bod(h, {t})
  <2>1. Role(h[i]) \in {t}
    BY <1>5
  <2> QED BY <2>1, RemovedFewer
<1> QED BY <1>2, <1>3, <1>4, <1>5

\* A body of leg O's far end, which becomes its description.
LEMMA TakesRemote ==
    ASSUME NEW a, NEW o, NEW h \in Seq(HeldType), NEW g \in Seq(HeldType), NEW i,
           Removed(g, h, i), Exchange(a, o, h), h[i].dir = "remote",
           NEW p, p.st = o.st, p.lsdp = o.lsdp, p.rsdp = h[i].ev.body
    PROVE  /\ Exchange(a, p, g)
           /\ \/ /\ h[i].ev.kind = "Update" /\ Bod(g, OfO) = {}
                 /\ o.st = "UasUpdating" /\ a.st # "UacUpdating"
              \/ /\ h[i].ev.kind = "Connect" /\ Bod(g, OfA) = {} /\ Bod(g, {"answerO"}) = {}
                 /\ a.st = "UasUpdating" /\ o.st # "UacUpdating"
                 /\ o.st = "Connected" => a.rsdp = o.lsdp
<1> DEFINE b == h[i].ev.body
           role == Role(h[i])
<1>1. HeldWell(h) /\ AsksA(a, o, h) /\ AsksO(a, o, h) /\ Described(a) /\ Described(o)
  BY DEF Exchange
<1>2. Fewer(g, h)
  BY RemovedFewer
<1>3. Exchange(a, o, g)
  BY <1>2, ExchangeFewer
<1>4. /\ b # "none" /\ role \in OfA \cup OfO \cup {"ring"}
      /\ role \in OfA => b \in Bod(h, OfA) /\ Bod(g, OfA) = {}
      /\ role \in OfO => b \in Bod(h, OfO) /\ Bod(g, OfO) = {}
      /\ role = "answerA" => b \in Bod(h, {"answerA"})
  BY <1>1, OnlyOne
<1>5. \/ role = "askO" /\ h[i].ev.kind = "Update"
      \/ role = "answerA" /\ h[i].ev.kind = "Connect"
  BY <1>4 DEF Role, OfA, OfO
<1> HIDE DEF b, role
<1>6. CASE role = "askO" /\ h[i].ev.kind = "Update"
  <2>1. Bod(g, OfO) = {} /\ o.st = "UasUpdating" /\ a.st # "UacUpdating"
    BY <1>1, <1>4, <1>6 DEF AsksO, OfO
  <2>2. Bod(g, {"answerO"}) = {}
    BY <2>1, BodMono
  <2>3. Exchange(a, p, g)
    BY <1>3, <1>4, <2>1, <2>2 DEF Exchange, AsksA, AsksO, Described, b
  <2> QED BY <1>6, <2>1, <2>3
<1>7. CASE role = "answerA" /\ h[i].ev.kind = "Connect"
  <2>1. Bod(g, OfA) = {} /\ a.st = "UasUpdating" /\ o.st # "UacUpdating"
    BY <1>1, <1>4, <1>7 DEF AsksA, OfA
  <2>2. o.st = "Connected" => a.rsdp = o.lsdp
    BY <1>1, <1>4, <1>7 DEF AsksA
  <2>3. Bod(g, {"answerO"}) = {}
    BY <1>1, <1>2, <1>4, <1>7 DEF HeldWell, Fewer
  <2>4. Exchange(a, p, g)
    BY <1>3, <1>4, <2>1, <2>3 DEF Exchange, AsksA, AsksO, Described, b
  <2> QED BY <1>7, <2>1, <2>2, <2>3, <2>4
<1> QED BY <1>5, <1>6, <1>7

\* A body for leg O's far end.
LEMMA TakesLocal ==
    ASSUME NEW a, NEW o, NEW h \in Seq(HeldType), NEW g \in Seq(HeldType), NEW i,
           Removed(g, h, i), Exchange(a, o, h), h[i].dir = "local"
    PROVE  /\ Exchange(a, o, g) /\ h[i].ev.body # "none"
           /\ \/ /\ h[i].ev.kind = "Update" /\ h[i].ev.body = a.rsdp /\ Bod(g, OfA) = {}
                 /\ a.st = "UasUpdating" /\ o.st # "UacUpdating"
              \/ /\ h[i].ev.kind = "Connect" /\ Bod(g, OfO) = {} /\ Bod(g, {"answerA"}) = {}
                 /\ o.st = "UasUpdating" /\ a.st # "UacUpdating"
                 /\ a.st = "UasUpdating" \/ (h[i].ev.body = a.rsdp /\ a.lsdp = o.rsdp)
              \/ h[i].ev.kind = "Ring"
<1> DEFINE b == h[i].ev.body
           role == Role(h[i])
<1>1. HeldWell(h) /\ AsksA(a, o, h) /\ AsksO(a, o, h)
  BY DEF Exchange
<1>2. Fewer(g, h)
  BY RemovedFewer
<1>3. Exchange(a, o, g)
  BY <1>2, ExchangeFewer
<1>4. /\ b # "none" /\ role \in OfA \cup OfO \cup {"ring"}
      /\ role \in OfA => b \in Bod(h, OfA) /\ Bod(g, OfA) = {}
      /\ role \in OfO => b \in Bod(h, OfO) /\ Bod(g, OfO) = {}
      /\ role = "askA" => b \in Bod(h, {"askA"})
      /\ role = "answerO" => b \in Bod(h, {"answerO"})
  BY <1>1, OnlyOne
<1>5. \/ role = "askA" /\ h[i].ev.kind = "Update"
      \/ role = "answerO" /\ h[i].ev.kind = "Connect"
      \/ h[i].ev.kind = "Ring"
  BY <1>4 DEF Role, OfA, OfO
<1> HIDE DEF role
<1>6. CASE role = "askA" /\ h[i].ev.kind = "Update"
  BY <1>1, <1>3, <1>4, <1>6 DEF AsksA, OfA
<1>7. CASE role = "answerO" /\ h[i].ev.kind = "Connect"
  <2>1. Bod(g, OfO) = {} /\ o.st = "UasUpdating" /\ a.st # "UacUpdating"
    BY <1>1, <1>4, <1>7 DEF AsksO, OfO
  <2>2. a.st = "UasUpdating" \/ (b = a.rsdp /\ a.lsdp = o.rsdp)
    BY <1>1, <1>4, <1>7 DEF AsksO
  <2>3. Bod(g, {"answerA"}) = {}
    BY <1>1, <1>2, <1>4, <1>7 DEF HeldWell, Fewer
  <2> QED BY <1>3, <1>4, <1>7, <2>1, <2>2, <2>3
<1> QED BY <1>3, <1>4, <1>5, <1>6, <1>7

LEMMA RemoteSdpDonePaired ==
    ASSUME env \in Environments, Benign, CallOK(Call), Paired(Call), NEW o \in Outcomes,
           NEW i \in DOMAIN held, RemoteSdpDone(i, TRUE, o)
    PROVE  Paired(Call')
<1> DEFINE x == held[i]
           c == WithHeld(Call, RemoveAt(held, i))
           m == [leg["O"] EXCEPT !.rsdp = x.ev.body]
           d == WithLeg(c, "O", m)
           y == OvertakesBefore(d, i)
           e == [x.ev EXCEPT !.fresh = FALSE]
           s == RecvEvent(y, "A", e, o)
           a == leg["A"]
           p == leg["O"]
<1>1. x.dir = "remote" /\ (Becomes(Done(d)) \/ Becomes(s))
  BY DEF RemoteSdpDone
<1>2. "A" \in Legs /\ "O" \in Legs /\ Peer("A") = "O" /\ Peer("O") = "A" /\ Call.leg = leg
      /\ Call.held = held
  BY CallFields, LegsAre
<1>3. /\ CallOK(c) /\ c.leg = leg /\ c.held \in Seq(HeldType) /\ held \in Seq(HeldType)
      /\ Removed(c.held, held, i) /\ held # <<>> /\ x \in HeldType
  BY BodyTaken
<1>4. /\ e \in EventType(EventKinds) /\ e.kind = x.ev.kind /\ e.body = x.ev.body
      /\ e.body \in Sdp
  BY <1>3, StaleTypes
<1>5. /\ LegOK(m) /\ m.rsdp = x.ev.body /\ m.st = p.st /\ m.lsdp = p.lsdp /\ m.inv = p.inv
      /\ m.cb = p.cb /\ m.eq = p.eq
  <2>1. LegOK(leg["O"]) /\ x.ev.body \in Sdp
    BY <1>2, <1>4, LegCallOK
  <2> QED BY <2>1, RsdpFacts
<1> HIDE DEF c, x, m, e
<1>6. CallOK(d) /\ d.leg["O"] = m /\ d.leg["A"] = a /\ d.held = c.held
  <2>1. Shape(c) /\ CallOK(d)
    BY <1>2, <1>3, <1>5, CallOKWithLeg, CallOKFacts
  <2> QED BY <1>2, <1>3, <2>1, LegByName
<1> HIDE DEF d
<1>7. /\ CallOK(y) /\ y.leg = d.leg /\ y.held \in Seq(HeldType) /\ Fewer(y.held, c.held)
  <2>1. CallOK(y) /\ y.leg = d.leg /\ Delayed(y.held, d.held)
    BY <1>6, OvertakesFacts
  <2> HIDE DEF y
  <2> QED BY <1>3, <1>6, <2>1, CallOKFacts, DelayedFewer
<1>8. /\ LegWell(a) /\ LegWell(p) /\ (a.st \in Ended <=> p.st \in Ended) /\ env.rtpp # "no"
      /\ a.st \notin Ended => Exchange(a, p, held)
  BY <1>2, <1>3, PairedLegs
<1>9. LegWell(m)
  BY <1>5, <1>8 DEF LegWell, LegFit
<1>10. Paired(d)
  <2>1. CASE a.st \in Ended
    BY <1>2, <1>5, <1>6, <1>8, <1>9, <2>1, PairedEnded
  <2>2. CASE a.st \notin Ended
    <3>1. Exchange(a, m, c.held)
      BY <1>1, <1>3, <1>5, <1>8, <2>2, TakesRemote DEF x
    <3> QED BY <1>5, <1>6, <1>8, <1>9, <2>2, <3>1, Conversing
  <2> QED BY <2>1, <2>2
<1>11. Paired(y)
  BY <1>6, <1>10, PairedOvertakes
<1>12. CallOK(s.c)
  <2>1. Passed(y, s)
    BY <1>2, <1>4, <1>7, RecvEventPasses
  <2> HIDE DEF s
  <2> QED BY <2>1 DEF Passed
<1> HIDE DEF y
<1>13. Paired(s.c)
  <2>1. CASE a.st \in Ended
    <3>1. s = Done(y)
      BY <1>6, <1>7, <2>1, NotHeard
    <3> HIDE DEF s
    <3> QED BY <1>11, <3>1, ResultFacts
  <2>2. CASE a.st \notin Ended
    <3>1. /\ Exchange(a, m, c.held)
          /\ \/ /\ x.ev.kind = "Update" /\ Bod(c.held, OfO) = {}
                /\ p.st = "UasUpdating" /\ a.st # "UacUpdating"
             \/ /\ x.ev.kind = "Connect" /\ Bod(c.held, OfA) = {}
                /\ Bod(c.held, {"answerO"}) = {}
                /\ a.st = "UasUpdating" /\ p.st # "UacUpdating"
                /\ p.st = "Connected" => a.rsdp = p.lsdp
      BY <1>1, <1>3, <1>5, <1>8, <2>2, TakesRemote DEF x
    <3>2. Exchange(a, m, y.held)
      BY <1>7, <3>1, ExchangeFewer
    <3>3. m.st \notin Ended
      BY <1>5, <1>8, <2>2
    <3>4. CASE /\ x.ev.kind = "Update" /\ Bod(c.held, OfO) = {}
               /\ p.st = "UasUpdating" /\ a.st # "UacUpdating"
      <4>1. Bod(y.held, OfO) = {}
        BY <1>7, <3>4 DEF Fewer
      <4>2. Nearly(y, "O")
        BY <1>2, <1>6, <1>7, <1>8, <1>9, <2>2, <3>2, <3>3 DEF Nearly, LegWell
      <4>3. Asked(y, s, "O")
        BY <1>4, <1>5, <1>6, <1>7, <3>4, <4>1, <4>2, QuestionOfO
      <4>4. LegWell(y.leg["O"])
        BY <1>6, <1>7, <1>9
      <4>5. y.leg["O"].inv = "open" => y.leg["O"].cb
        BY <4>4 DEF LegWell
      <4>6. y.leg["O"].inv = "open"
        BY <1>5, <1>6, <1>7, <3>4, <4>4 DEF LegWell, LegFit
      <4> HIDE DEF s
      <4> QED BY <1>2, <4>3, <4>5, <4>6, NearlyPaired DEF Asked
    <3>5. CASE /\ x.ev.kind = "Connect" /\ Bod(c.held, OfA) = {}
               /\ Bod(c.held, {"answerO"}) = {}
               /\ a.st = "UasUpdating" /\ p.st # "UacUpdating"
               /\ p.st = "Connected" => a.rsdp = p.lsdp
      <4>1. Bod(y.held, OfA) = {} /\ Bod(y.held, {"answerO"}) = {}
        BY <1>7, <3>5 DEF Fewer
      <4>2. y.leg["A"] = a /\ y.leg["O"] = m /\ a.inv = "open" /\ ~Proxied("A", e)
        BY <1>6, <1>7, <1>8, <3>5 DEF LegWell, LegFit, Proxied
      <4>3. Replied(s, y, "A", e.body)
        BY <1>2, <1>4, <1>7, <3>5, <4>2, AnswerGiven
      <4> HIDE DEF s
      <4> DEFINE b == s.c.leg["A"]
      <4>4. /\ s.c.held = y.held /\ s.c.leg["O"] = m
            /\ b.st = "Connected" /\ b.lsdp = m.rsdp /\ b.rsdp = a.rsdp
            /\ b.inv = "final" /\ b.eq = <<>>
        BY <1>2, <1>4, <1>5, <4>2, <4>3 DEF Replied
      <4> HIDE DEF b
      <4>5. LegWell(b) /\ b.st \notin Ended
        BY <4>4 DEF LegWell, LegFit, Ended
      <4>6. Exchange(b, m, y.held)
        BY <1>5, <1>7, <3>2, <3>5, <4>1, <4>4, AnswersA
      <4> QED BY <1>8, <1>9, <3>3, <4>4, <4>5, <4>6, Conversing DEF b
    <3> QED BY <3>1, <3>4, <3>5
  <2> QED BY <2>1, <2>2
<1> HIDE DEF s
<1> QED BY <1>1, <1>6, <1>10, <1>12, <1>13, BecomesCall, ResultFacts DEF Becomes

LEMMA LocalSdpDonePaired ==
    ASSUME env \in Environments, Benign, CallOK(Call), Paired(Call), NEW o \in Outcomes,
           NEW i \in DOMAIN held, LocalSdpDone(i, TRUE, o)
    PROVE  Paired(Call')
<1> DEFINE x == held[i]
           c == WithHeld(Call, RemoveAt(held, i))
           e == [x.ev EXCEPT !.fresh = FALSE]
           s == RecvEvent(c, "O", e, o)
           a == leg["A"]
           p == leg["O"]
<1>1. x.dir = "local" /\ Becomes(s)
  BY DEF LocalSdpDone
<1>2. "A" \in Legs /\ "O" \in Legs /\ Peer("A") = "O" /\ Peer("O") = "A" /\ Call.leg = leg
      /\ Call.held = held
  BY CallFields, LegsAre
<1>3. /\ CallOK(c) /\ c.leg = leg /\ c.held \in Seq(HeldType) /\ held \in Seq(HeldType)
      /\ Removed(c.held, held, i) /\ Fewer(c.held, held) /\ held # <<>> /\ x \in HeldType
  BY BodyTaken
<1>4. /\ e \in EventType(EventKinds) /\ e.kind = x.ev.kind /\ e.body = x.ev.body
      /\ ~Proxied("O", e)
  BY <1>3, StaleTypes DEF Proxied
<1> HIDE DEF c, x, e
<1>5. /\ LegWell(a) /\ LegWell(p) /\ (a.st \in Ended <=> p.st \in Ended) /\ env.rtpp # "no"
      /\ a.st \notin Ended => Exchange(a, p, held)
  BY <1>2, <1>3, PairedLegs
<1>6. Paired(c)
  BY <1>2, <1>3, PairedFewer
<1>7. CallOK(s.c)
  <2>1. Passed(c, s)
    BY <1>2, <1>3, <1>4, RecvEventPasses
  <2> HIDE DEF s
  <2> QED BY <2>1 DEF Passed
<1>8. Paired(s.c)
  <2>1. ASSUME s = Done(c) PROVE Paired(s.c)
    <3> HIDE DEF s
    <3> QED BY <1>6, <2>1, ResultFacts
  <2>2. CASE p.st \in Ended
    BY <1>3, <2>1, <2>2, NotHeard
  <2>3. CASE p.st \notin Ended
    <3>1. /\ Exchange(a, p, c.held) /\ x.ev.body # "none"
          /\ \/ /\ x.ev.kind = "Update" /\ x.ev.body = a.rsdp /\ Bod(c.held, OfA) = {}
                /\ a.st = "UasUpdating" /\ p.st # "UacUpdating"
             \/ /\ x.ev.kind = "Connect" /\ Bod(c.held, OfO) = {}
                /\ Bod(c.held, {"answerA"}) = {}
                /\ p.st = "UasUpdating" /\ a.st # "UacUpdating"
                /\ a.st = "UasUpdating" \/ (x.ev.body = a.rsdp /\ a.lsdp = p.rsdp)
             \/ x.ev.kind = "Ring"
      BY <1>1, <1>3, <1>5, <2>3, TakesLocal DEF x
    <3>2. CASE /\ x.ev.kind = "Update" /\ x.ev.body = a.rsdp /\ Bod(c.held, OfA) = {}
               /\ a.st = "UasUpdating" /\ p.st # "UacUpdating"
      <4>1. Nearly(c, "A")
        BY <1>2, <1>3, <1>5, <2>3, <3>1 DEF Nearly, LegWell
      <4>2. Asked(c, s, "A")
        BY <1>3, <1>4, <3>2, <4>1, QuestionOfA
      <4>3. c.leg["A"].inv = "open" /\ c.leg["A"].cb
        BY <1>3, <1>5, <3>2 DEF LegWell, LegFit
      <4> HIDE DEF s
      <4> QED BY <1>2, <4>2, <4>3, NearlyPaired DEF Asked
    <3>3. CASE /\ x.ev.kind = "Connect" /\ Bod(c.held, OfO) = {}
               /\ Bod(c.held, {"answerA"}) = {}
               /\ p.st = "UasUpdating" /\ a.st # "UacUpdating"
               /\ a.st = "UasUpdating" \/ (x.ev.body = a.rsdp /\ a.lsdp = p.rsdp)
      <4>1. p.inv = "open"
        BY <1>5, <3>3 DEF LegWell, LegFit
      <4>2. Replied(s, c, "O", e.body)
        BY <1>2, <1>3, <1>4, <3>3, <4>1, AnswerGiven
      <4> HIDE DEF s
      <4> DEFINE b == s.c.leg["O"]
      <4>3. /\ s.c.held = c.held /\ s.c.leg["A"] = a
            /\ b.st = "Connected" /\ b.lsdp = x.ev.body /\ b.rsdp = p.rsdp
            /\ b.inv = "final" /\ b.eq = <<>>
        BY <1>2, <1>3, <1>4, <4>2 DEF Replied
      <4> HIDE DEF b
      <4>4. LegWell(b) /\ b.st \notin Ended
        BY <4>3 DEF LegWell, LegFit, Ended
      <4>5. Exchange(a, b, c.held)
        BY <1>3, <3>1, <3>3, <4>3, AnswersO
      <4> QED BY <1>5, <2>3, <4>3, <4>4, <4>5, Conversing DEF b
    <3>4. CASE x.ev.kind = "Ring"
      <4>1. CASE p.st = "UasUpdating"
        BY <1>2, <1>3, <1>4, <1>6, <3>1, <3>4, <4>1, RingPaired
      <4>2. CASE p.st # "UasUpdating"
        <5>1. p.st \in {"Connected", "UacUpdating"}
          BY <1>2, <2>3, <4>2, LegStates
        <5> QED BY <1>3, <1>4, <2>1, <3>4, <5>1, NotHeard
      <4> QED BY <4>1, <4>2
    <3> QED BY <3>1, <3>2, <3>3, <3>4
  <2> QED BY <2>2, <2>3
<1> HIDE DEF s
<1> QED BY <1>1, <1>7, <1>8, BecomesCall DEF Becomes

-----------------------------------------------------------------------------
(* The invariant.                                                          *)

LEMMA InitialCall ==
    ASSUME DialogInit
    PROVE  DialogInv
<1> DEFINE l(u) == [st |-> "Connected", lsdp |-> "x", rsdp |-> "x", inv |-> "none", cb |-> FALSE,
                    out |-> FALSE, ka |-> IF u \in env.ka THEN "timer" ELSE "off", first |-> TRUE,
                    old |-> FALSE, last |-> FALSE, refer |-> FALSE, byes |-> 0, told |-> FALSE,
                    eq |-> <<>>]
           Fresh(k) == /\ k \in LegType /\ k.st = "Connected" /\ k.lsdp = "x" /\ k.rsdp = "x"
                       /\ k.inv = "none" /\ k.eq = <<>>
<1>1. env \in Environments /\ leg = [u \in Legs |-> l(u)] /\ held = <<>>
  BY DEF DialogInit
<1>2. "x" \in Sdp /\ "x" # "none"
  BY DialogAssumption DEF Sdp
<1>3. ASSUME NEW u \in Legs PROVE Fresh(l(u))
  BY <1>2 DEF LegType
<1>4. \A u \in Legs : Fresh(leg[u])
  <2> HIDE DEF Fresh, l
  <2> QED BY <1>1, <1>3
<1>5. CallOK(Call)
  <2>1. \A u \in Legs : LegOK(leg[u])
    BY <1>4 DEF LegOK, Ended
  <2>2. leg \in [Legs -> LegType]
    <3> HIDE DEF l
    <3> QED BY <1>1, <1>4
  <2>3. held \in Seq(HeldType)
    BY <1>1
  <2> QED BY <2>1, <2>2, <2>3 DEF CallOK, CallType, Call
<1>6. Exchange(leg["A"], leg["O"], held)
  <2>1. \A T : Bod(held, T) = {} /\ Few(held, T)
    BY <1>1 DEF Bod, Few
  <2>2. HeldWell(held)
    BY <1>1, <2>1 DEF HeldWell
  <2> QED BY <1>2, <1>4, <2>1, <2>2, LegsAre DEF Exchange, AsksA, AsksO, Described
<1>7. Paired(Call)
  <2>1. LegWell(leg["A"]) /\ LegWell(leg["O"]) /\ leg["A"].st \notin Ended /\ leg["O"].st \notin Ended
    BY <1>4, LegsAre DEF LegWell, LegFit, Ended
  <2> QED BY <1>1, <1>6, <2>1, CallFields, Conversing
<1> QED BY <1>1, <1>5, <1>7 DEF DialogInv

\* The environment of a call is what it is.
LEMMA EnvKept ==
    ASSUME DialogNext
    PROVE  env' = env
<1>2. ASSUME NEW u, NEW o, NoAck(u, o) \/ LastTimer(u, o) \/ Hangup(u, o) \/ InfoArrives(u, o)
      PROVE  env' = env
  BY <1>2 DEF NoAck, LastTimer, Hangup, InfoArrives, Becomes
<1>3. ASSUME NEW u, NEW o, ReferArrives(u, o) PROVE env' = env
  BY <1>3 DEF ReferArrives, Becomes
<1>4. ASSUME NEW u, NEW o, NEW b, NEW spent, InviteArrives(u, b, spent, o) PROVE env' = env
  BY <1>4 DEF InviteArrives, Becomes
<1>5. ASSUME NEW u, NEW o, NEW b, ByeArrives(u, b, o) PROVE env' = env
  BY <1>5 DEF ByeArrives, Becomes
<1>6. ASSUME NEW u, NEW o, NEW b, Accepted(u, b, o) \/ Ringing(u, b, o) PROVE env' = env
  BY <1>6 DEF Accepted, Ringing, Becomes
<1>7. ASSUME NEW u, NEW o, NEW b, Rejected(u, b, o) \/ KeepAliveResp(u, b, o) PROVE env' = env
  BY <1>7 DEF Rejected, KeepAliveResp, Becomes
<1>8. ASSUME NEW u, Cancel(u) \/ AckOfInvite(u) \/ KeepAlive(u) \/ GoDead(u) PROVE env' = env
  BY <1>8 DEF Cancel, AckOfInvite, KeepAlive, GoDead, Becomes
<1>9. ASSUME NEW u, NEW b, ReferResponse(u, b) PROVE env' = env
  BY <1>9 DEF ReferResponse
<1>10. ASSUME NEW i, NEW b, NEW o, RemoteSdpDone(i, b, o) \/ LocalSdpDone(i, b, o) PROVE env' = env
  BY <1>10 DEF RemoteSdpDone, LocalSdpDone, Becomes
<1> QED
  BY <1>2, <1>3, <1>4, <1>5, <1>6, <1>7, <1>8, <1>9, <1>10 DEF DialogNext

LEMMA NextKept ==
    ASSUME env \in Environments, CallOK(Call), DialogNext
    PROVE  CallOK(Call')
<1>1. ASSUME NEW u \in Legs, NEW o \in Outcomes,
             \/ \E b \in Offers, spent \in {FALSE, Bad} : InviteArrives(u, b, spent, o)
             \/ \E also \in BOOLEAN : ByeArrives(u, also, o)
             \/ NoAck(u, o) \/ ReferArrives(u, o) \/ InfoArrives(u, o)
             \/ \E b \in Offers : Accepted(u, b, o) \/ Ringing(u, b, o)
             \/ \E how \in IF Bad THEN {"redirect", "refused", "timeout"} ELSE {"timeout"} :
                   Rejected(u, how, o)
             \/ \E good \in BOOLEAN : KeepAliveResp(u, good, o)
             \/ LastTimer(u, o) \/ Hangup(u, o)
      PROVE  CallOK(Call')
  <2>1. CASE \E b \in Offers, spent \in {FALSE, Bad} : InviteArrives(u, b, spent, o)
    <3>1. {FALSE, Bad} \subseteq BOOLEAN
      BY DEF Bad
    <3> QED BY <2>1, <3>1, InviteArrivesKept
  <2>2. CASE \E also \in BOOLEAN : ByeArrives(u, also, o)
    BY <2>2, ByeArrivesKept
  <2>3. CASE NoAck(u, o) \/ ReferArrives(u, o) \/ InfoArrives(u, o)
    BY <2>3, NoAckKept, ReferArrivesKept, InfoArrivesKept
  <2>4. CASE \E b \in Offers : Accepted(u, b, o) \/ Ringing(u, b, o)
    BY <2>4, AcceptedKept, RingingKept
  <2>5. CASE \E how \in IF Bad THEN {"redirect", "refused", "timeout"} ELSE {"timeout"} :
                Rejected(u, how, o)
    BY <2>5, RejectedKept
  <2>6. CASE \E good \in BOOLEAN : KeepAliveResp(u, good, o)
    BY <2>6, KeepAliveRespKept
  <2>7. CASE LastTimer(u, o) \/ Hangup(u, o)
    BY <2>7, LastTimerKept, HangupKept
  <2> QED BY <1>1, <2>1, <2>2, <2>3, <2>4, <2>5, <2>6, <2>7
<1>2. ASSUME NEW u \in Legs, Cancel(u) \/ AckOfInvite(u) \/ KeepAlive(u) \/ GoDead(u)
      PROVE  CallOK(Call')
  BY <1>2, CancelKept, AckOfInviteKept, KeepAliveKept, GoDeadKept
<1>3. ASSUME NEW u \in Legs, NEW final \in BOOLEAN, ReferResponse(u, final)
      PROVE  CallOK(Call')
  BY <1>3, ReferResponseKept
<1>4. ASSUME NEW i \in DOMAIN held, NEW o \in Outcomes, NEW ok,
             RemoteSdpDone(i, ok, o) \/ LocalSdpDone(i, ok, o)
      PROVE  CallOK(Call')
  BY <1>4, RemoteSdpDoneKept, LocalSdpDoneKept
<1> QED BY <1>1, <1>2, <1>3, <1>4 DEF DialogNext

LEMMA NextPaired ==
    ASSUME env \in Environments, CallOK(Call), Benign, Paired(Call), DialogNext
    PROVE  Paired(Call')
<1>1. ASSUME NEW u \in Legs, NEW o \in Outcomes,
             \/ \E b \in Offers, spent \in {FALSE, Bad} : InviteArrives(u, b, spent, o)
             \/ \E also \in BOOLEAN : ByeArrives(u, also, o)
             \/ NoAck(u, o) \/ ReferArrives(u, o) \/ InfoArrives(u, o)
             \/ \E b \in Offers : Accepted(u, b, o) \/ Ringing(u, b, o)
             \/ \E how \in IF Bad THEN {"redirect", "refused", "timeout"} ELSE {"timeout"} :
                   Rejected(u, how, o)
             \/ \E good \in BOOLEAN : KeepAliveResp(u, good, o)
             \/ LastTimer(u, o) \/ Hangup(u, o)
      PROVE  Paired(Call')
  <2>1. CASE \E b \in Offers, spent \in {FALSE, Bad} : InviteArrives(u, b, spent, o)
    <3>1. \E b \in Offers : InviteArrives(u, b, FALSE, o)
      <4>1. PICK b \in Offers, spent \in {FALSE, Bad} : InviteArrives(u, b, spent, o)
        BY <2>1
      <4>2. spent = FALSE
        <5>1. Bad = FALSE
          BY BenignIs DEF Bad
        <5> QED BY <5>1, Zenon
      <4>3. InviteArrives(u, b, FALSE, o)
        BY <4>1, <4>2, Zenon
      <4> QED BY <4>3
    <3> QED BY <3>1, InviteArrivesPaired
  <2>2. CASE \E also \in BOOLEAN : ByeArrives(u, also, o)
    BY <2>2, ByeArrivesPaired
  <2>3. CASE NoAck(u, o) \/ ReferArrives(u, o) \/ InfoArrives(u, o)
    BY <2>3, NoAckPaired, ReferArrivesPaired, InfoArrivesPaired
  <2>4. CASE \E b \in Offers : Accepted(u, b, o) \/ Ringing(u, b, o)
    BY <2>4, AcceptedPaired, RingingPaired
  <2>5. CASE \E how \in IF Bad THEN {"redirect", "refused", "timeout"} ELSE {"timeout"} :
                Rejected(u, how, o)
    <3>1. Rejected(u, "timeout", o)
      BY <2>5, BenignIs
    <3> QED BY <3>1, RejectedPaired
  <2>6. CASE \E good \in BOOLEAN : KeepAliveResp(u, good, o)
    BY <2>6, KeepAliveRespPaired
  <2>7. CASE LastTimer(u, o) \/ Hangup(u, o)
    BY <2>7, LastTimerPaired, HangupPaired
  <2> QED BY <1>1, <2>1, <2>2, <2>3, <2>4, <2>5, <2>6, <2>7
<1>2. ASSUME NEW u \in Legs, Cancel(u) \/ AckOfInvite(u) \/ KeepAlive(u) \/ GoDead(u)
      PROVE  Paired(Call')
  BY <1>2, CancelPaired, AckOfInvitePaired, KeepAlivePaired, GoDeadPaired
<1>3. ASSUME NEW u \in Legs, NEW final \in BOOLEAN, ReferResponse(u, final)
      PROVE  Paired(Call')
  BY <1>3, ReferResponsePaired
<1>4. ASSUME NEW i \in DOMAIN held, NEW o \in Outcomes,
             \E ok \in IF env.rtpp = "bad" THEN BOOLEAN ELSE {TRUE} :
                 RemoteSdpDone(i, ok, o) \/ LocalSdpDone(i, ok, o)
      PROVE  Paired(Call')
  <2>1. RemoteSdpDone(i, TRUE, o) \/ LocalSdpDone(i, TRUE, o)
    <3>1. env.rtpp # "bad"
      BY DEF Benign
    <3>2. \E ok \in {TRUE} : RemoteSdpDone(i, ok, o) \/ LocalSdpDone(i, ok, o)
      BY <1>4, <3>1, Zenon
    <3> QED BY <3>2, Zenon
  <2> QED BY <2>1, RemoteSdpDonePaired, LocalSdpDonePaired
<1> QED BY <1>1, <1>2, <1>3, <1>4 DEF DialogNext

\* The invariant of an established call: whatever the environment, each leg keeps its
\* own account (LegOK); where nobody refuses anything, the two legs and the bodies at
\* the RTP proxy fit together (Paired).
THEOREM DialogKeepsInv == DialogSpec => []DialogInv
<1>1. DialogInit => DialogInv
  BY InitialCall
<1>2. DialogInv /\ [DialogNext]_dialogVars => DialogInv'
  <2> SUFFICES ASSUME DialogInv, [DialogNext]_dialogVars PROVE DialogInv'
    OBVIOUS
  <2>1. env \in Environments /\ CallOK(Call) /\ (Benign => Paired(Call))
    BY DEF DialogInv
  <2>2. CASE DialogNext
    <3>1. env' = env
      BY <2>2, EnvKept
    <3>2. CallOK(Call')
      BY <2>1, <2>2, NextKept
    <3>3. Benign => Paired(Call')
      BY <2>1, <2>2, NextPaired
    <3>4. Benign' <=> Benign
      BY <3>1 DEF Benign
    <3>5. Environments' = Environments
      BY DEF Environments
    <3>6. Paired(Call)' <=> Paired(Call')
      BY <3>1 DEF Paired, Well
    <3> QED BY <2>1, <3>1, <3>2, <3>3, <3>4, <3>5, <3>6 DEF DialogInv
  <2>3. CASE UNCHANGED dialogVars
    <3>1. env' = env /\ leg' = leg /\ held' = held
      BY <2>3 DEF dialogVars
    <3>2. Call' = Call
      BY <3>1 DEF Call
    <3>3. Benign' <=> Benign
      BY <3>1 DEF Benign
    <3>4. Paired(Call)' <=> Paired(Call)
      BY <3>1, <3>2 DEF Paired, Well
    <3> QED BY <2>1, <3>1, <3>2, <3>3, <3>4 DEF DialogInv
  <2> QED BY <2>2, <2>3
<1> QED BY <1>1, <1>2, PTL DEF DialogSpec

\* A leg that is to answer a re-INVITE has one to answer and the reverse, a re-INVITE of
\* ours has the leg that asked for it, no keep alive runs beside either (UA.py,
\* UasStateUpdating.py, UacStateUpdating.py), for every set of bodies.
THEOREM DialogUpdatesPaired == DialogSpec => []UpdatesPaired
<1>1. DialogInv => UpdatesPaired
  <2> SUFFICES ASSUME DialogInv PROVE UpdatesPaired
    OBVIOUS
  <2>1. env \in Environments /\ CallOK(Call) /\ (Benign => Paired(Call))
    BY DEF DialogInv
  <2>2. DialogTypeOK
    <3>1. Call.leg \in [Legs -> LegType] /\ Call.held \in Seq(HeldType)
      BY <2>1, CallShape DEF CallOK
    <3> QED BY <2>1, <3>1, CallFields DEF DialogTypeOK
  <2>3. ReplyTaken
    <3>1. ASSUME Benign, NEW u \in Legs PROVE (leg[u].st = "UasUpdating") = (leg[u].inv = "open")
      BY <2>1, <3>1, PairedLegs, CallFields DEF LegWell, LegFit
    <3> QED BY <3>1 DEF ReplyTaken
  <2>4. OfferHasAsker
    <3>1. ASSUME Benign, NEW u \in Legs, leg[u].st = "UacUpdating"
          PROVE  leg[Peer(u)].st = "UasUpdating"
      BY <2>1, <3>1, AskerWaits, CallFields
    <3> QED BY <3>1 DEF OfferHasAsker
  <2>5. KeepAliveAlone
    BY <2>1, LegCallOK DEF KeepAliveAlone, LegOK
  <2> QED BY <2>2, <2>3, <2>4, <2>5 DEF UpdatesPaired
<1> QED BY <1>1, DialogKeepsInv, PTL

\* The call ends on both legs or on neither, and the far end of a leg that has ended
\* has said so or is told so.
THEOREM DialogEndHeard == DialogSpec => []EndHeard
<1>1. DialogInv => EndHeard
  <2> SUFFICES ASSUME DialogInv PROVE EndHeard
    OBVIOUS
  <2>1. env \in Environments /\ CallOK(Call) /\ (Benign => Paired(Call))
    BY DEF DialogInv
  <2>2. EndTogether
    <3>1. ASSUME Benign PROVE (leg["A"].st \in Ended) <=> (leg["O"].st \in Ended)
      BY <2>1, <3>1, PairedLegs, LegsAre, CallFields
    <3> QED BY <3>1 DEF EndTogether
  <2>3. FarEndKnows
    BY <2>1, LegCallOK DEF FarEndKnows, LegOK
  <2> QED BY <2>2, <2>3 DEF EndHeard
<1> QED BY <1>1, DialogKeepsInv, PTL

\* When nothing is under way each far end has the description that the other has sent
\* last, whatever updates, answers and refusals by silence have crossed.
THEOREM DialogSdpAgree == DialogSpec => []SdpAgree
<1>1. DialogInv => SdpAgree
  <2> SUFFICES ASSUME DialogInv, Benign, held = <<>>, \A u \in Legs : leg[u].st = "Connected",
                      NEW u \in Legs
               PROVE  leg[u].rsdp = leg[Peer(u)].lsdp
    BY DEF SdpAgree
  <2>1. leg["A"].st = "Connected" /\ leg["O"].st = "Connected"
    BY LegsAre
  <2>2. Exchange(leg["A"], leg["O"], held)
    BY <2>1, PairedLegs, LegsAre, CallFields DEF DialogInv, Ended
  <2> QED BY <2>1, <2>2, LegsAre DEF Exchange
<1> QED BY <1>1, DialogKeepsInv, PTL

-----------------------------------------------------------------------------
(* Server transactions.                                                    *)

\* What the place of a transaction in tserver says about the rest of it.
Placed(i) ==
    /\ i > created => /\ state[i] = "idle" /\ key[i] = "none" /\ data[i] = "none"
                      /\ told[i] = {} /\ ~cbs[i] /\ ~waiting[i]
    /\ key[i] = "none" => armed[i] = {}
    /\ key[i] = "branch" => state[i] \in {"TRYING", "RINGING"} /\ armed[i] \subseteq {"E", "F"}
    /\ key[i] = "totag" => /\ state[i] \in {"COMPLETED", "CONFIRMED"}
                           /\ armed[i] \subseteq {"A", "D"} /\ data[i] # "none"
    /\ "A" \in armed[i] => "D" \in armed[i]
    /\ state[i] = "CONFIRMED" => armed[i] = {}

\* What the UA has been told constrains what can still happen.
Story(i) ==
    /\ "ack" \in told[i] => key[i] = "none"
    /\ "noack" \in told[i] => key[i] # "branch" /\ "D" \notin armed[i]
    /\ "cancel" \in told[i] => key[i] # "branch"

\* A transaction that is neither open nor answered was a silent one; only the
\* last transaction can be found by the branch.
Superseded ==
    /\ \A i \in Tx : i <= created /\ method = "INVITE" /\ data[i] = "none" => key[i] = "branch"
    /\ \A i \in Tx : i < created => key[i] # "branch"

\* An answer is in the generation of the cache that its age calls for.
AnswerCached ==
    (\E i \in Tx : data[i] # "none") =>
       /\ age = 0 => l1rcache["request"] # "absent"
       /\ age = 1 => Lookup("request") # "absent"

Placement == \A i \in Tx : Placed(i)
Stories   == \A i \in Tx : Story(i)

IInv == /\ TypeOK /\ Placement /\ Stories /\ ConsistentOutcome
        /\ Superseded /\ AnswerCached /\ OneTransaction

\* Without exceptions out of the UA, an answer is owed only where it can be
\* given and only by a UA that has its callbacks installed.
Owed == \A i \in Tx : waiting[i] => key[i] = "branch" /\ cbs[i]

-----------------------------------------------------------------------------

USE DEF Tx, Finals, Reply

LEMMA InitIInv == Init => IInv /\ Owed
<1> SUFFICES ASSUME Init PROVE IInv /\ Owed
  OBVIOUS
<1>1. TypeOK
  <2>1. cbs \in [Tx -> BOOLEAN] /\ waiting \in [Tx -> BOOLEAN] /\ bug \in BOOLEAN
        /\ raised \in BOOLEAN
    BY Zenon DEF Init
  <2>2. created \in 0 .. MaxTx
    BY ServerAssumption DEF Init
  <2> QED BY <2>1, <2>2 DEF Init, TypeOK, States, Datagram, Cached
<1>2. Placement /\ Stories /\ ConsistentOutcome /\ Superseded /\ OneTransaction
  BY ServerAssumption DEF Init, Placement, Placed, Stories, Story, ConsistentOutcome,
     Superseded, OneTransaction
<1>3. AnswerCached /\ Owed
  BY DEF Init, AnswerCached, Owed
<1> QED BY <1>1, <1>2, <1>3 DEF IInv

\* What sendResponse() assigns has the right types.
LEMMA ResponseType ==
    ASSUME TypeOK, NEW i \in Tx, NEW r \in Reply, sendResponse(i, r)
    PROVE  /\ state' \in [Tx -> States]
           /\ key' \in [Tx -> {"none", "branch", "totag"}]
           /\ data' \in [Tx -> Reply \cup {"none"}]
           /\ armed' \in [Tx -> SUBSET {"A", "D", "E", "F"}]
<1> USE DEF TypeOK, sendResponse, States
<1>1. state' \in [Tx -> States]
  OBVIOUS
<1>2. key' \in [Tx -> {"none", "branch", "totag"}]
  BY DEF FinalKey
<1>3. data' \in [Tx -> Reply \cup {"none"}]
  OBVIOUS
<1>4. TimersAfter(i, r) \in SUBSET {"A", "D", "E", "F"}
  BY DEF TimersAfter, StoppedByFinal
<1>5. armed' \in [Tx -> SUBSET {"A", "D", "E", "F"}]
  BY <1>4
<1> QED BY <1>1, <1>2, <1>3, <1>5

\* A step leaves every variable in its type.
LEMMA TypeStep == TypeOK /\ [Next]_vars => TypeOK'
<1> SUFFICES ASSUME TypeOK, [Next]_vars PROVE TypeOK'
  OBVIOUS
<1> USE ServerAssumption DEF TypeOK, States, Datagram, Cached
<1>1. ASSUME NEW d \in Datagram PROVE Lookup(d) \in Cached
  BY <1>1 DEF Lookup
<1>2. ASSUME NEW i \in Tx, doCancel(i)
      PROVE  /\ state' \in [Tx -> States] /\ key' \in [Tx -> {"none", "branch", "totag"}]
             /\ data' \in [Tx -> Reply \cup {"none"}]
             /\ armed' \in [Tx -> SUBSET {"A", "D", "E", "F"}]
             /\ cbs' \in [Tx -> BOOLEAN] /\ waiting' \in [Tx -> BOOLEAN]
             /\ told' \in [Tx -> SUBSET {"cancel", "ack", "noack"}]
  <2>1. waiting' \in [Tx -> BOOLEAN]
    BY <1>2, Zenon DEF doCancel, TellsCancelled
  <2>2. told' \in [Tx -> SUBSET {"cancel", "ack", "noack"}]
    BY <1>2 DEF doCancel, TellsCancelled
  <2> QED BY <1>2, <2>1, <2>2, ResponseType DEF doCancel
<1>3. CASE RequestArrives
  <2> USE <1>3 DEF RequestArrives
  <2>1. CASE Repeated("request")
    BY <2>1, <1>1 DEF Repeated, tx
  <2>2. ASSUME NEW i \in Tx, Duplicate(i) PROVE TypeOK'
    BY <2>2 DEF Duplicate, Answered, tx
  <2>3. ASSUME NEW i \in Tx, NewAndWaits(i) PROVE TypeOK'
    <3> USE <2>3 DEF NewAndWaits
    <3>1. state' \in [Tx -> States] /\ data' \in [Tx -> Reply \cup {"none"}]
      OBVIOUS
    <3>2. key' \in [Tx -> {"none", "branch", "totag"}]
      OBVIOUS
    <3>3. armed' \in [Tx -> SUBSET {"A", "D", "E", "F"}]
      BY DEF RequestTimers
    <3>4. cbs' \in [Tx -> BOOLEAN] /\ waiting' \in [Tx -> BOOLEAN] /\ raised' \in BOOLEAN
      BY Zenon
    <3>5. created' \in 0 .. MaxTx /\ bornAge' \in [Tx -> 0 .. 2]
      BY DEF Opens
    <3> QED BY <3>1, <3>2, <3>3, <3>4, <3>5 DEF Opens, Answered
  <2>4. ASSUME NEW i \in Tx, NEW r \in {"2xx", "fail"}, NewAndAnswers(i, r) PROVE TypeOK'
    <3>1. cbs' \in [Tx -> BOOLEAN]
      BY <2>4, Zenon DEF NewAndAnswers
    <3>2. created' \in 0 .. MaxTx /\ bornAge' \in [Tx -> 0 .. 2]
      BY <2>4 DEF NewAndAnswers, Opens
    <3>3. l1rcache' \in [Datagram -> Cached] /\ snd' \in Cached
      BY <2>4 DEF NewAndAnswers, Answered
    <3>4. sendResponse(i, r) /\ UNCHANGED <<told, bug, raised, waiting>>
      BY <2>4 DEF NewAndAnswers, Opens
    <3>5. /\ state' \in [Tx -> States] /\ key' \in [Tx -> {"none", "branch", "totag"}]
          /\ data' \in [Tx -> Reply \cup {"none"}]
          /\ armed' \in [Tx -> SUBSET {"A", "D", "E", "F"}]
      BY <3>4, ResponseType
    <3> QED BY <3>1, <3>2, <3>3, <3>4, <3>5
  <2>5. ASSUME NEW i \in Tx, NewAndSilent(i) PROVE TypeOK'
    <3>1. raised' \in BOOLEAN
      BY <2>5, Zenon DEF NewAndSilent
    <3> QED BY <2>5, <3>1 DEF NewAndSilent, Opens, RequestTimers
  <2> QED BY <2>1, <2>2, <2>3, <2>4, <2>5
<1>4. CASE CancelArrives
  <2> USE <1>4 DEF CancelArrives
  <2>1. CASE Repeated("cancel")
    BY <2>1, <1>1 DEF Repeated, tx
  <2>2. ASSUME NEW i \in Tx, Answerable(i), doCancel(i), snd' = "200",
               l1rcache' = [l1rcache EXCEPT !["cancel"] = "200", !["request"] = "487"],
               UNCHANGED <<created, bornAge, bug, raised>>
        PROVE TypeOK'
    BY <1>2, <2>2
  <2>3. CASE UNCHANGED tx /\ snd' \in {"200", "481"} /\ UNCHANGED <<created, bornAge, bug, raised>>
             /\ l1rcache' \in [Datagram -> Cached]
    BY <2>3 DEF tx
  <2> QED BY <2>1, <2>2, <2>3 DEF Answered
<1>5. CASE rCachePurge
  BY <1>5 DEF rCachePurge, OldGeneration, tx
<1>6. ASSUME NEW i \in Tx, AckArrives(i) PROVE TypeOK'
  <2> USE <1>6 DEF AckArrives
  <2>1. state' \in [Tx -> States] /\ key' \in [Tx -> {"none", "branch", "totag"}]
    OBVIOUS
  <2>2. armed' \in [Tx -> SUBSET {"A", "D", "E", "F"}]
    BY DEF StoppedByAck
  <2>3. told' \in [Tx -> SUBSET {"cancel", "ack", "noack"}]
    OBVIOUS
  <2> QED BY <2>1, <2>2, <2>3 DEF rc
<1>7. ASSUME NEW i \in Tx, NEW r \in {"1xx", "2xx", "fail"}, UaResponds(i, r) PROVE TypeOK'
  <2>1. CASE Answerable(i)
    <3>1. waiting' \in [Tx -> BOOLEAN]
      BY <1>7, <2>1, Zenon DEF UaResponds
    <3>2. l1rcache' \in [Datagram -> Cached] /\ snd' \in Cached
      BY <1>7, <2>1 DEF UaResponds, Answered
    <3>3. sendResponse(i, r)
      BY <1>7, <2>1 DEF UaResponds
    <3>4. /\ state' \in [Tx -> States] /\ key' \in [Tx -> {"none", "branch", "totag"}]
          /\ data' \in [Tx -> Reply \cup {"none"}]
          /\ armed' \in [Tx -> SUBSET {"A", "D", "E", "F"}]
      BY <3>3, ResponseType
    <3> QED BY <1>7, <2>1, <3>1, <3>2, <3>4 DEF UaResponds
  <2>2. CASE ~Answerable(i)
    BY <1>7, <2>2 DEF UaResponds
  <2> QED BY <2>1, <2>2
<1>8. ASSUME NEW i \in Tx, timerA(i) \/ timerF(i) PROVE TypeOK'
  BY <1>8 DEF timerA, timerF, tx, rc
<1>9. ASSUME NEW i \in Tx, timerD(i) PROVE TypeOK'
  BY <1>9 DEF timerD, rc
<1>10. ASSUME NEW i \in Tx, timerE(i) PROVE TypeOK'
  <2>1. CASE state[i] \in {"TRYING", "RINGING"}
    BY <1>10, <2>1, <1>2 DEF timerE, Answered
  <2>2. CASE state[i] \notin {"TRYING", "RINGING"}
    BY <1>10, <2>2 DEF timerE
  <2> QED BY <2>1, <2>2
<1>11. CASE UNCHANGED vars
  BY <1>11 DEF vars, tx, rc
<1> HIDE DEF TypeOK, States, Datagram, Cached
<1> QED BY <1>3, <1>4, <1>5, <1>6, <1>7, <1>8, <1>9, <1>10, <1>11 DEF Next

\* What sendResponse() does to an open transaction, and to it alone.
LEMMA ResponseEffect ==
    ASSUME TypeOK, NEW i \in Tx, NEW r \in Reply, sendResponse(i, r),
           armed[i] \subseteq {"E", "F"}
    PROVE  /\ \A j \in Tx \ {i} : /\ state'[j] = state[j] /\ key'[j] = key[j]
                                  /\ data'[j] = data[j] /\ armed'[j] = armed[j]
           /\ data'[i] = r
           /\ r \notin Finals => /\ state'[i] = "RINGING" /\ key'[i] = key[i]
                                 /\ armed'[i] \subseteq {"E", "F"}
           /\ r \in Finals =>
                 /\ state'[i] = "COMPLETED"
                 /\ \/ key'[i] = "totag" /\ armed'[i] = {"A", "D"}
                    \/ key'[i] = "none" /\ armed'[i] = {} /\ method # "INVITE"
<1> USE DEF TypeOK, sendResponse
<1>1. \A j \in Tx \ {i} : /\ state'[j] = state[j] /\ key'[j] = key[j]
                          /\ data'[j] = data[j] /\ armed'[j] = armed[j]
  OBVIOUS
<1>2. data'[i] = r
  OBVIOUS
<1>3. ASSUME r \notin Finals
      PROVE  state'[i] = "RINGING" /\ key'[i] = key[i] /\ armed'[i] \subseteq {"E", "F"}
  <2>1. TimersAfter(i, r) \subseteq {"E", "F"}
    BY <1>3 DEF TimersAfter
  <2> QED BY <1>3, <2>1
<1>4. ASSUME r \in Finals
      PROVE  /\ state'[i] = "COMPLETED"
             /\ \/ key'[i] = "totag" /\ armed'[i] = {"A", "D"}
                \/ key'[i] = "none" /\ armed'[i] = {} /\ method # "INVITE"
  <2>1. armed[i] \ StoppedByFinal = {}
    BY DEF StoppedByFinal
  <2>2. TimersAfter(i, r) = IF method = "INVITE" THEN {"A", "D"} ELSE {}
    BY <1>4, <2>1 DEF TimersAfter
  <2>3. armed'[i] = TimersAfter(i, r) /\ key'[i] = FinalKey /\ state'[i] = "COMPLETED"
    BY <1>4
  <2> QED BY <2>2, <2>3 DEF FinalKey
<1> QED BY <1>1, <1>2, <1>3, <1>4

\* A step moves a transaction, its timers and its callbacks together, and what
\* the UA is told fits what happened.
LEMMA PlacementStep ==
    ASSUME IInv, [Next]_vars
    PROVE  Placement' /\ Stories' /\ ConsistentOutcome'
<1> USE ServerAssumption DEF IInv, Placement, Placed, Stories, Story, ConsistentOutcome
<1> DEFINE Goal == Placement /\ Stories /\ ConsistentOutcome
<1>a. TypeOK
  OBVIOUS
<1>b. ASSUME UNCHANGED <<tx, created>> PROVE Goal'
  BY <1>b DEF tx
<1>c. ASSUME NEW i \in Tx, doCancel(i), UNCHANGED created, key[i] = "branch" PROVE Goal'
  <2>1. sendResponse(i, "487") /\ armed[i] \subseteq {"E", "F"}
    BY <1>c DEF doCancel
  <2>2. /\ \A j \in Tx \ {i} : told'[j] = told[j] /\ waiting'[j] = waiting[j]
        /\ told'[i] \in {told[i], told[i] \cup {"cancel"}} /\ cbs' = cbs
    BY <1>c, <1>a DEF doCancel, TellsCancelled, TypeOK
  <2>3. i <= created
    BY <1>c, <1>a DEF TypeOK
  <2> QED BY <2>1, <2>2, <2>3, <1>a, <1>c, ResponseEffect
<1>3. CASE RequestArrives
  <2> USE <1>3 DEF RequestArrives
  <2>1. CASE Repeated("request")
    BY <2>1, <1>b DEF Repeated
  <2>2. ASSUME NEW i \in Tx, Duplicate(i) PROVE Goal'
    BY <2>2, <1>b DEF Duplicate
  <2>3. ASSUME NEW i \in Tx, NewAndWaits(i) PROVE Goal'
    BY <2>3 DEF NewAndWaits, Opens, RequestTimers, TypeOK
  <2>4. ASSUME NEW i \in Tx, NEW r \in {"2xx", "fail"}, NewAndAnswers(i, r) PROVE Goal'
    <3>1. sendResponse(i, r) /\ armed[i] = {} /\ UNCHANGED <<told, waiting>> /\ i > created
      BY <2>4, <1>a DEF NewAndAnswers, Opens, TypeOK
    <3>2. \A j \in Tx \ {i} : cbs'[j] = cbs[j]
      BY <2>4, <1>a DEF NewAndAnswers, TypeOK
    <3>3. created' = i /\ created = i - 1
      BY <2>4, <1>a DEF NewAndAnswers, Opens, TypeOK
    <3> QED BY <3>1, <3>2, <3>3, <1>a, ResponseEffect
  <2>5. ASSUME NEW i \in Tx, NewAndSilent(i) PROVE Goal'
    BY <2>5 DEF NewAndSilent, Opens, RequestTimers, TypeOK
  <2> QED BY <2>1, <2>2, <2>3, <2>4, <2>5
<1>4. CASE CancelArrives
  <2> USE <1>4 DEF CancelArrives
  <2>1. CASE Repeated("cancel")
    BY <2>1, <1>b DEF Repeated
  <2>2. ASSUME NEW i \in Tx, Answerable(i), doCancel(i), UNCHANGED created PROVE Goal'
    BY <2>2, <1>c DEF Answerable
  <2>3. CASE UNCHANGED <<tx, created>>
    BY <2>3, <1>b
  <2> QED BY <2>1, <2>2, <2>3
<1>5. CASE rCachePurge
  BY <1>5, <1>b DEF rCachePurge
<1>6. ASSUME NEW i \in Tx, AckArrives(i) PROVE Goal'
  <2>1. /\ \A j \in Tx \ {i} : /\ state'[j] = state[j] /\ key'[j] = key[j]
                               /\ told'[j] = told[j] /\ armed'[j] = armed[j]
        /\ UNCHANGED <<data, cbs, waiting, created>> /\ state'[i] = "CONFIRMED"
    BY <1>6, <1>a DEF AckArrives, TypeOK
  <2>2. key[i] = "totag" /\ state[i] = "COMPLETED" /\ i <= created /\ armed[i] \subseteq {"A", "D"}
    BY <1>6, <1>a DEF AckArrives, TypeOK
  <2>3. CASE "D" \in armed[i]
    <3>1. key'[i] = "none" /\ armed'[i] = {}
      BY <1>6, <1>a, <2>2, <2>3 DEF AckArrives, StoppedByAck, TypeOK
    <3>2. told'[i] = told[i] \/ (told'[i] = told[i] \cup {"ack"} /\ data[i] = "2xx")
      BY <1>6, <1>a, <2>3 DEF AckArrives, TypeOK
    <3> QED BY <2>1, <2>2, <2>3, <3>1, <3>2
  <2>4. CASE "D" \notin armed[i]
    <3>1. UNCHANGED <<armed, key, told>> /\ armed[i] = {}
      BY <1>6, <2>2, <2>4 DEF AckArrives
    <3> QED BY <2>1, <2>2, <2>4, <3>1
  <2> QED BY <2>3, <2>4
<1>7. ASSUME NEW i \in Tx, NEW r \in {"1xx", "2xx", "fail"}, UaResponds(i, r) PROVE Goal'
  <2>1. CASE Answerable(i)
    <3>1. sendResponse(i, r) /\ UNCHANGED <<told, cbs, created>>
      BY <1>7, <2>1 DEF UaResponds
    <3>2. key[i] = "branch" /\ armed[i] \subseteq {"E", "F"} /\ i <= created
      BY <2>1, <1>a DEF Answerable, TypeOK
    <3>3. \A j \in Tx \ {i} : waiting'[j] = waiting[j]
      BY <1>7, <2>1, <1>a DEF UaResponds, TypeOK
    <3> QED BY <3>1, <3>2, <3>3, <1>a, ResponseEffect
  <2>2. CASE ~Answerable(i)
    BY <1>7, <2>2, <1>b DEF UaResponds, tx
  <2> QED BY <2>1, <2>2
<1>8. ASSUME NEW i \in Tx, timerA(i) PROVE Goal'
  BY <1>8, <1>b DEF timerA
<1>9. ASSUME NEW i \in Tx, timerF(i) PROVE Goal'
  BY <1>9 DEF timerF, TypeOK
<1>10. ASSUME NEW i \in Tx, timerD(i) PROVE Goal'
  <2>1. /\ \A j \in Tx \ {i} : /\ key'[j] = key[j] /\ told'[j] = told[j]
                               /\ armed'[j] = armed[j]
        /\ UNCHANGED <<state, data, cbs, waiting, created>>
    BY <1>10, <1>a DEF timerD, TypeOK
  <2>2. "D" \in armed[i]
    BY <1>10 DEF timerD
  <2>a. key[i] \in {"none", "branch", "totag"} /\ created \in Nat /\ i \in Nat
    BY <1>a DEF TypeOK
  <2>b. key[i] # "none" /\ key[i] # "branch"
    BY <2>2
  <2>3. key[i] = "totag" /\ i <= created
    BY <2>a, <2>b
  <2>4. armed'[i] = {} /\ key'[i] \in {"none", "totag"}
    BY <1>10, <1>a, <2>3 DEF timerD, TypeOK
  <2>5. told'[i] \in {told[i], told[i] \cup {"noack"}}
    BY <1>10, <1>a DEF timerD, TypeOK
  <2> QED BY <2>1, <2>2, <2>3, <2>4, <2>5
<1>11. ASSUME NEW i \in Tx, timerE(i) PROVE Goal'
  <2>1. "E" \in armed[i]
    BY <1>11 DEF timerE
  <2>a. key[i] \in {"none", "branch", "totag"}
    BY <1>a DEF TypeOK
  <2>b. key[i] # "none" /\ key[i] # "totag"
    BY <2>1
  <2>2. state[i] \in {"TRYING", "RINGING"} /\ key[i] = "branch"
    BY <2>a, <2>b
  <2> QED BY <1>11, <2>2, <1>c DEF timerE
<1>12. CASE UNCHANGED vars
  BY <1>12, <1>b DEF vars
<1> QED BY <1>3, <1>4, <1>5, <1>6, <1>7, <1>8, <1>9, <1>10, <1>11, <1>12 DEF Next

\* An answer is cached when it is given and found until it is two purges old,
\* so only a request that was never answered opens a second transaction early.
LEMMA CacheStep ==
    ASSUME IInv, [Next]_vars
    PROVE  Superseded' /\ AnswerCached' /\ OneTransaction'
<1> DEFINE Goal == Superseded /\ AnswerCached /\ OneTransaction
<1> USE ServerAssumption
<1>a. TypeOK /\ Placement /\ Superseded /\ AnswerCached /\ OneTransaction
  BY DEF IInv
<1>t. \A j \in Tx : /\ key[j] \in {"none", "branch", "totag"} /\ data[j] \in Reply \cup {"none"}
                    /\ bornAge[j] \in 0 .. 2
  BY <1>a DEF TypeOK
<1>b. ASSUME UNCHANGED <<method, created, key, data, bornAge, age>>,
             /\ l1rcache["request"] # "absent" => l1rcache'["request"] # "absent"
             /\ l2rcache' = l2rcache
      PROVE  Goal'
  BY <1>a, <1>b DEF Superseded, AnswerCached, OneTransaction, Lookup
\* A response to an open transaction i.
<1>c. ASSUME NEW i \in Tx, key[i] = "branch", NEW r \in Reply, sendResponse(i, r),
             UNCHANGED <<method, created, bornAge, age, l2rcache>>,
             l1rcache'["request"] = r
      PROVE  Goal'
  <2>1. armed[i] \subseteq {"E", "F"} /\ i <= created
    BY <1>a, <1>c DEF Placement, Placed, TypeOK
  <2>2. /\ \A j \in Tx \ {i} : key'[j] = key[j] /\ data'[j] = data[j]
        /\ data'[i] = r /\ key'[i] \in {"branch", "totag", "none"}
    BY <1>a, <1>c, <2>1, ResponseEffect
  <2>3. i = created
    BY <1>a, <1>c, <2>1 DEF Superseded, TypeOK
  <2>4. Superseded'
    BY <1>a, <1>c, <2>2, <2>3 DEF Superseded
  <2>5. AnswerCached'
    BY <1>c DEF AnswerCached, Lookup
  <2>6. OneTransaction'
    BY <1>a, <1>c, <2>2, <2>3 DEF OneTransaction, TypeOK
  <2> QED BY <2>4, <2>5, <2>6
\* Transaction i opens: what Opens() says about the earlier ones.
<1>d. ASSUME NEW i \in Tx, Opens(i)
      PROVE  /\ created' = i /\ i = created + 1 /\ created \in Nat
             /\ \A j \in Tx : key[j] # "branch"
             /\ bornAge'[i] = age
             /\ \A j \in Tx \ {i} : bornAge'[j] = bornAge[j]
             /\ age < 2 => \A j \in Tx : data[j] = "none"
             /\ created >= 1 /\ age < 2 => method # "INVITE"
  <2>1. /\ created' = i /\ i = created + 1 /\ created \in Nat
        /\ \A j \in Tx : key[j] # "branch"
        /\ bornAge'[i] = age /\ age \in 0 .. 2
        /\ \A j \in Tx \ {i} : bornAge'[j] = bornAge[j]
    BY <1>a, <1>d DEF Opens, TypeOK
  <2>2. age < 2 => \A j \in Tx : data[j] = "none"
    BY <1>a, <1>d, <2>1 DEF Opens, AnswerCached, Lookup
  <2>3. created >= 1 => created \in Tx
    BY <2>1
  <2>4. created >= 1 /\ age < 2 => method # "INVITE"
    BY <1>a, <2>1, <2>2, <2>3 DEF Superseded
  <2> QED BY <2>1, <2>2, <2>4
<1>3. CASE RequestArrives
  <2>0. UNCHANGED <<method, l2rcache, age>>
    BY <1>3 DEF RequestArrives
  <2>1. CASE Repeated("request")
    BY <2>0, <2>1, <1>b DEF Repeated, tx
  <2>2. ASSUME NEW i \in Tx, Duplicate(i) PROVE Goal'
    <3>1. UNCHANGED <<created, key, data, bornAge>>
      BY <2>2 DEF Duplicate, tx
    <3>2. l1rcache["request"] = "absent"
      BY <2>2 DEF Duplicate, Lookup
    <3> QED BY <2>0, <3>1, <3>2, <1>b
  <2>3. ASSUME NEW i \in Tx, Opens(i), NEW r \in Reply, data' = [data EXCEPT ![i] = r],
               key'[i] \in {"branch", "totag", "none"}, \A j \in Tx \ {i} : key'[j] = key[j],
               l1rcache'["request"] = r
        PROVE  Goal'
    <3>1. data'[i] = r /\ \A j \in Tx \ {i} : data'[j] = data[j]
      BY <2>3, <1>a DEF TypeOK
    <3>2. Superseded'
      BY <1>a, <2>0, <2>3, <1>d, <3>1 DEF Superseded
    <3>3. AnswerCached'
      BY <2>3 DEF AnswerCached, Lookup
    <3>4. OneTransaction'
      <4> SUFFICES ASSUME NEW k \in Tx, k \in 2 .. created', bornAge'[k] < 2
                   PROVE  method = "other" /\ \A j \in Tx : j < k => data'[j] = "none"
        BY <2>0 DEF OneTransaction
      <4>1. method \in {"INVITE", "other"}
        BY <1>a DEF TypeOK
      <4>2. CASE k = i
        BY <2>3, <1>d, <3>1, <4>1, <4>2
      <4>3. CASE k # i
        <5>1. k \in 2 .. created /\ bornAge[k] < 2 /\ k < i
          BY <2>3, <1>d, <4>3
        <5> QED BY <1>a, <3>1, <5>1 DEF OneTransaction
      <4> QED BY <4>2, <4>3
    <3> QED BY <3>2, <3>3, <3>4
  <2>4. ASSUME NEW i \in Tx, NewAndWaits(i) PROVE Goal'
    <3>1. /\ Opens(i) /\ data' = [data EXCEPT ![i] = "100"] /\ key'[i] = "branch"
          /\ \A j \in Tx \ {i} : key'[j] = key[j]
          /\ l1rcache'["request"] = "100"
      BY <2>4, <1>a DEF NewAndWaits, Answered, TypeOK, Datagram
    <3> QED BY <3>1, <2>3
  <2>5. ASSUME NEW i \in Tx, NEW r \in {"2xx", "fail"}, NewAndAnswers(i, r) PROVE Goal'
    <3>1. Opens(i) /\ l1rcache'["request"] = r /\ sendResponse(i, r)
      BY <2>5, <1>a DEF NewAndAnswers, Answered, TypeOK, Datagram
    <3>2. /\ data' = [data EXCEPT ![i] = r] /\ key'[i] \in {"branch", "totag", "none"}
          /\ \A j \in Tx \ {i} : key'[j] = key[j]
      BY <1>a, <3>1 DEF sendResponse, FinalKey, TypeOK
    <3> QED BY <3>1, <3>2, <2>3
  <2>6. ASSUME NEW i \in Tx, NewAndSilent(i) PROVE Goal'
    <3>1. Opens(i) /\ UNCHANGED <<data, l1rcache>>
      BY <2>6 DEF NewAndSilent
    <3>2. /\ \A j \in Tx \ {i} : key'[j] = key[j]
          /\ method = "INVITE" => key'[i] = "branch"
      BY <2>6, <1>a DEF NewAndSilent, RequestTimers, TypeOK
    <3>3. Superseded'
      BY <1>a, <2>0, <1>d, <3>1, <3>2 DEF Superseded, Placement, Placed
    <3>4. AnswerCached'
      BY <1>a, <2>0, <3>1 DEF AnswerCached, Lookup
    <3>5. OneTransaction'
      BY <1>a, <1>t, <2>0, <1>d, <3>1 DEF OneTransaction, TypeOK
    <3> QED BY <3>3, <3>4, <3>5
  <2> QED BY <1>3, <2>1, <2>2, <2>4, <2>5, <2>6 DEF RequestArrives
<1>4. CASE CancelArrives
  <2>0. UNCHANGED <<method, l2rcache, age>>
    BY <1>4 DEF CancelArrives
  <2>1. CASE Repeated("cancel")
    BY <2>0, <2>1, <1>b DEF Repeated, tx
  <2>2. ASSUME NEW i \in Tx, key[i] = "branch", Answerable(i), doCancel(i),
               l1rcache' = [l1rcache EXCEPT !["cancel"] = "200", !["request"] = "487"],
               UNCHANGED <<created, bornAge>>
        PROVE Goal'
    <3>1. l1rcache'["request"] = "487" /\ sendResponse(i, "487")
      BY <2>2, <1>a DEF TypeOK, Datagram, doCancel
    <3> QED BY <2>0, <2>2, <3>1, <1>c
  <2>3. ASSUME UNCHANGED tx, UNCHANGED <<created, bornAge>>,
               l1rcache'["request"] = l1rcache["request"]
        PROVE Goal'
    BY <2>0, <2>3, <1>b DEF tx
  <2> QED BY <1>4, <1>a, <2>1, <2>2, <2>3 DEF CancelArrives, Answered, TypeOK, Datagram
<1>5. CASE rCachePurge
  <2>1. UNCHANGED <<method, created, key, data, bornAge>> /\ l2rcache' = l1rcache
    BY <1>5 DEF rCachePurge, OldGeneration, tx
  <2>2. age' # 0 /\ (age' = 1 => age = 0)
    BY <1>5, <1>a DEF rCachePurge, TypeOK
  <2>3. l1rcache'["request"] = "absent"
    BY <1>5 DEF rCachePurge, Datagram
  <2> QED BY <1>a, <2>1, <2>2, <2>3 DEF Superseded, AnswerCached, OneTransaction, Lookup
\* Only transactions that are not found by the branch change their key below.
<1>e. ASSUME NEW i \in Tx, key[i] = "totag", key'[i] \in {"totag", "none"},
             \A j \in Tx \ {i} : key'[j] = key[j],
             UNCHANGED <<method, created, data, bornAge, age, rc>>
      PROVE  Goal'
  <2>1. data[i] # "none"
    BY <1>a, <1>e DEF Placement, Placed
  <2> QED BY <1>a, <1>e, <2>1 DEF Superseded, AnswerCached, OneTransaction, Lookup, rc
<1>6. ASSUME NEW i \in Tx, AckArrives(i) PROVE Goal'
  <2>1. /\ key[i] = "totag" /\ key'[i] \in {"totag", "none"}
        /\ \A j \in Tx \ {i} : key'[j] = key[j]
        /\ UNCHANGED <<method, created, data, bornAge, age, rc>>
    BY <1>6, <1>a DEF AckArrives, TypeOK
  <2> QED BY <2>1, <1>e
<1>7. ASSUME NEW i \in Tx, NEW r \in {"1xx", "2xx", "fail"}, UaResponds(i, r) PROVE Goal'
  <2>1. CASE Answerable(i)
    <3>1. sendResponse(i, r) /\ UNCHANGED <<method, created, bornAge, age, l2rcache>>
      BY <1>7, <2>1 DEF UaResponds
    <3>2. l1rcache'["request"] = r /\ key[i] = "branch"
      BY <1>7, <2>1, <1>a DEF UaResponds, Answered, Answerable, TypeOK, Datagram
    <3> QED BY <3>1, <3>2, <1>c
  <2>2. CASE ~Answerable(i)
    BY <1>7, <2>2, <1>b DEF UaResponds
  <2> QED BY <2>1, <2>2
<1>8. ASSUME NEW i \in Tx, timerA(i) \/ timerF(i) PROVE Goal'
  BY <1>8, <1>b DEF timerA, timerF, tx, rc
<1>9. ASSUME NEW i \in Tx, timerD(i) PROVE Goal'
  <2>1. "D" \in armed[i] /\ UNCHANGED <<method, created, data, bornAge, age, rc>>
    BY <1>9 DEF timerD
  <2>2. key[i] = "totag"
    BY <2>1, <1>a, <1>t DEF Placement, Placed
  <2>3. key'[i] \in {"totag", "none"} /\ \A j \in Tx \ {i} : key'[j] = key[j]
    BY <1>9, <1>a, <2>2 DEF timerD, TypeOK
  <2> QED BY <2>1, <2>2, <2>3, <1>e
<1>10. ASSUME NEW i \in Tx, timerE(i) PROVE Goal'
  <2>1. "E" \in armed[i] /\ UNCHANGED <<method, created, bornAge, age, l2rcache>>
    BY <1>10 DEF timerE
  <2>2. key[i] = "branch" /\ state[i] \in {"TRYING", "RINGING"}
    BY <2>1, <1>a, <1>t DEF Placement, Placed
  <2>3. sendResponse(i, "487") /\ l1rcache'["request"] = "487"
    BY <1>10, <2>2, <1>a DEF timerE, doCancel, Answered, TypeOK, Datagram
  <2> QED BY <2>1, <2>2, <2>3, <1>c
<1>11. CASE UNCHANGED vars
  BY <1>11, <1>b DEF vars, tx, rc
<1> QED BY <1>3, <1>4, <1>5, <1>6, <1>7, <1>8, <1>9, <1>10, <1>11 DEF Next

\* Once a callback of the UA has raised, that stays known.
LEMMA NotRaisedBefore ==
    ASSUME [Next]_vars, ~raised'
    PROVE  ~raised
BY DEF Next, RequestArrives, Repeated, Duplicate, NewAndWaits, NewAndAnswers,
       NewAndSilent, CancelArrives, rCachePurge, AckArrives, UaResponds, timerA,
       timerD, timerE, timerF, vars

\* Without exceptions out of the UA, what ends a transaction ends the wait.
LEMMA OwedStep ==
    ASSUME IInv, Owed, [Next]_vars, ~raised'
    PROVE  Owed'
<1> USE ServerAssumption DEF Owed
<1>a. TypeOK /\ Placement
  BY DEF IInv
<1>b. ASSUME UNCHANGED <<key, cbs, waiting>> PROVE Owed'
  BY <1>b
<1>c. ASSUME NEW i \in Tx, doCancel(i), key[i] = "branch" PROVE Owed'
  <2>1. /\ \A j \in Tx \ {i} : waiting'[j] = waiting[j] /\ key'[j] = key[j]
        /\ cbs' = cbs
    BY <1>a, <1>c DEF doCancel, sendResponse, TellsCancelled, TypeOK
  <2>2. waiting'[i] = (waiting[i] /\ ~cbs[i])
    BY <1>a, <1>c DEF doCancel, TellsCancelled, TypeOK
  <2>3. ~waiting'[i]
    BY <2>2
  <2> QED BY <2>1, <2>3
<1>3. CASE RequestArrives
  <2>1. CASE Repeated("request")
    BY <2>1, <1>b DEF Repeated, tx
  <2>2. ASSUME NEW i \in Tx, Duplicate(i) PROVE Owed'
    BY <2>2, <1>b DEF Duplicate, tx
  <2>3. ASSUME NEW i \in Tx, NewAndWaits(i) PROVE Owed'
    <3>1. \A j \in Tx \ {i} : waiting'[j] = waiting[j] /\ key'[j] = key[j] /\ cbs'[j] = cbs[j]
      BY <1>a, <2>3 DEF NewAndWaits, TypeOK
    <3>2. key'[i] = "branch" /\ cbs'[i]
      BY <1>a, <2>3 DEF NewAndWaits, TypeOK
    <3> QED BY <3>1, <3>2
  <2>4. ASSUME NEW i \in Tx, NEW r \in {"2xx", "fail"}, NewAndAnswers(i, r) PROVE Owed'
    <3>1. Opens(i) /\ UNCHANGED waiting
      BY <2>4 DEF NewAndAnswers
    <3>2. ~waiting[i]
      BY <1>a, <3>1 DEF Opens, Placement, Placed, TypeOK
    <3>3. \A j \in Tx \ {i} : key'[j] = key[j] /\ cbs'[j] = cbs[j]
      BY <1>a, <2>4 DEF NewAndAnswers, sendResponse, TypeOK
    <3> QED BY <3>1, <3>2, <3>3
  <2>5. ASSUME NEW i \in Tx, NewAndSilent(i) PROVE Owed'
    <3>1. Opens(i) /\ UNCHANGED <<waiting, cbs>>
      BY <2>5 DEF NewAndSilent
    <3>2. ~waiting[i]
      BY <1>a, <3>1 DEF Opens, Placement, Placed, TypeOK
    <3>3. \A j \in Tx \ {i} : key'[j] = key[j]
      BY <1>a, <2>5 DEF NewAndSilent, TypeOK
    <3> QED BY <3>1, <3>2, <3>3
  <2> QED BY <1>3, <2>1, <2>2, <2>3, <2>4, <2>5 DEF RequestArrives
<1>4. CASE CancelArrives
  <2>1. CASE Repeated("cancel")
    BY <2>1, <1>b DEF Repeated, tx
  <2>2. ASSUME NEW i \in Tx, Answerable(i), doCancel(i) PROVE Owed'
    BY <2>2, <1>c DEF Answerable
  <2>3. CASE UNCHANGED tx
    BY <2>3, <1>b DEF tx
  <2> QED BY <1>4, <2>1, <2>2, <2>3 DEF CancelArrives
<1>5. CASE rCachePurge
  BY <1>5, <1>b DEF rCachePurge, tx
<1>e. ASSUME NEW i \in Tx, key[i] = "totag", \A j \in Tx \ {i} : key'[j] = key[j],
             UNCHANGED <<cbs, waiting>>
      PROVE  Owed'
  BY <1>e
<1>6. ASSUME NEW i \in Tx, AckArrives(i) PROVE Owed'
  <2>1. /\ key[i] = "totag" /\ UNCHANGED <<cbs, waiting>>
        /\ \A j \in Tx \ {i} : key'[j] = key[j]
    BY <1>6, <1>a DEF AckArrives, TypeOK
  <2> QED BY <2>1, <1>e
<1>7. ASSUME NEW i \in Tx, NEW r \in {"1xx", "2xx", "fail"}, UaResponds(i, r) PROVE Owed'
  <2>1. CASE Answerable(i)
    <3>1. \A j \in Tx \ {i} : waiting'[j] = waiting[j] /\ key'[j] = key[j]
      BY <1>7, <2>1, <1>a DEF UaResponds, sendResponse, TypeOK
    <3>2. waiting'[i] = (r \notin Finals) /\ (r \notin Finals => key'[i] = key[i])
      BY <1>7, <2>1, <1>a DEF UaResponds, sendResponse, TypeOK
    <3>3. UNCHANGED cbs /\ waiting[i]
      BY <1>7 DEF UaResponds
    <3> QED BY <3>1, <3>2, <3>3
  <2>2. CASE ~Answerable(i)
    BY <1>7, <2>2, <1>b DEF UaResponds
  <2> QED BY <2>1, <2>2
<1>8. ASSUME NEW i \in Tx, timerA(i) \/ timerF(i) PROVE Owed'
  BY <1>8, <1>b DEF timerA, timerF, tx
<1>9. ASSUME NEW i \in Tx, timerD(i) PROVE Owed'
  <2>1. "D" \in armed[i] /\ UNCHANGED <<cbs, waiting>>
    BY <1>9 DEF timerD
  <2>t. key[i] \in {"none", "branch", "totag"}
    BY <1>a DEF TypeOK
  <2>2. key[i] = "totag"
    BY <2>1, <1>a, <2>t DEF Placement, Placed
  <2>3. \A j \in Tx \ {i} : key'[j] = key[j]
    BY <1>9, <1>a, <2>2 DEF timerD, TypeOK
  <2> QED BY <2>1, <2>2, <2>3, <1>e
<1>10. ASSUME NEW i \in Tx, timerE(i) PROVE Owed'
  <2>1. "E" \in armed[i]
    BY <1>10 DEF timerE
  <2>t. key[i] \in {"none", "branch", "totag"}
    BY <1>a DEF TypeOK
  <2>2. key[i] = "branch" /\ state[i] \in {"TRYING", "RINGING"}
    BY <2>1, <1>a, <2>t DEF Placement, Placed
  <2> QED BY <1>10, <2>2, <1>c DEF timerE
<1>11. CASE UNCHANGED vars
  BY <1>11, <1>b DEF vars, tx
<1> QED BY <1>3, <1>4, <1>5, <1>6, <1>7, <1>8, <1>9, <1>10, <1>11 DEF Next

-----------------------------------------------------------------------------

LEMMA IInvStep == IInv /\ [Next]_vars => IInv'
<1> SUFFICES ASSUME IInv, [Next]_vars PROVE IInv'
  OBVIOUS
<1> QED BY TypeStep, PlacementStep, CacheStep DEF IInv

\* All variables stay in their types, for any number of transactions.
THEOREM ServerTypeCorrect == Spec => []TypeOK
<1>1. IInv => TypeOK
  BY DEF IInv
<1> QED BY <1>1, InitIInv, IInvStep, PTL DEF Spec

\* No timer of SipTransactionManager outlives its server transaction, even if
\* the UA's callbacks raise.
THEOREM ServerNoStrayTimer == Spec => []NoStrayTimer
<1>1. IInv => NoStrayTimer
  BY DEF IInv, Placement, Placed, NoStrayTimer
<1> QED BY <1>1, InitIInv, IInvStep, PTL DEF Spec

\* Copies of a request reach the UA once while the far end may send them.
THEOREM ServerOneTransaction == Spec => []OneTransaction
<1>1. IInv => OneTransaction
  BY DEF IInv
<1> QED BY <1>1, InitIInv, IInvStep, PTL DEF Spec

\* ack_cb, noack_cb and cancel_cb tell the UA one consistent story.
THEOREM ServerConsistentOutcome == Spec => []ConsistentOutcome
<1>1. IInv => ConsistentOutcome
  BY DEF IInv
<1> QED BY <1>1, InitIInv, IInvStep, PTL DEF Spec

\* sendResponse() never refuses an answer that the UA believes it still owes.
THEOREM ServerAnswerAccepted == Spec => []AnswerAccepted
<1> DEFINE J == IInv /\ (raised \/ Owed)
<1>1. J => AnswerAccepted
  BY DEF IInv, Owed, Placement, Placed, AnswerAccepted, Answerable
<1>2. J /\ [Next]_vars => J'
  <2> SUFFICES ASSUME J, [Next]_vars PROVE J'
    OBVIOUS
  <2>1. IInv'
    BY IInvStep
  <2>2. CASE ~raised'
    BY <2>1, <2>2, NotRaisedBefore, OwedStep
  <2>3. CASE raised'
    BY <2>1, <2>3
  <2> QED BY <2>2, <2>3
<1>3. Init => J
  BY InitIInv
<1> HIDE DEF J
<1> QED BY <1>1, <1>2, <1>3, PTL DEF Spec
=============================================================================
