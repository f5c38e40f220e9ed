------------------------------ MODULE Messages ------------------------------
(***************************************************************************)
(* What of a SIP message its receiver goes by: the identity of its         *)
(* transaction, the Vias that lead an answer back, the routes that lead an *)
(* ACK on, and the length of its body.                                     *)
(*                                                                         *)
(* A request here is what matters of it: its method, Call-ID, tags, CSeq,  *)
(* Max-Forwards (-1: none) and Vias.  Branches and tags are members of     *)
(* small sets.  An address is a host and a port, port 0 stands for none.   *)
(***************************************************************************)
EXTENDS Naturals, Integers, Sequences, SequencesExt

None == "none"
DefaultPort == 5060

-----------------------------------------------------------------------------
(* SipMsg.py, SipRequest.py, SipResponse.py: identities.                   *)

Via(host, port, rport, branch) ==
    [host |-> host, port |-> port, rport |-> rport, received |-> None, branch |-> branch]

\* A request of ours outside any dialog.
Request(method, branch) ==
    [method |-> method, callid |-> "call", ftag |-> "f", ttag |-> None, cseq |-> 1,
     mf |-> 70, vias |-> <<Via("ua", 5060, "bare", branch)>>]

getTId(m, wCSM, wBRN, wTTG) ==
    <<m.callid, m.ftag, ToString(m.cseq)>>
    \o (IF wCSM THEN <<m.method>> ELSE <<>>)
    \o (IF wBRN THEN <<m.vias[1].branch>> ELSE <<>>)
    \o (IF wTTG THEN <<m.ttag>> ELSE <<>>)

getTIds(m) ==
    {<<m.callid, m.ftag, ToString(m.cseq), m.method, m.vias[i].branch>> : i \in DOMAIN m.vias}

\* genResponse(), and the tag that sendResponse() adds to all but 100.
genResponse(req, code) ==
    [req EXCEPT !.ttag = IF @ = None /\ code > 100 THEN "t" ELSE @]

\* Mistake: the ACK has a branch of its own.
genACKAnew(req) == [req EXCEPT !.method = "ACK", !.vias = <<[@[1] EXCEPT !.branch = "new"]>>]

\* genACK() and genCANCEL() keep the topmost Via only.
genACK(req) == [req EXCEPT !.method = "ACK", !.vias = <<@[1]>>]

genCANCEL(req) == [req EXCEPT !.method = "CANCEL", !.vias = <<@[1]>>]

\* incomingResponse(): the ACK takes the tag of the response, and after a 2xx a
\* branch of its own.
AckFor(ack, resp, code) ==
    [ack EXCEPT !.ttag = IF resp.ttag # None THEN resp.ttag ELSE @,
                !.vias = IF code < 300 THEN <<[@[1] EXCEPT !.branch = "ack"]>> ELSE @]

\* sendResponse(): the key of the INVITE once it has its final response.
FinalKey(req, resp) == getTId(req, FALSE, FALSE, FALSE) \o <<resp.ttag>>

-----------------------------------------------------------------------------
(* StatefulProxy.py                                                        *)

\* recvRequest(): a request that may not travel on is answered by 483.
Forwards(req) == req.mf = -1 \/ req.mf > 1

ForwardedVias(req) == <<Via("proxy", 5060, "bare", "proxy")>> \o req.vias

Forwarded(req) ==
    [req EXCEPT !.mf = IF @ = -1 THEN 70 ELSE @ - 1, !.vias = ForwardedVias(req)]

\* recvResponse()
Returned(resp) == [resp EXCEPT !.vias = Tail(@)]

-----------------------------------------------------------------------------
(* handleIncoming() of a request, and SipVia.py.                           *)

\* The addresses among the hosts: their first two octets count.
Octets == [h \in {"10.0.0.1", "172.31.0.1", "172.32.0.1", "192.168.0.1"} |->
             CASE h = "10.0.0.1"   -> <<10, 0>>   [] h = "172.31.0.1" -> <<172, 31>>
               [] h = "172.32.0.1" -> <<172, 32>> [] OTHER            -> <<192, 168>>]
NETS_1918 == {[net |-> <<10, 0>>, bits |-> 8], [net |-> <<172, 16>>, bits |-> 12],
              [net |-> <<192, 168>>, bits |-> 16]}

\* A host that is no address is not found in any net.
check1918(host) ==
    LET top(o, bits) == (256 * o[1] + o[2]) \div 2 ^ (16 - bits) IN
    host \in DOMAIN Octets /\ \E x \in NETS_1918 : top(Octets[host], x.bits) = top(x.net, x.bits)
check7118(host) == host = "ua.invalid"

\* 'rport' in params or nated
NotesRport(via, nated) == via.rport # None \/ nated

\* What the address ra a request came from leaves in its topmost Via.
Received(via, ra, nat_traversal) ==
    LET nated == /\ ra.transport # "wss" /\ nat_traversal /\ ra.port # via.port
                 /\ check1918(via.host) \/ check7118(via.host) IN
    [via EXCEPT !.received = IF via.host # ra.host THEN ra.host ELSE @,
                !.rport = IF NotesRport(via, nated) THEN ToString(ra.port) ELSE @]

\* getTAddr(): where the response goes.
getTAddr(via, ra) ==
    [host |-> IF via.received # None THEN via.received ELSE via.host,
     port |-> CASE via.rport = ToString(ra.port) -> ra.port
                [] via.port = 0                  -> DefaultPort
                [] OTHER                         -> via.port]

-----------------------------------------------------------------------------
(* Routes: incomingResponse() of a 2xx.                                    *)

RouteSet(rr) == Reverse(rr)

\* A route is [name, lr].  The ACK: its Request-URI, Route header fields and the
\* hop it is sent to; contact is "none" if the response has none, and ruri and
\* hop are those of the INVITE.
AckRoute(rr, contact, ruri, hop) ==
    LET routes == RouteSet(rr)
        names(s) == [i \in DOMAIN s |-> s[i].name]
        target == IF contact # None THEN contact ELSE ruri
    IN
    IF routes = <<>> THEN [ruri |-> target, routes |-> <<>>,
                           hop |-> IF contact # None THEN contact ELSE hop]
    ELSE IF routes[1].lr THEN [ruri |-> target, routes |-> names(routes), hop |-> routes[1].name]
    ELSE [ruri |-> routes[1].name, hop |-> routes[1].name,
          routes |-> names(Tail(routes)) \o (IF contact # None THEN <<contact>> ELSE <<>>)]

-----------------------------------------------------------------------------
(* init_body().  A body is a number n of characters and a line end: "R"    *)
(* and "N" stand for \r and \n.  The first wide of the characters are two  *)
(* bytes each on the wire; the code only sees them decoded (handleIncoming *)
(* of the transaction manager), and encodes what it sends (send_to()).     *)

RN == <<"R", "N">>
Body(n, wide, end) == [n |-> n, wide |-> wide, end |-> end, ok |-> TRUE]
NoBody  == Body(0, 0, <<>>)
Refused == [NoBody EXCEPT !.ok = FALSE]
Length(b) == b.n + Len(b.end)
Bytes(b)  == Length(b) + b.wide

\* mbody[:blen]; a negative length counts from the end.
CutTo(b, blen) ==
    LET k == IF blen >= 0 THEN blen ELSE IF Length(b) + blen < 0 THEN 0 ELSE Length(b) + blen IN
    IF k <= b.n THEN Body(k, IF k < b.wide THEN k ELSE b.wide, <<>>)
    ELSE [b EXCEPT !.end = SubSeq(@, 1, k - b.n)]

\* length is <<>> if there is no Content-Length.
init_body(b, length) ==
    LET blen  == length[1]
        short == blen - Length(b)
        last(k) == SubSeq(b.end, Len(b.end) - k + 1, Len(b.end))
        ends(e) == Len(b.end) >= Len(e) /\ last(Len(e)) = e
    IN
    CASE length = <<>> \/ short = 0            -> b
      [] blen = 0                             -> NoBody
      [] Length(b) = 0                        -> Refused
      [] short < 0                            -> CutTo(b, blen)
      [] short < 7 /\ Length(b) > 7 /\ ends(RN \o RN) -> b
      [] short = 2 /\ ends(RN)                -> [b EXCEPT !.end = @ \o RN]
      [] short = 1 /\ ends(RN \o <<"N">>)     -> [b EXCEPT !.end = SubSeq(@, 1, Len(@) - 3) \o RN \o RN]
      [] short = 1 /\ ends(RN)                -> [b EXCEPT !.end = @ \o RN]
      [] OTHER                                -> Refused

\* __str__() and localStr(): the Content-Length that goes with a body.
lengthStr(b) == Length(b)

-----------------------------------------------------------------------------
(* Properties of one exchange x.                                           *)

Exchanges ==
    [proxy : BOOLEAN, code : {180, 200, 404}, mf : {-1, 1, 2},
     host : {"ua", "ua.invalid"} \cup DOMAIN Octets, transport : {"udp", "wss"},
     port : {0, 5060}, rport : {None, "bare"}, from : {5060, 1024}, nat : BOOLEAN]

Sent(x) == [Request("INVITE", "b") EXCEPT !.mf = x.mf, !.vias[1].host = x.host,
                                          !.vias[1].port = x.port, !.vias[1].rport = x.rport]
Arrived(x) == IF x.proxy THEN Forwarded(Sent(x)) ELSE Sent(x)
Answer(x)  == LET r == genResponse(Arrived(x), x.code) IN IF x.proxy THEN Returned(r) ELSE r

\* The answer of the far end finds the client transaction that sent the request,
\* also through a proxy; the CANCEL finds the INVITE; and the ACK finds the INVITE
\* under the key its final response has left, although it may have a new branch.
TransactionsMatch(x) ==
    (x.proxy => Forwards(Sent(x))) =>
    /\ getTId(Answer(x), TRUE, TRUE, FALSE) = getTId(Sent(x), TRUE, TRUE, FALSE)
    /\ getTId(genCANCEL(Arrived(x)), FALSE, TRUE, FALSE) = getTId(Arrived(x), FALSE, TRUE, FALSE)
    /\ x.code < 200 \/
         LET req  == Arrived(x)
             resp == genResponse(req, x.code)
             ack  == AckFor(genACK(req), resp, x.code) IN
         /\ getTId(ack, FALSE, FALSE, TRUE) = FinalKey(req, resp)
         /\ (x.code >= 300) = (ack.vias[1].branch = req.vias[1].branch)

\* A request that comes back to the proxy that has sent it is recognised by the
\* proxy's own branch, wherever that is among the Vias.
LoopSeen(x) ==
    x.proxy /\ Forwards(Sent(x)) =>
        LET out  == Forwarded(Sent(x))
            back == [out EXCEPT !.vias = <<Via("other", 5060, "bare", "o")>> \o @] IN
        getTId(out, TRUE, TRUE, FALSE) \in getTIds(back)

\* The response goes back to where the request came from: always to that host,
\* and to that port if the Via asks for it, names it, or names an address that only
\* a host behind a NAT has and the request did not come over a web socket.
ResponseReturns(x) ==
    LET via == Via(x.host, x.port, x.rport, "b")
        ra  == [host |-> "outside", port |-> x.from, transport |-> x.transport]
        inside == x.host \in {"10.0.0.1", "172.31.0.1", "192.168.0.1", "ua.invalid"}
        to  == getTAddr(Received(via, ra, x.nat), ra)
    IN
    /\ to.host = ra.host
    /\ x.rport # None \/ (x.nat /\ inside /\ x.transport # "wss") \/ x.port = x.from
         => to.port = ra.port

\* The ACK of a 2xx visits the recorded proxies from the nearest to the furthest
\* and then the contact of the callee, whether the nearest is a loose router (the
\* contact is the Request-URI) or a strict one (the contact is the last route).
AckVisits(rr, contact) ==
    LET a     == AckRoute(rr, contact, "callee", "gw")
        path  == [i \in DOMAIN rr |-> rr[Len(rr) - i + 1].name]
        loose == rr = <<>> \/ rr[Len(rr)].lr
        visits == IF loose THEN a.routes \o <<a.ruri>> ELSE <<a.ruri>> \o a.routes
    IN
    /\ visits = path \o (IF contact # None THEN <<contact>> ELSE IF loose THEN <<"callee">> ELSE <<>>)
    /\ rr # <<>> \/ contact # None => a.hop = visits[1]

\* A body that is accepted has lost no character that its length promises, has
\* gained nothing but a line end, and this code reads it again as it is when it is
\* sent on.  A length counts bytes, but is taken for one of characters: of a body
\* with characters of one byte the right length keeps all and the length that is
\* sent is right; with wider ones the right length is refused or adds a line end,
\* and the length that is sent leaves the end out for a next hop that counts bytes.
BodyKept(b, length) ==
    \A r \in {init_body(b, length)} :
    /\ length = <<Bytes(b)>> /\ b.wide = 0 => r = b
    /\ length = <<Bytes(b)>> /\ b.wide > 0 => ~r.ok \/ (r.n = b.n /\ Len(r.end) >= Len(b.end))
    /\ r.ok =>
         /\ r.n < b.n => length # <<>> /\ (length[1] < 0 \/ r.n = length[1])
         /\ length # <<>> /\ length[1] \in 0 .. Length(b) => Length(r) = length[1]
         /\ Length(r) <= Length(b) + 2
         /\ init_body(r, <<lengthStr(r)>>) = r
         /\ (lengthStr(r) = Bytes(r)) = (r.wide = 0)
=============================================================================
