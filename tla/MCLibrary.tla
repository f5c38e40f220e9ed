----------------------------- MODULE MCLibrary -----------------------------
(***************************************************************************)
(* The parts of the B2BUA that are used by all others, each for itself:    *)
(* registrations, accounting records and RTP end points with their steps,  *)
(* and the operators on messages, descriptions, replies and routes on one  *)
(* input after the other.                                                  *)
(***************************************************************************)
EXTENDS Registration, RadiusRecords, RtpEndpoint

M == INSTANCE Messages
A == INSTANCE HeaderFields
P == INSTANCE RtppReplies
R == INSTANCE Routes

VARIABLES
    kind,          \* which part this behaviour is about
    input,         \* its input, once chosen
    done

-----------------------------------------------------------------------------
(* Inputs.                                                                 *)

QopLists == {<<>>, <<"auth-int">>, <<"token", "auth">>, <<"token">>}

Sequences(S, n) == UNION {[1 .. k -> S] : k \in 0 .. n}

Recorded == Sequences({[name |-> "p1", lr |-> TRUE], [name |-> "p2", lr |-> FALSE],
                       [name |-> "p3", lr |-> TRUE]}, 3)
Bodies == {M!Body(n, IF wide < n THEN wide ELSE n, end) : n \in 0 .. 8, wide \in 0 .. 3,
                            end \in {<<>>, M!RN, M!RN \o M!RN, M!RN \o <<"N">>}}

Section(av, formats, codecs) ==
    [m |-> P!Media(av, formats), c |-> "A", b |-> P!Absent, attrs |-> P!Picked(codecs)]
Sections == {Section(TRUE, f, C) : f \in {<<0>>, <<0, 96>>, <<96, 97>>, <<0, 98>>},
                                   C \in SUBSET {P!Codecs[k] : k \in 1 .. 4}}
            \cup {Section(FALSE, <<96>>, {})}
Policies == {{[pt |-> 0, name |-> "n"]}, {[pt |-> -1, name |-> "opus"]},
             {[pt |-> 0, name |-> "n"], [pt |-> -1, name |-> "opus"]}}

Private == <<P!Attr("setup", -1, "active"), P!Attr("fingerprint", -1, "fp"),
             P!Attr("ice-ufrag", -1, "u"), P!Attr("ice-pwd", -1, "p"),
             P!Attr("candidate", -1, "udp"), P!Attr("candidate", -1, "tcp"),
             P!Attr("ssrc", -1, "msid"), P!Attr("ssrc", -1, "cname")>>
Those(S) == SelectSeq(Private, LAMBDA a : \E k \in S : Private[k] = a)
Gatewayed == {[attrs |-> Those(S), session |-> Those(T), transport |-> "UDP/TLS/RTP/SAVPF"] :
                 S \in SUBSET (1 .. 8), T \in SUBSET (1 .. 4)}

Updates == {<<>>, <<P!subcommand_dtls>>, <<P!subcommand_dtls, P!subcommand_ice>>,
            <<P!Subcommand("deDTLS", <<"A">>), P!Subcommand("deICE", <<"A">>)>>,
            <<P!Subcommand("deDTLS", <<"A">>), P!Subcommand("deICE", <<"A", "C">>)>>}
Replies == [kind : {"port"}, port : {0, 1}, results : Sequences(P!Results, 4)]
           \cup [kind : {"none", "error"}, port : {0}, results : {<<>>}]

Says(a, v) == [a |-> a, v |-> v, n |-> 0]
Limits(a, n) == [a |-> a, v |-> "", n |-> n]
Params == {<<>>, <<Limits("credit-time", 0)>>, <<Limits("credit-time", 5)>>,
           <<Limits("credit-time", -1), Says("cli", "")>>, <<Limits("expires", 0)>>,
           <<Limits("expires", -3), Says("ash", "h"), Says("cli", "200")>>,
           <<Limits("gt", 1), Says("cli", "1"), Says("cli", "")>>,
           <<Limits("np_expires", 3), Limits("nr_expires", 4), Limits("hs_scodes", 486)>>,
           <<Says("forward_on_fail", "1"), Says("auth", "u"), Says("auth", "nopass")>>}
Texts == [cld : {"absent", "", "100"}, ainfo : {<<[af |-> 4]>>}, params : Params]

Users == {A!NoUser, <<>>, <<"a">>, <<"a", "@">>, <<"a", ":", "?">>, <<"a", ";">>}
V6 == <<"[", "a", ":", "b", "]">>
Urls == {[A!Url(user, host, port) EXCEPT !.userparams = ups, !.password = pw, !.lr = lr,
                                        !.params = par, !.other = other, !.headers = hs] :
            user \in Users, host \in {<<>>, <<"h">>, V6}, port \in {A!Nothing, "5060", "5070"},
            ups \in {<<>>, <<<<"n">>, <<"k", "=", "%@">>>>}, pw \in {A!Nothing, "w"},
            par \in {A!NoParams, [A!NoParams EXCEPT !["transport"] = "tcp", !["tag"] = "t"]},
            other \in {<<>>, <<<<"npdi">>>>, <<<<"x", "=", "1">>>>}, lr \in BOOLEAN,
            hs \in {<<>>, <<<<<<"to">>, <<"a", "@">>>>, <<<<"b">>, <<"&", "/">>>>>>}}
UrlTexts == {scheme \o user \o host \o port \o par \o hs :
                scheme \in {<<>>, <<"sip", ":">>, <<"sips", ":">>, <<"tel", ":">>}, user \in {<<>>, <<"a", ":", "w", "@">>},
                host \in {<<>>, <<"h">>, V6, <<"[", "a">>},
                port \in {<<>>, <<":">>, <<":", "01">>, <<":", "x">>, <<":", "5060", ":", "5060">>, <<":", "5060", ":", "5070">>, <<":", "x", ":", "x">>},
                par \in {<<>>, <<";", "ttl", "=", "1">>, <<";", "ttl", "=", "x">>, <<";", "lr", "=", "on", ";", "tag", "=", "t", ";", "tag", "=", "u">>, <<";">>},
                hs \in {<<>>, <<"?", "b", "=", "%@", "&", "b", "=">>, <<"?", "b">>, <<"?", "b", "=", "=">>}}
\* User parameters and a password belong to a user.
WrittenUrls == {u \in Urls : u.user = A!NoUser => u.userparams = <<>> /\ u.password = A!Nothing}
Names == {<<>>, <<"a">>, <<"a", " ", "b">>, <<"a", "<", "b">>, <<"a", ";", "@">>,
          <<"a", "Q", "b">>, <<"a", "BS", "Q">>}
\* The parameters of an address are a dict.
AddressParams == {s \in Sequences({<<"tag", "=", "1">>, <<"lr">>, <<"p", "=", "Q", "x", "Q">>}, 2) :
                    \A i, j \in DOMAIN s : s[i] = s[j] => i = j}
Addresses0 ==
    {A!Address(name, url, ps, TRUE) : name \in Names, ps \in AddressParams,
        url \in {u \in WrittenUrls : /\ u.port = "5070" /\ u.host # <<>> /\ u.other = <<>> /\ ~u.lr
                                     /\ u.password = A!Nothing /\ ";" \notin {u.user[i] : i \in DOMAIN u.user}}}
    \cup {A!Address(<<>>, A!Url(<<"a">>, <<"h">>, A!Nothing), ps, FALSE) : ps \in AddressParams}


Reasons == {<<"Q.850">> \o A!FlattenSeq(ps) : ps \in Sequences(
              {<<";", " ", "cause", "=", "31">>, <<";", "cause", "=", " ", "01", " ">>, <<";", "cause", "=", "x">>,
               <<";", "text", "=", "a">>, <<";", " ", "text", "=", " ", "Q", "a", ";", "cause", "=", "1", "Q", " ">>,
               <<";", "lang", "=", "a">>}, 3)}
Replaced == {<<"id">> \o A!FlattenSeq(ps) : ps \in Sequences(
              {<<";", "from-tag", "=", "f">>, <<";", "to-tag", "=", "t">>, <<";", "early-only">>, <<";", "x", "=", "1">>}, 4)}
ContentTypes == {<<"multipart/mixed">> \o A!FlattenSeq(ps) : ps \in Sequences(
              {<<";", "boundary", "=", "b">>, <<";", "boundary", "=", "c", "=", "d">>, <<";", "x">>, <<";", "q", "=", "1">>}, 3)}
Hops == {<<"SIP", "/", "2.0", "/", "UDP", " ">> \o host \o port \o A!FlattenSeq(ps) :
              host \in {<<"h">>, <<" ", "[", "a", ":", "b", "]">>},
              port \in {<<>>, <<":", "5060">>, <<":", "5070", ":", "5070">>, <<":", "5060", ":", "5070">>, <<":", "x">>},
              ps \in Sequences({<<";", "rport">>, <<" ", ";", " ", "branch", "=", "z=">>, <<";", "rport", "=", "1">>}, 3)}
        \cup {<<"SIP", " ", "h">>, <<"SIP", "/", "2.0", "/", "UDP">>}
Numbers == {A!FlattenSeq([i \in DOMAIN w |-> w[i] \o sp]) :
              w \in Sequences({<<"1">>, <<"01">>, <<"x">>, <<"INVITE">>}, 4), sp \in {<<" ">>, <<" ", " ">>}}
Texts0 == {t \in Sequences({"a", ",", " "}, 5) : t # <<>>}
Guids == {A!FlattenSeq(ps) : ps \in Sequences({<<"-">>, <<"1">>, <<"01">>}, 7)}
Warnings == {<<"31", " ", "h", " ">> \o t : t \in Sequences({"Q", "a", " "}, 4)} \cup {<<"31", " ", "h">>}
Fields ==
    {[name |-> "reason", t |-> t] : t \in Reasons} \cup {[name |-> "replaces", t |-> t] : t \in Replaced}
    \cup {[name |-> "content-type", t |-> t] : t \in ContentTypes} \cup {[name |-> "via", t |-> t] : t \in Hops}
    \cup {[name |-> n, t |-> A!strip(t)] : n \in {"cseq", "rack", "expires"}, t \in Numbers}
    \cup {[name |-> n, t |-> t] : n \in {"allow", "supported", "subject"}, t \in Texts0}
    \cup {[name |-> "cisco-guid", t |-> t] : t \in Guids} \cup {[name |-> "warning", t |-> A!strip(t)] : t \in Warnings}

Listed == {A!Address(name, A!Url(user, <<"h">>, A!Nothing), ps, brace) :
              name \in {<<>>, <<"a">>, <<"a", " ", ",">>, <<"a", "<">>}, user \in {<<"a">>, <<"a", ",", "b">>},
              ps \in {<<>>, <<<<"tag", "=", "1">>>>}, brace \in BOOLEAN}
ListedWell == {a \in Listed : a.hadbrace \/ (a.name = <<>> /\ a.url.user = <<"a">>)}

Lines == {<<"via", ":", "H", ",", "I">>, <<"f", ":", " ", "<", "sip", ":", "h", ">">>, <<"to", ":", "<", "sip", ":", "h", ">">>,
          <<"cseq", " ", ":", "1", " ", "INVITE">>, <<" ", "more">>, <<"supported", ":", "x">>,
          <<"content-type", ":", "text", ";", "c", "=", "d">>}
Ordered == A!SetToSeq({l \in Lines : l[1] \in {"via", "f", "to", "cseq"}})
Headers == {Ordered, A!Reverse(Ordered)}
InsertedAt(s, k, x) == SubSeq(s, 1, k) \o <<x>> \o SubSeq(s, k + 1, Len(s))
Heads == Headers \cup {InsertedAt(Ordered, k, l) : k \in 1 .. 4, l \in Lines}
         \cup {SubSeq(p, 1, 3) : p \in Headers}
Contents == {<<>>, <<"x">>, <<"x", "N", "N">>, <<"R", "R", "x">>, <<"R", "N">>, <<"N">>,
             <<"x", "R", "N", "R", "N", "x">>, <<"N", "R", "N", "R", "N">>}

Parts == {A!RN \o h \o A!RN \o A!RN \o c :
             h \in {<<"content-type", ":", " ", "text">>, <<"x", ":", "y", "R", "N", "content-type", ":", "a", ";", "b", "=", "c">>, <<"content-type", ":", "a", ";", "b">>, <<"c", ":", "z">>},
             c \in {<<>>, <<"x", "R", "N">>, <<"x", "R", "N", "R", "N", "y">>}} \cup {<<"x">>}
Multiparts == {A!FlattenSeq([i \in DOMAIN ps |-> <<"--b">> \o ps[i]]) \o <<"--b">> \o e :
                  ps \in Sequences(Parts, 2), e \in {<<"--">>, <<"--", "R", "N">>, <<>>}}

MediaParams == {[target |-> t, proto |-> "IP4", ptime |-> 2] : t \in {NoTarget, "a"}}
               \cup {[target |-> "a", proto |-> "IP6", ptime |-> 2],
                     [target |-> "b", proto |-> "IP4", ptime |-> 3]}
\* "a" is a name with addresses of both families, "b" an address.
Lookups == [t \in {NoTarget, "a", "b"} |-> IF t = "b" THEN {"IP4"} ELSE {"IP4", "IP6"}]
Sounds == {[n |-> 5, rate |-> 1], [n |-> 2, rate |-> 2]}

InputsOf(k) ==
    CASE k = "exchange" -> M!Exchanges
      [] k = "ack"      -> [rr : Recorded, contact : {"none", "contact"}]
      [] k = "body"     -> [b : Bodies, length : {<<>>} \cup {<<n>> : n \in -3 .. 16}]
      [] k = "sdp"      -> P!Written
      [] k = "origins"  -> [os : Sequences([id : {1, 2}, version : {1, 2}], 4)]
      [] k = "policy"   -> [sections : Sections \X Sections, allowed : Policies]
      [] k = "gateway"  -> Gatewayed
      [] k = "reply"    -> [subs : Updates, reply : Replies]
      [] k = "command"  -> [opts : Sequences({"R", "L", "c", "1", ",", "x"}, 5), n : {5}, subs : {0}, marked : {FALSE}]
                           \cup [opts : {<<>>, <<"c", "1">>, <<"c", ",">>}, n : 0 .. 7, subs : 0 .. 3, marked : BOOLEAN]
      [] k = "routing"  -> [texts : Texts \X Texts, credit : {-1, 0, 2}, max : {-1, 0, 3}]
      [] k = "static"   -> [text : Texts, credit : {-1, 2}, max : {-1, 0, 3}]
      [] k = "hosts"    -> [ainfo : Sequences([af : {4, 6}, n : {1, 2}], 3) \ {<<>>}, af : {4, 6}]
      [] k = "url"      -> WrittenUrls
      [] k = "urltext"  -> [t : UrlTexts]
      [] k = "own"      -> [host : {"h"}, port : {"5060", "5070"}, transport : {"udp", "tcp", "wss"}]
      [] k = "address"  -> Addresses0
      [] k = "field"    -> Fields
      [] k = "list"     -> [as : Sequences(ListedWell, 2) \ {<<>>}, spaced : BOOLEAN]
      [] k = "message"  -> [lines : Heads, end : {A!RN, <<"R">>, <<"N">>}, body : Contents, compact : BOOLEAN]
      [] k = "parts"    -> [t : Multiparts]
      [] k = "radius"   -> [a : AvpairNames \cup VsaNames \cup {"User-Name", "h323-ivr-in"}, v : {"v"}]

Pure == {"exchange", "ack", "body", "sdp", "origins", "policy", "gateway", "reply", "command",
         "routing", "static", "hosts", "url", "urltext", "own", "address",
         "field", "list", "message", "parts", "radius"}

-----------------------------------------------------------------------------

libVars == <<kind, input, done, regVars, radVars, rtpVars>>

LibInit ==
    /\ kind \in Pure \cup {"registration", "record", "rtp"}
    /\ input = <<>> /\ done = FALSE
    /\ RegInit /\ RadInit /\ RtpInit
    /\ kind # "registration" => passw = None
    /\ kind # "record" => ~sendStart /\ ~lperiod
    /\ kind # "rtp" => ep.ptime = 3

Choose ==
    /\ kind \in Pure /\ ~done /\ done' = TRUE
    /\ input' \in InputsOf(kind)
    /\ UNCHANGED <<kind, regVars, radVars, rtpVars>>

Chosen == <<kind, input, done>>
ElseReg == <<Chosen, radVars, rtpVars>>
Registers == kind = "registration" /\ RegNext /\ UNCHANGED ElseReg
Accounts  == kind = "record" /\ RadNext /\ UNCHANGED <<Chosen, regVars, rtpVars>>

\* Bounded: an end point that is sent something plays nothing, and the more often
\* it is updated the less it plays.
Plays ==
    /\ kind = "rtp" /\ RtpNext /\ UNCHANGED <<Chosen, regVars, radVars>>
    /\ updates' + chunks' + shutdowns' <= 3
    /\ ins'.seq > 0 => chunks' = 0 /\ updates' <= 1

LibNext == Choose \/ Registers \/ Accounts \/ Plays

\* The dispatcher runs timers, the transaction manager ends every request (of a
\* registrar that does not send 1xx for ever), and the threads of an end point are
\* scheduled.
LibSpec ==
    /\ LibInit /\ [][LibNext]_libVars
    /\ WF_libVars(kind = "registration" /\ doregister /\ UNCHANGED ElseReg)
    /\ WF_libVars(kind = "registration" /\ FinalAnswer /\ UNCHANGED ElseReg)
    /\ RtpFairness

Holds(k, P0(_)) == kind = k /\ done => P0(input)

-----------------------------------------------------------------------------
(* Properties: those of the modules, for every input.                      *)

\* SipMsg.getTId(), genACK(), genCANCEL(), StatefulProxy: answers, CANCELs and ACKs
\* find their transaction, also through a proxy.
Matched == Holds("exchange", M!TransactionsMatch)

\* SipMsg.getTIds(): a request that comes back is recognised as a loop.
LoopsSeen == Holds("exchange", M!LoopSeen)

\* SipVia.getTAddr(), handleIncoming(): a response goes where the request came from.
Returns == Holds("exchange", M!ResponseReturns)

\* incomingResponse(): the ACK of a 2xx visits the recorded proxies in order, then
\* the contact.
AcksVisit == Holds("ack", LAMBDA x : M!AckVisits(x.rr, x.contact))

\* SipMsg.init_body(): no character of a body is lost that its length promises, and
\* nothing but a line end is made up.
BodiesKept == Holds("body", LAMBDA x : M!BodyKept(x.b, x.length))

\* SipURL: a URL is read by the next hop as what it is.
UrlsReadBack == Holds("url", A!UrlReadsBack)

\* SipURL: what is put right in a URL stays as it is.
UrlsSettle == Holds("urltext", LAMBDA x : A!UrlSettles(x.t))

\* SipURL.localStr(), SipConf: a URL of our own leads back to us.
OwnLeadsBack == Holds("own", A!OwnReached)

\* SipAddress: an address is read by the next hop as what it is.
AddressesReadBack == Holds("address", A!AddressReadsBack)

\* SipVia.localStr(): the answer to a request of our own finds its socket.
OwnViaLeadsBack == Holds("own", A!OwnViaReached)

\* Lazily parsed header fields: read, copied and written they mean the same.
FieldsKept == Holds("field", LAMBDA x : A!FieldKept(x.name, x.t))

\* SipAddressHF: a list of addresses is divided between them and nowhere else.
ListsKept == Holds("list", LAMBDA x : A!ListKept(x.as, x.spaced))

\* SipMsg: a message is taken apart and put together without loss.
MessagesKept == Holds("message", LAMBDA x : A!MessageKept(x.lines, x.end, x.body, x.compact))

\* MultipartMixBody: parts keep their types and contents.
PartsKept == Holds("parts", LAMBDA x : A!MultipartKept(x.t))

\* SdpBody: a description is read by the next hop as what it is.
SdpReadsBack == Holds("sdp", P!ReadsBack)

\* _sdp_change_finish(): origins change exactly when those of the far end do.
OriginsFollow == Holds("origins", LAMBDA x : P!OriginFollows(x.os))

\* filter_SDP(): only allowed payload types pass, with their attributes.
PolicyKept == Holds("policy", LAMBDA x : P!PolicyHolds(x.sections, x.allowed))

\* subcommand.sdp_sect_fin(): nothing private of one side is seen by the other.
GatewaySeparates == Holds("gateway", P!NothingPasses)

\* process_rtpp_result(): every subcommand is judged by its own results.
RepliesJudged == Holds("reply", LAMBDA x : P!EachItsOwn(x.subs, x.reply))

\* Rtp_proxy_cmd: a command survives being taken apart and put together.
CommandsKept ==
    Holds("command", LAMBDA x :
        P!CommandKept(x.opts, <<"id">> \o SubSeq(<<"ip", "port", "from", "w5", "w6", "w7", "w8">>, 1, x.n)
                              \o (IF x.marked THEN <<"&&">> ELSE <<>>) \o SubSeq(<<"M4", "&&", "A">>, 1, x.subs)))

\* B2BRoute.customize(), rDone(): no call can last longer than the maximum and its
\* route allow.
CreditLimited == Holds("routing", LAMBDA x : R!Limited(x.texts, x.credit, x.max))

\* B2BRoute.getCopy(): calls on the configured route leave no trace in it.
StaticUntouched == Holds("static", LAMBDA x : R!CallsApart(x.text, x.credit, x.max))

\* B2BRoute.getNHAddr(): the next hop has the family the call came with.
FamiliesKept == Holds("hosts", LAMBDA x : R!FamilyKept(x.ainfo, x.af))

\* Radius_client.process_result(): an attribute means the same however it is sent.
AttributesMean == Holds("radius", LAMBDA x : SameMeaning(x.a, x.v))

\* SipRegistrationAgent: every REGISTER comes to an end, however often it is
\* challenged, and the agent sends another one, unless it is stopped or gotreply()
\* has raised before it set its timer.
AgentKeepsTrying ==
    /\ kind = "registration" /\ sent = <<>> ~> sent # <<>> \/ dead \/ regraised
    /\ kind = "registration" /\ sent # <<>> ~> sent = <<>>

\* A call is charged for the time it took, on the route it was given and within the
\* limits of that route and of the configuration (not that of the authorisation).
BillingSound ==
    /\ RecordsSound /\ AttributesMean
    /\ CreditLimited /\ StaticUntouched /\ FamiliesKept

\* A message is matched with its transaction, finds its way, and is read as written.
MessagesSound ==
    /\ Matched /\ LoopsSeen /\ Returns /\ AcksVisit /\ BodiesKept
    /\ UrlsReadBack /\ UrlsSettle /\ OwnLeadsBack /\ OwnViaLeadsBack /\ AddressesReadBack
    /\ FieldsKept /\ ListsKept /\ MessagesKept /\ PartsKept

\* A session description survives reading, writing, the policy and the RTP proxy.
DescriptionsSound ==
    /\ SdpReadsBack /\ OriginsFollow /\ PolicyKept
    /\ GatewaySeparates /\ RepliesJudged /\ CommandsKept

\* The agent goes on registering, and what was to be played is played.
KeepsGoing == AgentKeepsTrying /\ Played
=============================================================================
