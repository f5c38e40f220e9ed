----------------------------- MODULE Addresses ------------------------------
(***************************************************************************)
(* SIP URLs and addresses as they are read and written (SipURL.py,         *)
(* SipAddress.py, SipConf.py).  A text is a sequence of tokens: the        *)
(* separators, the characters of a name that matter, and words that are    *)
(* one token each.  "Q" is a quotation mark and "BS" a backslash; an       *)
(* escaped character has a token of its own.  Nothing stands for None,     *)
(* and "my" for the objects of SipConf that become the local address when  *)
(* a message is sent.                                                      *)
(***************************************************************************)
EXTENDS Integers, Sequences, SequencesExt

Nothing == "nothing"
NoUser  == <<Nothing>>

-----------------------------------------------------------------------------
(* Texts.                                                                  *)

Special == {"@", ":", ";", "?", "&", "=", "/", " ", "<", ">", "Q"}
Escape(c) == "%" \o c
quote(s, safe) == [i \in DOMAIN s |-> IF s[i] \in Special \ safe THEN Escape(s[i]) ELSE s[i]]
unquote(s) ==
    [i \in DOMAIN s |-> IF \E c \in Special : s[i] = Escape(c)
                        THEN CHOOSE c \in Special : s[i] = Escape(c) ELSE s[i]]

\* split(), split(.., 1), strip() and join()
Split(s, sep) ==
    FoldLeft(LAMBDA acc, x : IF x = sep THEN Append(acc, <<>>)
                             ELSE [acc EXCEPT ![Len(acc)] = Append(@, x)], <<<<>>>>, s)
SplitOnce(s, sep) ==
    LET k == SelectInSeq(s, LAMBDA x : x = sep) IN
    IF k = 0 THEN <<s>> ELSE <<SubSeq(s, 1, k - 1), SubSeq(s, k + 1, Len(s))>>
lstrip(s) == LET k == SelectInSeq(s, LAMBDA x : x # " ") IN
             IF k = 0 THEN <<>> ELSE SubSeq(s, k, Len(s))
strip(s)  == LET ks == {k \in DOMAIN s : s[k] # " "} IN
             IF ks = {} THEN <<>> ELSE SubSeq(s, Min(ks), Max(ks))
Each(sep, parts) == FlattenSeq([i \in DOMAIN parts |-> <<sep>> \o parts[i]])
Joined(sep, parts) == IF parts = <<>> THEN <<>> ELSE Tail(Each(sep, parts))

\* A text that is kept as one token.
Word(t) == IF t = <<>> THEN "" ELSE t[1]

\* int(): spaces around the digits and zeros before them do not matter.
Digits == [d \in {"1", "01", "31", "5060", "5070"} |->
             CASE d \in {"1", "01"} -> 1 [] d = "31" -> 31 [] d = "5060" -> 5060 [] OTHER -> 5070]
IsInt(t)  == strip(t) \in {<<d>> : d \in DOMAIN Digits}
IntOf(t)  == Digits[strip(t)[1]]

\* A Python dict in the order of its keys: sequences of <<key, value>>.
Put(d, k, v) == LET i == SelectInSeq(d, LAMBDA e : e[1] = k) IN
                IF i = 0 THEN Append(d, <<k, v>>) ELSE [d EXCEPT ![i] = <<k, v>>]

-----------------------------------------------------------------------------
(* SipURL.                                                                 *)

Named == <<"user", "transport", "ttl", "maddr", "method", "tag">>
NoParams == [n \in Range(Named) |-> Nothing]

\* A URL; the characters of user and host and of the values of headers count.
\* headers is a dict.
Url(user, host, port) ==
    [scheme |-> "sip", user |-> user, userparams |-> <<>>, password |-> Nothing,
     host |-> host, port |-> port, params |-> NoParams, other |-> <<>>, lr |-> FALSE,
     headers |-> <<>>]

\* What SipURL() makes of a text that it refuses: it raises.
BadUrl == [Url(NoUser, <<>>, Nothing) EXCEPT !.scheme = Nothing]

\* USERNAME_SAFE, as far as it is in Special.
UsernameSafe == {"&", "=", ";", "?", "/"}

\* getParams()
getParams(u, local) ==
    LET value(n) == IF n = "transport" /\ u.params[n] = "my"
                    THEN IF local.transport \in {Nothing, "udp"} THEN Nothing ELSE local.transport
                    ELSE u.params[n]
        set == SelectSeq(Named, LAMBDA n : value(n) # Nothing)
    IN [i \in DOMAIN set |-> <<set[i], "=", value(set[i])>>]
       \o u.other \o (IF u.lr THEN <<<<"lr">>>> ELSE <<>>)

\* SipConf.port_needed()
port_needed(port, transport, local) ==
    ~(transport = "my" /\ local.transport = "udp" /\ port = "5060")

OwnPort(port, local) == IF port # "my" THEN port ELSE IF local.port = Nothing THEN "5060" ELSE local.port
OwnHost(host, local) ==
    IF host # <<"my">> THEN host ELSE <<IF local.host = Nothing THEN "host" ELSE local.host>>

\* localStr()
localStr(u, local) ==
    LET port == OwnPort(u.port, local) IN
    <<u.scheme, ":">>
    \o (IF u.user = NoUser THEN <<>>
        ELSE quote(u.user, UsernameSafe) \o Each(";", u.userparams)
             \o (IF u.password = Nothing THEN <<>> ELSE <<":", u.password>>) \o <<"@">>)
    \o OwnHost(u.host, local)
    \o (IF u.port # Nothing /\ port_needed(port, u.params["transport"], local)
        THEN <<":", port>> ELSE <<>>)
    \o Each(";", getParams(u, local))
    \o (IF u.headers = <<>> THEN <<>>
        ELSE <<"?">> \o Joined("&", [i \in DOMAIN u.headers |->
                 u.headers[i][1] \o <<"=">> \o quote(u.headers[i][2], {"/"})]))

NoLocal == [host |-> Nothing, port |-> Nothing, transport |-> Nothing]
str(u) == localStr(u, NoLocal)

\* The headers behind a question mark, each of which must have one equals sign.
ReadHeaders(t) ==
    LET hs == Split(t, "&") IN
    FoldLeft(LAMBDA d, h : Put(d, Split(h, "=")[1], unquote(Split(h, "=")[2])), <<>>, hs)
HeadersRaise(t) == \E i \in DOMAIN Split(t, "&") : Len(Split(Split(t, "&")[i], "=")) # 2

\* setParams(): one parameter.
SetParam(u, p) ==
    LET nv == SplitOnce(p, "=") IN
    CASE nv[1] = <<"lr">> -> [u EXCEPT !.lr = TRUE]
      [] Len(nv) = 2 /\ Word(nv[1]) \in Range(Named) -> [u EXCEPT !.params[Word(nv[1])] = Word(nv[2])]
      [] OTHER -> [u EXCEPT !.other = Append(@, p)]
ParamRaises(p) ==
    LET nv == SplitOnce(p, "=") IN nv[1] = <<"ttl">> /\ Len(nv) = 2 /\ ~IsInt(nv[2])

\* The port; the mistakes of others that are put right are an empty one and one
\* that is there twice.  "bad": it raises.
PortNumber(p) == IF IsInt(p) THEN ToString(IntOf(p)) ELSE "bad"
ReadPort(p) ==
    LET twice == SplitOnce(strip(p), ":") IN
    IF strip(p) = <<>> THEN Nothing
    ELSE PortNumber(IF Len(twice) = 2 /\ twice[1] # <<>> /\ twice[1] = twice[2] THEN twice[1] ELSE p)

\* Host and port; an IPv6 address is in brackets.  relaxed: From and To put up with
\* a URL that has no host.
HostPort(t, relaxed) ==
    LET isV6 == t # <<>> /\ t[1] = "["
        v6   == SplitOnce(t, "]")
        hp   == SplitOnce(IF isV6 THEN v6[Len(v6)] ELSE t, ":")
    IN CASE t = <<>> -> [host |-> <<>>, port |-> IF relaxed THEN Nothing ELSE "bad"]
         [] isV6 /\ Len(v6) = 1 -> [host |-> t, port |-> "bad"]
         [] OTHER -> [host |-> IF isV6 THEN Append(v6[1], "]") ELSE hp[1],
                      port |-> IF Len(hp) = 2 THEN ReadPort(hp[2]) ELSE Nothing]

\* What is before the first at sign is the user part.
UserPart(t) ==
    LET s == SplitOnce(t, "@") IN
    IF Len(s) = 1 THEN [user |-> <<>>, rest |-> t] ELSE [user |-> s[1], rest |-> s[2]]

\* The user part is cut at its colon, the rest at its semicolons; what is behind a
\* question mark in the last of those are headers.
ReadUrl(scheme, hasUser, up, params, hp, headers) ==
    LET uparts == Split(up[1], ";")
        plain  == [Url(IF hasUser THEN unquote(uparts[1]) ELSE NoUser, hp.host, hp.port)
                      EXCEPT !.scheme = scheme,
                             !.userparams = IF hasUser THEN Tail(uparts) ELSE <<>>,
                             !.password = IF Len(up) = 2 THEN Word(up[2]) ELSE Nothing,
                             !.headers = IF headers = <<>> THEN <<>> ELSE ReadHeaders(headers[1])]
    IN IF \/ hp.port = "bad"
          \/ headers # <<>> /\ HeadersRaise(headers[1])
          \/ \E i \in DOMAIN params : ParamRaises(params[i])
       THEN BadUrl ELSE FoldLeft(SetParam, plain, params)

\* parseSipURL()
parseSipURL(scheme, t, relaxed) ==
    LET part  == UserPart(t)
        parts == Split(part.rest, ";")
        last  == SplitOnce(parts[Len(parts)], "?")
        clean == [parts EXCEPT ![Len(parts)] = last[1]]
    IN ReadUrl(scheme, part.rest # t, SplitOnce(part.user, ":"), Tail(clean),
               HostPort(clean[1], relaxed), Tail(last))

\* A scheme that is missing is sip; tel is refused as SipConf stands.
SipURL(t, relaxed) ==
    LET p == SplitOnce(t, ":")
        scheme == IF Len(p) = 1 THEN <<"sip">> ELSE p[1]
    IN IF scheme \in {<<"sip">>, <<"sips">>} THEN parseSipURL(scheme[1], p[Len(p)], relaxed) ELSE BadUrl

\* getTAddr()
getTAddr(u) ==
    [host |-> u.host, port |-> IF u.port = Nothing THEN "5060" ELSE u.port,
     transport |-> IF u.params["transport"] = Nothing THEN "udp" ELSE u.params["transport"]]

-----------------------------------------------------------------------------
(* SipAddress.                                                             *)

\* An address: a name (<<>>: none), a URL, parameters in their order.
Address(name, url, params, hadbrace) ==
    [name |-> name, url |-> url, params |-> params, hadbrace |-> hadbrace]

\* needquotes()
NeedQuotes(name) == \E i \in DOMAIN name : name[i] \in Special \cup {"BS"}

\* localStr()
addressStr(a) ==
    LET brace == a.hadbrace \/ a.name # <<>> IN
    (CASE a.name = <<>> -> <<>>
       [] NeedQuotes(a.name) -> <<"Q">> \o a.name \o <<"Q", " ">>
       [] OTHER -> a.name \o <<" ">>)
    \o (IF brace THEN <<"<">> \o str(a.url) \o <<">">> ELSE str(a.url))
    \o Each(";", a.params)

\* findquotes(): the quotation marks behind the first one that are not escaped.
findquotes(t) == {i \in 2 .. Len(t) : t[i] = "Q" /\ t[i - 1] # "BS"}

\* The quotation mark that ends the name: the last one before the URL.
EndOfName(t) ==
    LET qs == findquotes(t)
        before(q) == ~\E i \in 2 .. q - 1 : t[i] = "<"
        inner == {q \in qs : \E r \in qs : r > q /\ ~before(r) /\ \A s \in qs : q < s => r <= s}
    IN IF inner # {} THEN CHOOSE q \in inner : \A r \in inner : q <= r
       ELSE CHOOSE q \in qs : \A r \in qs : r <= q

\* A parameter that is there twice counts with its last value, and in its place.
Placed(ps, p) == Append(SelectSeq(ps, LAMBDA q : SplitOnce(q, "=")[1] # SplitOnce(p, "=")[1]), p)
ReadParams(t) == FoldLeft(Placed, <<>>, SelectSeq(Split(t, ";"), LAMBDA p : p # <<>>))

BadAddress == Address(<<>>, BadUrl, <<>>, FALSE)

\* The texts of which an address consists; NoPieces: they cannot be told apart.
NoPieces == Address(<<>>, <<Nothing>>, <<>>, FALSE)

\* The texts of the name, the URL before the closing bracket and the parameters
\* behind it.
Bracketed(name, t) ==
    LET s == SplitOnce(t, ">") IN
    IF Len(s) = 1 THEN NoPieces ELSE Address(name, s[1], strip(s[2]), TRUE)

\* The short form without brackets, a quoted name or a plain one.
Pieces(t) ==
    LET short == SplitOnce(t, ";")
        head  == SplitOnce(t, "<")
        quoted == t # <<>> /\ t[1] = "Q"
        q     == EndOfName(t)
        url   == strip(SubSeq(t, q + 1, Len(t)))
    IN CASE Len(t) > 1 /\ SubSeq(t, 1, 2) = <<"sip", ":">> /\ Len(head) = 1 ->
              Address(<<>>, short[1], IF Len(short) = 2 THEN short[2] ELSE <<>>, FALSE)
         [] quoted /\ findquotes(t) # {} ->
              Bracketed(SubSeq(t, 2, q - 1), IF url # <<>> /\ url[1] = "<" THEN Tail(url) ELSE url)
         [] ~quoted /\ Len(head) = 2 -> Bracketed(strip(head[1]), head[2])
         [] OTHER -> NoPieces

Read(pieces, url) ==
    IF url = BadUrl THEN BadAddress
    ELSE Address(pieces.name, url, ReadParams(pieces.params), pieces.hadbrace)
ReadPieces(pieces, relaxed) ==
    IF pieces = NoPieces THEN BadAddress ELSE Read(pieces, SipURL(pieces.url, relaxed))

\* SipAddress()
SipAddress(t, relaxed) == ReadPieces(Pieces(t), relaxed)

-----------------------------------------------------------------------------
(* Properties.                                                             *)

\* What localStr() writes is read by the next hop as the same URL - user and
\* user parameters, password, IPv6 host, port, parameters and headers apart - unless
\* the user itself has a semicolon, which is written as it is; and also then the
\* text stays the same from hop to hop.  A URL without a host is read where that is
\* put up with.
UrlReadsBack(u) ==
    \A relaxed \in BOOLEAN : \A text \in {str(u)} : \A read \in {SipURL(text, relaxed)} :
        IF u.host = <<>> /\ u.port = Nothing /\ ~relaxed THEN read = BadUrl
        ELSE /\ ";" \notin Range(u.user) => read = u
             /\ str(read) = text

\* Whatever is accepted as a URL, with a port that is missing or there twice, without
\* a scheme, with a parameter or a header given twice, is sent on as a text that
\* means the same to the next hop if it has a host, and no colon of an address is
\* taken for the one before the port.
UrlSettles(text) ==
    \A relaxed \in BOOLEAN : \A read \in {SipURL(text, relaxed)} : read # BadUrl =>
        /\ read.host # <<>> => SipURL(str(read), relaxed) = read
        /\ read.port \in {Nothing} \cup {ToString(Digits[d]) : d \in DOMAIN Digits}
        /\ ":" \in Range(read.host) => read.host[1] = "["

\* A URL of our own leads back to the socket it is sent from, whatever is left
\* out because it is the default.
OwnReached(local) ==
    LET own == [Url(<<"a">>, <<"my">>, "my") EXCEPT !.params["transport"] = "my"] IN
    getTAddr(SipURL(localStr(own, local), FALSE)) = [local EXCEPT !.host = <<@>>]

\* An address is read as it was written: brackets, quotation marks and
\* semicolons of the name, the URL and the parameters are not mixed up.
AddressReadsBack(a) ==
    \A text \in {addressStr(a)}, relaxed \in BOOLEAN :
        SipAddress(text, relaxed) = [a EXCEPT !.hadbrace = @ \/ a.name # <<>>]
=============================================================================
