---------------------------- MODULE HeaderFields ----------------------------
(***************************************************************************)
(* How a SIP message is taken apart and put together (SipMsg.py,           *)
(* SipHeader.py), and the header fields that are read when somebody asks   *)
(* for them and written back by those that forward them: Sip*.py,          *)
(* MsgBody.py and MultipartMixBody.py.                                     *)
(*                                                                         *)
(* Texts are sequences of tokens as in Addresses.  "R" and "N" are the two *)
(* characters of a line end.  Names of header fields have no case, since   *)
(* SipHeader() lowers it.                                                  *)
(***************************************************************************)
EXTENDS Addresses, FiniteSets, FiniteSetsExt, TLC

Unreadable == [error |-> TRUE]      \* parse() raises

-----------------------------------------------------------------------------
(* Texts.                                                                  *)

Second(p) == IF Len(p) > 1 THEN p[2] ELSE <<>>
Stripped(parts) == [i \in DOMAIN parts |-> strip(parts[i])]

\* split(None, 1)
FirstWord(t) == LET p == SplitOnce(lstrip(t), " ") IN IF Len(p) = 1 THEN p ELSE <<p[1], lstrip(p[2])>>

Number(n) == <<ToString(n)>>

-----------------------------------------------------------------------------
(* What the classes of header fields read and write.                       *)

ReadCSeq(t) ==
    LET w == FirstWord(t) IN
    IF Len(w) = 2 /\ IsInt(w[1]) /\ Len(FirstWord(w[2])) = 1
    THEN [cseq |-> IntOf(w[1]), method |-> w[2]] ELSE Unreadable
WriteCSeq(v) == Number(v.cseq) \o <<" ">> \o v.method

ReadRAck(t) ==
    LET w == FirstWord(t)
        x == FirstWord(Second(w)) IN
    IF Len(w) = 2 /\ Len(x) = 2 /\ IsInt(w[1]) /\ IsInt(x[1])
    THEN [rseq |-> IntOf(w[1]), cseq |-> IntOf(x[1]), method |-> x[2]] ELSE Unreadable
WriteRAck(v) == Number(v.rseq) \o <<" ">> \o WriteCSeq(v)

ReadNumeric(t)  == IF IsInt(t) THEN [number |-> IntOf(t)] ELSE Unreadable
WriteNumeric(v) == Number(v.number)

\* The value of a parameter and what follows: a quoted text ends at the next
\* quotation mark, anything else at the next semicolon.
ReasonValue(name, t) ==
    LET quoted == name = <<"text">> /\ t # <<>> /\ t[1] = "Q"
        q == SplitOnce(Tail(t), "Q")
        s == SplitOnce(t, ";")
    IN IF quoted THEN <<q[1], Second(SplitOnce(Second(q), ";"))>> ELSE <<s[1], Second(s)>>

\* One parameter after the other; cause is -1 as long as there is none.
RECURSIVE ReasonParams(_, _)
ReasonParam(v, name, x) ==
    CASE name = <<"cause">> /\ IsInt(x) -> [v EXCEPT !.cause = IntOf(x)]
      [] name = <<"text">>              -> [v EXCEPT !.reason = x]
      [] OTHER                          -> [v EXCEPT !.readable = FALSE]
ReasonNext(v, name, x) == ReasonParams(ReasonParam(v, name, x[1]), x[2])
ReasonParams(v, t) ==
    IF lstrip(t) = <<>> \/ ~v.readable THEN v
    ELSE LET p == SplitOnce(lstrip(t), "=") IN ReasonNext(v, p[1], ReasonValue(p[1], lstrip(Second(p))))

ReasonOf(v) == IF v.readable /\ v.cause # -1 THEN v ELSE Unreadable
ReadReason(t) ==
    LET p == SplitOnce(t, ";") IN
    IF Len(p) = 1 THEN Unreadable
    ELSE ReasonOf(ReasonParams([protocol |-> strip(p[1]), cause |-> -1, reason |-> <<Nothing>>,
                                readable |-> TRUE], p[2]))
WriteReason(v) ==
    v.protocol \o <<";", " ", "cause", "=">> \o Number(v.cause)
    \o (IF v.reason = <<Nothing>> THEN <<>> ELSE <<";", " ", "text", "=", "Q">> \o v.reason \o <<"Q">>)

\* One parameter of Replaces; a tag that is not there is written as None.
ReplacesParam(v, p) ==
    LET p2 == SplitOnce(p, "=") IN
    CASE Len(p2) = 2 /\ p2[1] = <<"from-tag">> -> [v EXCEPT !.from_tag = p2[2]]
      [] Len(p2) = 2 /\ p2[1] = <<"to-tag">>   -> [v EXCEPT !.to_tag = p2[2]]
      [] p = <<"early-only">>                  -> [v EXCEPT !.early_only = TRUE]
      [] OTHER                                 -> [v EXCEPT !.params = Append(@, p)]
ReadReplaces(t) ==
    LET ps == Split(t, ";") IN
    FoldLeft(ReplacesParam, [call_id |-> ps[1], from_tag |-> <<Nothing>>, to_tag |-> <<Nothing>>,
                             early_only |-> FALSE, params |-> <<>>], Tail(ps))
WriteReplaces(v) ==
    LET tag(x) == IF x = <<Nothing>> THEN <<"None">> ELSE x IN
    v.call_id \o <<";", "from-tag", "=">> \o tag(v.from_tag) \o <<";", "to-tag", "=">> \o tag(v.to_tag)
    \o (IF v.early_only THEN <<";", "early-only">> ELSE <<>>) \o Each(";", v.params)

ReadContentType(t) ==
    LET ps == Split(t, ";")
        nv == [i \in 1 .. Len(ps) - 1 |-> SplitOnce(ps[i + 1], "=")]
    IN IF \E i \in DOMAIN nv : Len(nv[i]) = 1 THEN Unreadable
       ELSE [name |-> ps[1], params |-> FoldLeft(LAMBDA d, e : Put(d, e[1], e[2]), <<>>, nv)]
Pairs(params) == [i \in DOMAIN params |-> params[i][1] \o <<"=">> \o params[i][2]]
WriteContentType(v) == v.name \o Each(";", Pairs(v.params))

ReadWarning(t) ==
    LET w == FirstWord(t)
        x == FirstWord(Second(w))
        inner(s) == LET is == {i \in DOMAIN s : s[i] # "Q"} IN
                    IF is = {} THEN <<>> ELSE SubSeq(s, Min(is), Max(is))
    IN IF Len(w) = 2 /\ Len(x) = 2 /\ IsInt(w[1])
       THEN [code |-> IntOf(w[1]), agent |-> x[1], text |-> inner(x[2])] ELSE Unreadable
WriteWarning(v) == Number(v.code) \o <<" ">> \o v.agent \o <<" ", "Q">> \o v.text \o <<"Q">>

\* Allow and Supported.
ReadList(t) == [items |-> Stripped(Split(t, ","))]
WriteAllow(v) == Tail(Joined(",", [i \in DOMAIN v.items |-> <<" ">> \o v.items[i]]))
WriteSupported(v) == Joined(",", v.items)

\* Three dashes are looked for, hence a fifth number is refused; fewer than four
\* are read, but cannot be written.
ReadCiscoGUID(t) ==
    LET ns == Split(t, "-") IN
    IF Len(ns) = 4 /\ \A i \in 1 .. 4 : IsInt(ns[i]) THEN [guid |-> [i \in 1 .. 4 |-> IntOf(ns[i])]]
    ELSE Unreadable
WriteCiscoGUID(v) == Joined("-", [i \in 1 .. 4 |-> Number(v.guid[i])])

\* rsplit(.., 1)
SplitLast(t, sep) == LET p == SplitOnce(Reverse(t), sep) IN
                     IF Len(p) = 1 THEN p ELSE <<Reverse(p[2]), Reverse(p[1])>>

\* The host, which may be an IPv6 address, and what follows it.
HostPart(t) ==
    IF t[1] = "[" THEN LET p == SplitOnce(t, "]") IN <<p[1] \o <<"]">>, SplitOnce(p[2], ":")>>
    ELSE <<SplitOnce(t, ":")[1], SplitOnce(t, ":")>>

\* The port, which some devices send twice (Nothing: there is none; "bad": it
\* cannot be read).
ViaPort(p) ==
    LET twice == SplitOnce(p, ":") IN
    PortNumber(IF Len(twice) = 2 /\ twice[1] = twice[2] THEN twice[1] ELSE p)

ViaParams(nv) == FoldLeft(LAMBDA d, e : Put(d, e[1], IF Len(e) = 2 THEN e[2] ELSE <<Nothing>>), <<>>, nv)
ViaOf(proto, host, port, ps) ==
    IF Len(proto) = 1 \/ port = "bad" THEN Unreadable
    ELSE [sipver |-> proto[1], transport |-> proto[2], hostname |-> host, port |-> port,
          params |-> ViaParams([i \in DOMAIN ps |-> SplitOnce(ps[i], "=")])]
ViaParts(proto, hp, ps) ==
    ViaOf(proto, hp[1], IF Len(hp[2]) = 1 THEN Nothing ELSE ViaPort(hp[2][2]), ps)
ViaFields(proto, hs) == IF hs[1] = <<>> THEN Unreadable ELSE ViaParts(proto, HostPart(hs[1]), Tail(hs))
ViaWords(w) == IF Len(w) = 1 THEN Unreadable
               ELSE ViaFields(SplitLast(w[1], "/"), Stripped(Split(w[2], ";")))
ReadVia(t) == ViaWords(FirstWord(t))

\* The transport of our own Via: that of the socket, secure if it is a web socket.
Upper == [n \in {"udp", "tcp", "ws", "wss"} |->
            CASE n = "udp" -> "UDP" [] n = "tcp" -> "TCP" [] OTHER -> "WSS"]
OwnTransport(t, local) ==
    IF t # <<"my">> THEN t ELSE <<Upper[IF local.transport = Nothing THEN "udp" ELSE local.transport]>>

\* localStr(): the port of our own Via is left out if it is the default.
WriteVia(v, local) ==
    v.sipver \o <<"/">> \o OwnTransport(v.transport, local) \o <<" ">>
    \o OwnHost(v.hostname, local)
    \o (IF \/ v.port = Nothing
           \/ v.port = "my" /\ local.port # Nothing /\ ~port_needed(local.port, v.transport[1], local)
        THEN <<>> ELSE <<":", OwnPort(v.port, local)>>)
    \o Each(";", [i \in DOMAIN v.params |->
                    IF v.params[i][2] = <<Nothing>> THEN v.params[i][1]
                    ELSE v.params[i][1] \o <<"=">> \o v.params[i][2]])

-----------------------------------------------------------------------------
(* SipAddressHF.py, SipHeader.py: classes, names, lists.                   *)

AddressOrError(a) == IF a = BadAddress THEN Unreadable ELSE a
ReadAddress(t, relaxed) == AddressOrError(SipAddress(t, relaxed))

\* hf_types: the name a field goes by (hf_names[0]) and its class.
FixName(name) ==
    CASE name = "v" -> "via"     [] name = "f" -> "from"          [] name = "t" -> "to"
      [] name = "i" -> "call-id" [] name = "m" -> "contact"       [] name = "c" -> "content-type"
      [] name = "r" -> "refer-to" [] name = "l" -> "content-length" [] name = "h323-conf-id" -> "cisco-guid"
      [] OTHER -> name

\* getCanName(): k is written and not known.
Compact(name) ==
    CASE name = "via" -> "v" [] name = "from" -> "f" [] name = "to" -> "t" [] name = "call-id" -> "i"
      [] name = "contact" -> "m" [] name = "supported" -> "k" [] OTHER -> name

AddressNames == {"from", "to", "contact", "route", "record-route", "refer-to", "diversion"}

\* parse() of each class; the others have nothing to parse.  For addresses, see
\* ReadAddress.
Parse(name, t) ==
    CASE name = "via"          -> ReadVia(t)
      [] name = "cseq"         -> ReadCSeq(t)
      [] name = "rack"         -> ReadRAck(t)
      [] name = "expires"      -> ReadNumeric(t)
      [] name = "reason"       -> ReadReason(t)
      [] name = "replaces"     -> ReadReplaces(t)
      [] name = "content-type" -> ReadContentType(t)
      [] name = "warning"      -> ReadWarning(t)
      [] name \in {"allow", "supported"} -> ReadList(t)
      [] name = "cisco-guid"   -> ReadCiscoGUID(t)
      [] OTHER                 -> [text |-> t]
Written(name, v) ==
    CASE name = "via"          -> WriteVia(v, NoLocal)
      [] name = "cseq"         -> WriteCSeq(v)
      [] name = "rack"         -> WriteRAck(v)
      [] name = "expires"      -> WriteNumeric(v)
      [] name = "reason"       -> WriteReason(v)
      [] name = "replaces"     -> WriteReplaces(v)
      [] name = "content-type" -> WriteContentType(v)
      [] name = "warning"      -> WriteWarning(v)
      [] name = "allow"        -> WriteAllow(v)
      [] name = "supported"    -> WriteSupported(v)
      [] name = "cisco-guid"   -> WriteCiscoGUID(v)
      [] OTHER                 -> v.text

\* A header field: its text, and once it is parsed its value.
Field(name, t) == [name |-> FixName(name), parsed |-> FALSE, text |-> t, v |-> Unreadable]
getBody(h) == IF h.parsed THEN h ELSE [h EXCEPT !.parsed = TRUE, !.v = Parse(h.name, h.text)]
fieldStr(h) == IF h.parsed THEN Written(h.name, h.v) ELSE h.text

\* getCopy(): a Warning is copied as if it was parsed.
fieldCopy(h) ==
    CASE h.parsed           -> [h EXCEPT !.text = <<>>]
      [] h.name = "warning" -> [h EXCEPT !.parsed = TRUE, !.text = <<>>,
                                          !.v = [code |-> 399, agent |-> <<"host">>, text |-> <<"None">>]]
      [] OTHER              -> Field(h.name, h.text)

\* SipAddressHF(): the commas that divide addresses are outside brackets and
\* quotation marks.
Count(t, c) == Cardinality({i \in DOMAIN t : t[i] = c})
Divides(t, k) ==
    LET before == SubSeq(t, 1, k - 1)
        o == Count(before, "<")
        q == Count(before, "Q") IN
    /\ t[k] = "," /\ o = Count(before, ">")
    /\ IF o = 0 THEN q = 0 ELSE q % 2 = 0

RECURSIVE Csv(_)
Csv(t) ==
    LET ks == {k \in DOMAIN t : Divides(t, k)} IN
    IF ks = {} THEN <<t>>
    ELSE <<SubSeq(t, 1, Min(ks) - 1)>> \o Csv(SubSeq(t, Min(ks) + 1, Len(t)))

\* ESipHeaderCSV: the bodies of the fields that one line stands for.
Bodys(name, t) ==
    CASE name = "via" -> Split(t, ",")
      [] name = "contact" /\ t = <<"*">> -> <<t>>
      [] name \in AddressNames -> Csv(t)
      [] OTHER -> <<t>>

-----------------------------------------------------------------------------
(* SipMsg.py, MsgBody.py.                                                  *)

RN == <<"R", "N">>
At(t, d) == {k \in 1 .. Len(t) - Len(d) + 1 : SubSeq(t, k, k + Len(d) - 1) = d}

\* split(d, 1) where the separator d is longer than one character.
SplitAt(t, d) == IF At(t, d) = {} THEN <<t>>
                 ELSE <<SubSeq(t, 1, Min(At(t, d)) - 1), SubSeq(t, Min(At(t, d)) + Len(d), Len(t))>>

\* The empty line before the body, in the order in which it is looked for.
Delimiters == <<RN \o RN, <<"R", "R">>, <<"N", "N">>>>
LocateBody(buf) ==
    LET k == SelectInSeq(Delimiters, LAMBDA d : At(buf, d) # {}) IN
    IF k = 0 THEN <<buf, <<>>>> ELSE SplitAt(buf, Delimiters[k])

splitlines(t) ==
    LET ends == {i \in DOMAIN t : t[i] = "N" \/ (t[i] = "R" /\ (i = Len(t) \/ t[i + 1] # "N"))}
        kept == SelectSeq([i \in DOMAIN t |-> i], LAMBDA i : t[i] # "R" \/ i \in ends)
    IN Split([j \in DOMAIN kept |-> IF kept[j] \in ends THEN "N" ELSE t[kept[j]]], "N")

\* A line that begins with a space goes on with the one before, from the third on.
Unfold(acc, line) ==
    IF line = <<>> \/ line[1] = " "
    THEN [acc EXCEPT ![Len(acc)] = @ \o <<" ">> \o strip(line)] ELSE Append(acc, line)

Header(line) ==
    LET p == Stripped(SplitOnce(line, ":"))
        bs == Bodys(FixName(p[1][1]), p[2])
    IN [i \in DOMAIN bs |-> Field(p[1][1], bs[i])]

Mandatory == {"via", "to", "from", "cseq"}
DefaultType == <<"application/sdp">>

\* The fields of the header, and the type that init_body() gives to the body: that
\* of the last Content-Type.  ok: no header field is missing.
Sorted(startline, all, content) ==
    LET types == SelectSeq(all, LAMBDA h : h.name = "content-type")
        hs    == SelectSeq(all, LAMBDA h : h.name \notin {"content-type", "content-length"})
    IN [startline |-> startline, headers |-> hs,
        ok   |-> Mandatory \subseteq {hs[i].name : i \in DOMAIN hs},
        body |-> [content |-> content, parsed |-> FALSE,
                  mtype |-> IF types = <<>> THEN DefaultType
                            ELSE WriteContentType(ReadContentType(types[Len(types)].text))]]

Unfolded(raw) == FoldLeft(Unfold, SubSeq(raw, 1, 2), SubSeq(raw, 3, Len(raw)))
Headers(lines) == FlattenSeq([i \in 1 .. Len(lines) - 1 |-> Header(lines[i + 1])])
Parsed(lines, content) == Sorted(lines[1], Headers(lines), content)
InParts(cut) == Parsed(Unfolded(splitlines(cut[1])), cut[2])

SipMsg(buf) == InParts(LocateBody(buf))

\* __str__() and localStr(.., compact)
msgStr(m, compact) ==
    LET name(n) == IF compact THEN Compact(n) ELSE n
        line(n, t) == <<n, ":", " ">> \o t \o RN
    IN m.startline \o RN
       \o FlattenSeq([i \in DOMAIN m.headers |-> line(name(m.headers[i].name), fieldStr(m.headers[i]))])
       \o (IF m.body.content = <<>> THEN <<>>
           ELSE line(IF compact THEN "c" ELSE "content-type", m.body.mtype))
       \o line(IF compact THEN "l" ELSE "content-length", Number(Len(m.body.content)))
       \o RN \o m.body.content

\* MsgBody.parse(); what SDP and several parts are read into is Sdp and
\* ReadMultipart, other types stay as they are.
bodyParse(b) == [b EXCEPT !.parsed = TRUE]

\* MsgBody.getCopy(): a body that nobody has parsed is taken for SDP.
bodyCopy(b) == IF b.parsed THEN b ELSE [b EXCEPT !.mtype = DefaultType]
msgCopy(m) == [m EXCEPT !.headers = [i \in DOMAIN @ |-> fieldCopy(@[i])], !.body = bodyCopy(@)]

-----------------------------------------------------------------------------
(* MultipartMixBody.py; "--b" is the boundary.                             *)

Blank == {" ", "R", "N"}
lstripLines(t) == LET k == SelectInSeq(t, LAMBDA x : x \notin Blank) IN
                  IF k = 0 THEN <<>> ELSE SubSeq(t, k, Len(t))

\* One part: its type is that of its last Content-Type field, which here must have
\* its long name and is parsed at once; NoType if there is none.
NoType == <<Nothing>>
ReadPart(t) ==
    LET p == SplitAt(lstripLines(t), RN \o RN)
        types == SelectSeq(splitlines(p[1]), LAMBDA l : l # <<>> /\ l[1] = "content-type")
        ctype(l) == ReadContentType(strip(SplitOnce(l, ":")[2]))
    IN IF Len(p) = 1 \/ \E i \in DOMAIN types : ctype(types[i]) = Unreadable THEN Unreadable
       ELSE [content |-> p[2],
             mtype |-> IF types = <<>> THEN NoType ELSE WriteContentType(ctype(types[Len(types)]))]

ReadMultipart(t) ==
    LET bs == Split(t, "--b")
        last == lstripLines(Reverse(lstripLines(bs[Len(bs)])))
        parts == [i \in 1 .. Len(bs) - 2 |-> ReadPart(bs[i + 1])]
    IN IF Len(bs) <= 2 \/ bs[1] # <<>> \/ last # <<"--">> \/ Unreadable \in Range(parts) THEN Unreadable
       ELSE [parts |-> parts]
TypeStr(mtype) == IF mtype = NoType THEN <<"None">> ELSE mtype
WriteMultipart(v) ==
    FlattenSeq([i \in DOMAIN v.parts |->
        <<"--b">> \o RN \o <<"content-type", ":", " ">> \o TypeStr(v.parts[i].mtype) \o RN \o RN \o v.parts[i].content])
    \o <<"--b", "--">> \o RN

-----------------------------------------------------------------------------
(* Properties.                                                             *)

\* A header field that was read and is written again means the same to the next
\* hop, and a copy means the same whether it was made before or after the field was
\* read - save that of a Warning nobody has read.  Replaces is held to have both
\* tags.
FieldKept(name, t) ==
    \A h \in {Field(name, t)} : \A p \in {getBody(h)} :
        (/\ p.v # Unreadable
         /\ name = "replaces" => <<Nothing>> \notin {p.v.from_tag, p.v.to_tag}) =>
        \A c \in {Field(name, fieldStr(p)), fieldCopy(p)}
                 \cup (IF name = "warning" THEN {} ELSE {fieldCopy(h)}) : getBody(c).v = p.v

\* A list of addresses falls apart into exactly these, commas in names and URLs
\* notwithstanding, unless a name has brackets or quotation marks of its own; if a
\* space follows the comma, they are read as they are if they have brackets and
\* their names are not quoted.  In any case no character is lost, and no piece is
\* a list again.
ListKept(as, spaced) ==
    LET plain(a) == Range(a.name) \cap {"<", ">", "Q"} = {}
        read(i) == i > 1 /\ spaced => as[i].hadbrace /\ ~NeedQuotes(as[i].name)
        space(i) == IF spaced /\ i > 1 THEN <<" ">> ELSE <<>>
    IN \A text \in {Joined(",", [i \in DOMAIN as |-> space(i) \o addressStr(as[i])])} :
       \A pieces \in {Csv(text)} :
       /\ Joined(",", pieces) = text
       /\ \A i \in DOMAIN pieces : Csv(pieces[i]) = <<pieces[i]>>
       /\ (\A i \in DOMAIN as : plain(as[i])) =>
            /\ Len(pieces) = Len(as)
            /\ \A i \in DOMAIN as : \A piece \in {pieces[i]} : read(i) =>
                 ReadAddress(piece, FALSE) = [as[i] EXCEPT !.hadbrace = @ \/ as[i].name # <<>>]

\* What of a message counts for its receiver.
View(m) == <<m.startline, [i \in DOMAIN m.headers |->
                <<m.headers[i].name, lstrip(fieldStr(m.headers[i]))>>], m.body.content>>
FieldsIn(line) == CASE line[1] \in {" ", "content-type"} -> 0
                    [] line[1] = "via"                  -> 1 + Count(line, ",")
                    [] OTHER                            -> 1
Text(head, end, body) ==
    FlattenSeq([i \in DOMAIN head |-> IF head[i] = "end" THEN end ELSE <<head[i]>>])
    \o end \o end \o body

\* The next hop reads s where m was sent, and c where a copy of it was sent: of the
\* body's type a copy keeps only that of SDP, unless the body was parsed.
Arrives(m, s, c, parsed) ==
    /\ View(s) = View(m) /\ View(c) = View(m)
    /\ m.body.content # <<>> => s.body.mtype = m.body.mtype
    /\ m.body.content # <<>> /\ (parsed \/ m.body.mtype = DefaultType) => c.body.mtype = m.body.mtype

Asked(m, parsed) == IF parsed THEN [m EXCEPT !.body = bodyParse(@)] ELSE m

Passes(m, compact) ==
    \A parsed \in BOOLEAN : \A copy \in {msgCopy(Asked(m, parsed))} :
    \A s \in {msgStr(m, compact)}, t \in {msgStr(copy, compact)} :
        \A m1 \in {SipMsg(s)}, m2 \in {SipMsg(t)} : Arrives(m, m1, m2, parsed)

\* A message is divided at the empty line behind its header, whatever its body
\* looks like if its lines end as they should; folded lines are one field, and a
\* line with several Vias is as many fields.  What is sent on is read by the next
\* hop as the same fields and body, in the compact form too - save Supported - and
\* so is a copy.
MessageKept(lines, end, body, compact) ==
    end = RN \/ "R" \notin Range(body) =>
    \A text \in {Text(Joined("end", <<<<"INVITE">>>> \o lines), end, body)} :
    \A m \in {SipMsg(text)} :
        /\ m.body.content = body
        /\ Len(m.headers) = FoldLeft(LAMBDA n, l : n + FieldsIn(l), 0, lines)
        /\ m.ok /\ (compact => \A i \in DOMAIN m.headers : m.headers[i].name # "supported")
             => Passes(m, compact)

\* The parts of a body that consists of several keep their contents when it is
\* written again, and their types if they have one: a part without is given the
\* type None.  Their other header fields are not kept.
MultipartKept(t) ==
    \A v \in {ReadMultipart(t)} : v # Unreadable =>
        \A s \in {WriteMultipart(v)} :
            ReadMultipart(s) = [v EXCEPT !.parts = [i \in DOMAIN @ |->
                                   [@[i] EXCEPT !.mtype = TypeStr(@)]]]

OwnVia == [sipver |-> <<"SIP", "/", "2.0">>, transport |-> <<"my">>, hostname |-> <<"my">>,
           port |-> "my", params |-> <<<<<<"rport">>, <<Nothing>>>>>>]
Reaches(v, local) ==
    /\ v.hostname = <<local.host>> /\ v.transport = <<Upper[local.transport]>>
    /\ (IF v.port = Nothing THEN "5060" ELSE v.port) = local.port

\* A response to a request of ours comes back to the socket the request was sent
\* from, whatever its Via leaves out because it is the default.
OwnViaReached(local) == Reaches(ReadVia(WriteVia(OwnVia, local)), local)
=============================================================================
