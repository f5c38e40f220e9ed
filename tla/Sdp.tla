-------------------------------- MODULE Sdp --------------------------------
(***************************************************************************)
(* Session descriptions: reading and writing them (SdpBody.py,             *)
(* SdpMediaDescription.py), the origin the B2BUA puts into those it passes *)
(* on, and the payload types its policy lets through.                      *)
(*                                                                         *)
(* A description on the wire is a sequence of lines [k, v].  A connection  *)
(* address, an origin and the value of another header are model values, an *)
(* attribute is [name, pt, value]; pt is the payload type rtpmap and fmtp  *)
(* begin with, -1 in others.                                               *)
(***************************************************************************)
EXTENDS Integers, Sequences, SequencesExt

Absent == "absent"

Line(k, v) == [k |-> k, v |-> v]
Attr(name, pt, value) == [name |-> name, pt |-> pt, value |-> value]

\* all_headers without c; top_hdrs_req.
FirstHalf  == <<"v", "o", "s">>
SecondHalf == <<"b", "t">>
Required   == {"v", "o", "s", "t"}

EmptyBody == [head |-> [k \in Required \cup {"b"} |-> Absent], c |-> Absent,
              attrs |-> <<>>, sections |-> <<>>]

-----------------------------------------------------------------------------
(* SdpBody.__init__()                                                      *)

\* addHeader() of the section that is being read.
addHeader(sect, line) ==
    IF line.k = "a" THEN [sect EXCEPT !.attrs = Append(@, line.v)]
    ELSE [sect EXCEPT ![line.k] = line.v]

\* One line; c holds the connection of the session until the end.
ReadLine(acc, line) ==
    LET n == Len(acc.body.sections) IN
    IF line.k = "m"
    THEN [acc EXCEPT !.body.sections =
             Append(@, [m |-> line.v, c |-> Absent, b |-> Absent, attrs |-> <<>>])]
    ELSE IF n > 0 THEN [acc EXCEPT !.body.sections[n] = addHeader(@, line)]
    ELSE CASE line.k = "c" -> [acc EXCEPT !.c = line.v]
           [] line.k = "a" -> [acc EXCEPT !.body.attrs = Append(@, line.v)]
           [] OTHER        -> [acc EXCEPT !.body.head[line.k] = line.v]

\* Mistake: the connection of the session replaces those of the sections.
SharesAll(sect, c) == IF c = Absent THEN sect ELSE [sect EXCEPT !.c = c]

\* A section without a connection of its own takes that of the session.
SharesC(sect, c) == IF c = Absent \/ sect.c # Absent THEN sect ELSE [sect EXCEPT !.c = c]

\* The description, and whether no mandatory header is missing.
parseBody(lines) ==
    LET acc   == FoldLeft(ReadLine, [body |-> EmptyBody, c |-> Absent], lines)
        sects == [i \in DOMAIN acc.body.sections |-> SharesC(acc.body.sections[i], acc.c)]
        body  == [acc.body EXCEPT !.sections = sects,
                                  !.c = IF sects = <<>> THEN acc.c ELSE @]
    IN
    [body |-> body,
     ok   |-> /\ \A k \in Required : body.head[k] # Absent
              /\ \A i \in DOMAIN sects : sects[i].c # Absent]

-----------------------------------------------------------------------------
(* localStr()                                                              *)

IfPresent(k, v) == IF v = Absent THEN <<>> ELSE <<Line(k, v)>>
AttrLines(attrs) == [i \in DOMAIN attrs |-> Line("a", attrs[i])]

\* SdpMediaDescription.localStr()
sectionStr(sect, noC) ==
    <<Line("m", sect.m)>> \o (IF noC THEN <<>> ELSE IfPresent("c", sect.c))
    \o IfPresent("b", sect.b) \o AttrLines(sect.attrs)

\* SdpOrigin.localStr(): an address of ours is written as the one we send from.
originStr(o, local) == IF local # Absent /\ o = "my" THEN local ELSE o

\* The connection that is written once for the session: that of the only
\* section, or that of the first two if they have the same.
HoistedC(body) ==
    LET s == body.sections IN
    CASE Len(s) = 1                                              -> s[1].c
      [] Len(s) > 1 /\ body.c = Absent /\ s[1].c = s[2].c -> s[1].c
      [] OTHER                                                   -> Absent

localStr(body, local) ==
    LET top == HoistedC(body)
        head(ks) == FlattenSeq([i \in DOMAIN ks |-> IfPresent(ks[i],
                        IF ks[i] = "o" THEN originStr(body.head["o"], local)
                        ELSE body.head[ks[i]])])
    IN
    head(FirstHalf) \o IfPresent("c", IF top # Absent THEN top ELSE body.c)
    \o head(SecondHalf) \o AttrLines(body.attrs)
    \o FlattenSeq([i \in DOMAIN body.sections |->
                      sectionStr(body.sections[i], top # Absent /\ body.sections[i].c = top)])

\* __str__()
str(body) == localStr(body, Absent)

-----------------------------------------------------------------------------
(* The origin of a body that is passed on: _sdp_change_finish().           *)

NewVersion(own, remote, o) == remote.version # o.version

\* own and the last origin of the far end (id 0: none), after a body with origin
\* o; next is the identity SdpOrigin() would give.
NextOrigin(own, remote, o, next) ==
    CASE remote.id = 0                                  -> own
      [] remote.id # 0 /\ remote.id # o.id              -> [id |-> next, version |-> next]
      [] OTHER -> IF NewVersion(own, remote, o) THEN [own EXCEPT !.version = @ + 1] ELSE own

-----------------------------------------------------------------------------
(* filter_SDP()                                                            *)

\* The payload type of an encoding in a section, -1 if it has none: the first.
getPTbyName(sect, name) ==
    LET at == SelectInSeq(sect.attrs, LAMBDA a : a.name = "rtpmap" /\ a.value = name) IN
    IF at = 0 THEN -1 ELSE sect.attrs[at].pt

optimize_a(sect) ==
    [sect EXCEPT !.attrs = SelectSeq(@, LAMBDA a :
        ~(a.name \in {"rtpmap", "fmtp"} /\ a.pt # -1 /\ ~Contains(sect.m.formats, a.pt)))]

\* The payload types a policy of numbers and names allows in a section.
AllowedPts(sect, first, allowed) ==
    {p.pt : p \in {q \in allowed : q.pt # -1}} \cup
    {getPTbyName(sect, p.name) : p \in {q \in allowed : q.pt = -1}}

filterSection(sect, first, allowed) ==
    LET pts  == AllowedPts(sect, first, allowed)
        left == SelectSeq(sect.m.formats, LAMBDA f : f \in pts)
        cut  == [sect EXCEPT !.m.formats = left]
    IN  IF ~sect.m.av THEN sect
        ELSE IF Len(left) < Len(sect.m.formats) THEN optimize_a(cut) ELSE cut

\* Sections in order; a section that loses all its payload types ends it.
filter_SDP(sections, allowed) ==
    LET out == [i \in DOMAIN sections |-> filterSection(sections[i], sections[1], allowed)] IN
    [ok |-> \A i \in DOMAIN out : out[i].m.av => out[i].m.formats # <<>>, sections |-> out]

-----------------------------------------------------------------------------
(* Properties.                                                             *)

Media(av, formats) == [av |-> av, formats |-> formats]
Codecs == <<Attr("rtpmap", 0, "PCMU"), Attr("rtpmap", 96, "opus"), Attr("fmtp", 96, "x"),
            Attr("rtpmap", 97, "opus"), Attr("rtpmap", 98, "VP8"), Attr("ptime", -1, "20")>>
Picked(S) == SelectSeq(Codecs, LAMBDA a : a \in S)

\* What a far end writes: a session connection or none, sections with or without.
Written ==
    [missing : Required \cup {Absent}, c : {Absent, "A", "B"}, ours : BOOLEAN,
     sects : UNION {[1 .. n -> [c : {Absent, "A", "B"}, b : {Absent, "b"}]] : n \in 0 .. 3}]
LinesOf(w) ==
    LET head(k) == IF k = w.missing THEN <<>>
                   ELSE <<Line(k, IF k = "o" THEN "theirs" ELSE "x")>>
        sect(s) == <<Line("m", Media(TRUE, <<0>>))>> \o IfPresent("c", s.c) \o
                   IfPresent("b", s.b) \o <<Line("a", Codecs[1])>>
    IN  head("v") \o head("o") \o head("s") \o IfPresent("c", w.c) \o head("t")
        \o <<Line("a", Codecs[6])>> \o FlattenSeq([i \in DOMAIN w.sects |-> sect(w.sects[i])])

\* A description that is accepted gives every section the connection its writer
\* meant, and is read by the next hop as what it is, however many connections are
\* written once for the session; only the origin the RTP proxy session has put in
\* its place (ours) is written with the address we send from.
ReadsBack(w) ==
    LET r   == parseBody(LinesOf(w))
        fwd == [r EXCEPT !.body.head["o"] = IF w.ours THEN "my" ELSE @]
    IN
    /\ r.ok = (w.missing = Absent /\ \A i \in DOMAIN w.sects : {w.c, w.sects[i].c} # {Absent})
    /\ r.ok => /\ \A i \in DOMAIN w.sects :
                     r.body.sections[i].c = (IF w.sects[i].c # Absent THEN w.sects[i].c ELSE w.c)
               /\ parseBody(str(r.body)) = r
               /\ parseBody(localStr(fwd.body, "local")) =
                     [r EXCEPT !.body.head["o"] = IF w.ours THEN "local" ELSE @]

\* The origins of bodies that are passed on tell the other side exactly what those
\* of the far end tell us: a body with the same origin as the one before it goes
\* out with the same origin, another version goes out as a higher version of the
\* same session, another session as another session.
OriginFollows(os) ==
    LET Next(acc, o) ==
            [acc EXCEPT !.own = NextOrigin(acc.own, acc.remote, o, acc.next),
                        !.remote = o, !.next = @ + 1,
                        !.sent = Append(@, NextOrigin(acc.own, acc.remote, o, acc.next))]
        sent == FoldLeft(Next, [own |-> [id |-> 10, version |-> 10], next |-> 20,
                                remote |-> [id |-> 0, version |-> 0], sent |-> <<>>], os).sent
    IN
    \A i \in 1 .. Len(os) - 1 :
        /\ (sent[i].id = sent[i + 1].id) = (os[i].id = os[i + 1].id)
        /\ (sent[i] = sent[i + 1]) = (os[i] = os[i + 1])
        /\ sent[i].id = sent[i + 1].id => sent[i].version <= sent[i + 1].version

\* The policy on payload types: nothing it does not allow, by number or by the name
\* it has in that very section, is offered; no attribute is left that describes a
\* payload type that was dropped; what is left is left alone if it is filtered again.
PolicyHolds(sections, allowed) ==
    LET f == filter_SDP(sections, allowed) IN
    f.ok =>
    /\ filter_SDP(f.sections, allowed) = f
    /\ \A i \in DOMAIN sections :
         LET s == sections[i]
             t == f.sections[i] IN
         IF ~s.m.av THEN s = t ELSE
         /\ \A k \in DOMAIN t.m.formats : \E p \in allowed :
               \/ p.pt = t.m.formats[k]
               \/ p.pt = -1 /\ Contains(s.attrs, Attr("rtpmap", t.m.formats[k], p.name))
         /\ t.m.formats # s.m.formats =>
               \A k \in DOMAIN t.attrs : t.attrs[k].pt \in {-1} \cup ToSet(t.m.formats)
=============================================================================
