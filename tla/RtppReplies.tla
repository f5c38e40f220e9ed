---------------------------- MODULE RtppReplies ----------------------------
(***************************************************************************)
(* An update command with subcommands for DTLS and ICE, the RTP proxy's    *)
(* reply to it, and what becomes of the section of the description it is   *)
(* about; and how a command is taken apart and put together again.         *)
(*                                                                         *)
(* A result of a subcommand is the sequence of its words.  A candidate is  *)
(* known by what decides about it: "udp", "tcp", or "cgn" for the          *)
(* addresses that are left out.                                            *)
(***************************************************************************)
EXTENDS Sdp, FiniteSetsExt

DTLS_ATTRS_RM == {"setup", "fingerprint", "rtcp"}
ICE_ATTRS     == {"ice-ufrag", "ice-pwd"}
ICE_ATTRS_RM  == ICE_ATTRS \cup {"candidate", "rtcp-mux", "mid", "group"}

Named(attrs, names) == SelectSeq(attrs, LAMBDA a : a.name \in names)
Without(attrs, names) == SelectSeq(attrs, LAMBDA a : a.name \notin names)
Names(attrs) == {attrs[i].name : i \in DOMAIN attrs}

-----------------------------------------------------------------------------
(* Session/subcommand.py, Session/subcommand_ice.py                        *)

Subcommand(name, commands) == [name |-> name, commands |-> commands, ok |-> TRUE]
Unusable == [name |-> "none", commands |-> <<>>, ok |-> FALSE]   \* SdpParseError

subcommand_dtls == Subcommand("DTLS", <<"S">>)
subcommand_ice  == Subcommand("ICE", <<"S">>)

\* The attributes of the section come before those of the session.
subcommand_dedtls(session, attrs) ==
    LET all == attrs \o session
        at(name) == SelectInSeq(all, LAMBDA a : a.name = name)
        setup == IF at("setup") = 0 THEN Absent ELSE all[at("setup")].value
    IN  CASE at("setup") = 0 \/ at("fingerprint") = 0 -> Unusable
          [] setup \in {"active", "actpass"}          -> Subcommand("deDTLS", <<"A">>)
          [] setup = "passive"                        -> Subcommand("deDTLS", <<"P">>)
          [] OTHER                                    -> Unusable

subcommand_deice(attrs) ==
    LET usable == SelectSeq(Named(attrs, {"candidate"}), LAMBDA a : a.value = "udp") IN
    IF ICE_ATTRS \subseteq Names(attrs)
    THEN Subcommand("deICE", <<"A">> \o [i \in DOMAIN usable |-> "C"])
    ELSE Unusable

\* handle_results() of a subcommand.
handle_results(sc, results) ==
    /\ Len(results) = Len(sc.commands)
    /\ CASE sc.name = "DTLS" -> Len(results[1]) >= 2
         [] sc.name = "ICE"  -> Len(results[1]) >= 3
         [] OTHER            -> \A i \in DOMAIN results : results[i] = <<"0">>

\* _sdp_attrs_rm(): what the section had itself is kept in the session.
attrs_rm(names, st) ==
    [st EXCEPT !.attrs = Without(@, names),
               !.session = Without(@, names \ Names(st.attrs))]

MsidSsrc(a) == a.name = "ssrc" /\ a.value = "msid"

\* sdp_sect_fin()
sdp_sect_fin(sc, st) ==
    LET dtls == attrs_rm(DTLS_ATTRS_RM, st)
        ice  == attrs_rm(ICE_ATTRS_RM, st)
        ours(name) == Attr(name, -1, "proxy")
    IN
    CASE sc.name = "DTLS"   -> [dtls EXCEPT !.attrs = @ \o <<ours("setup"), ours("fingerprint")>>]
      [] sc.name = "deDTLS" -> [dtls EXCEPT !.transport = "RTP/AVP"]
      [] sc.name = "ICE"    -> [ice EXCEPT !.transport = "UDP/TLS/RTP/SAVP", !.attrs = @ \o
                                   <<ours("rtcp-mux"), ours("ice-lite"), ours("ice-ufrag"),
                                     ours("ice-pwd"), ours("candidate")>>]
      [] sc.name = "deICE"  -> [ice EXCEPT !.attrs = SelectSeq(@, LAMBDA a : ~MsidSsrc(a))]

-----------------------------------------------------------------------------
(* Session/update.py                                                       *)

Failed(why) == [ok |-> FALSE, why |-> why, fins |-> <<>>]

\* The results of a subcommand, by how many commands come before it.
Slice(all, before, n) == SubSeq(all, before + 1, before + n)

\* How many commands the first i subcommands have.
Before(subs, i) == FoldLeft(LAMBDA n, sc : n + Len(sc.commands), 0, SubSeq(subs, 1, i))

\* process_rtpp_result(): the update has come to nothing, or the section is to be
\* changed by fins.  A reply is none at all, an error, or a port and results.
process_rtpp_result(subs, reply) ==
    LET expected == Before(subs, Len(subs))
        actual   == Len(reply.results)
        all      == reply.results \o [i \in 1 .. expected - actual |-> <<"0">>]
        mine(i)  == Slice(all, Before(subs, i - 1), Len(subs[i].commands))
        bad      == {i \in DOMAIN subs : ~handle_results(subs[i], mine(i))}
    IN
    CASE reply.kind # "port"              -> Failed(reply.kind)
      [] subs # <<>> /\ actual > expected -> Failed("too many")
      [] subs # <<>> /\ actual > 0 /\ reply.results[actual] = <<"-1">>
            -> Failed(subs[CHOOSE i \in DOMAIN subs :
                          Before(subs, i - 1) < actual /\ actual <= Before(subs, i)].name)
      [] subs # <<>> /\ bad # {}          -> Failed(subs[Min(bad)].name)
      [] reply.port = 0                   -> Failed("port")
      [] OTHER -> [ok |-> TRUE, why |-> "none", fins |-> subs]

-----------------------------------------------------------------------------
(* cmd.py.  An update command is the sequence of its words; its options    *)
(* are a sequence of characters: "R", "L" and "c" announce a number, "1"   *)
(* stands for a digit, "x" for any other letter.                           *)

Opts == [dest |-> <<>>, local |-> <<>>, codecs |-> <<>>, other |-> <<>>, ok |-> TRUE]

\* extract_to_next_token(): how far the characters of a value go, and the options
\* that are none of these.  Of the digits "1" is left, of the separators the comma.
Token(s, match, invert) ==
    LET at == SelectInSeq(s, LAMBDA ch : (ch \in match) = invert) IN IF at = 0 THEN Len(s) ELSE at - 1
Others(s) == Token(s, {"c", "R"}, TRUE)

Takes(old, val) == IF val = <<>> THEN old ELSE val

\* int(x) for x in val.split(','): none of the numbers is missing.
AreInts(val) == \A i \in DOMAIN val : val[i] = "," => i \notin {1, Len(val)} /\ val[i + 1] # ","

\* ok: nothing has raised.
RECURSIVE parseOpts(_, _)
parseOpts(s, o) ==
    IF s = <<>> \/ ~o.ok THEN o
    ELSE LET rest == Tail(s)
             n    == Token(rest, IF s[1] = "c" THEN {"1", ","} ELSE {"1"}, FALSE)
             val  == SubSeq(rest, 1, n)
             left == SubSeq(rest, n + 1, Len(rest))
             k    == Others(s)
         IN CASE s[1] = "R" -> parseOpts(left, [o EXCEPT !.dest = Takes(@, val)])
              [] s[1] = "L" -> parseOpts(left, [o EXCEPT !.local = Takes(@, val)])
              [] s[1] = "c" -> parseOpts(left, [o EXCEPT !.codecs = Takes(@, val), !.ok = AreInts(val)])
              [] OTHER      -> parseOpts(SubSeq(s, k + 1, Len(s)),
                                         [o EXCEPT !.other = @ \o SubSeq(s, 1, k)])

optsStr(o) ==
    (IF o.dest = <<>> THEN <<>> ELSE <<"R">> \o o.dest)
    \o (IF o.local = <<>> THEN <<>> ELSE <<"L">> \o o.local)
    \o (IF o.codecs = <<>> THEN <<>> ELSE <<"c">> \o o.codecs) \o o.other

\* What a command is that cannot be read: __init__() raises.
BadCmd == [ok |-> FALSE]

\* The arguments of an update behind the call: the address, the tags and the socket
\* to be notified; the last of them may have several words.
parseArgs(args) ==
    LET tail == SubSeq(args, 4, Len(args))
        n    == Len(tail)
        from(k) == SubSeq(tail, k, n)
    IN
    [remote_ip |-> args[1], remote_port |-> args[2], from_tag |-> args[3],
     to_tag |-> IF n = 1 \/ n >= 3 THEN <<tail[1]>> ELSE <<>>,
     notify_socket |-> IF n = 2 THEN <<tail[1]>> ELSE IF n >= 3 THEN <<tail[2]>> ELSE <<>>,
     notify_tag    |-> IF n = 2 THEN from(2) ELSE from(3)]

\* Rtp_proxy_cmd.__init__() of an update: words after the options.  What is behind
\* a && that stands between words are the subcommands.
parseCmd(opts, words) ==
    LET args == Tail(words)
        at   == SelectInSeq(args, LAMBDA w : w = "&&")
        subs == at \in 2 .. Len(args) - 1
        own  == IF subs THEN SubSeq(args, 1, at - 1) ELSE args
        o    == parseOpts(opts, Opts)
    IN IF Len(words) < 3 \/ ~o.ok \/ Len(own) < 3 THEN BadCmd
       ELSE [ok |-> TRUE, opts |-> o, call_id |-> words[1], args |-> parseArgs(own),
             subargs |-> IF subs THEN SubSeq(args, at + 1, Len(args)) ELSE <<>>]

\* getstr()
cmdStr(c) ==
    [opts |-> optsStr(c.opts),
     words |-> <<c.call_id, c.args.remote_ip, c.args.remote_port, c.args.from_tag>> \o c.args.to_tag
               \o c.args.notify_socket \o c.args.notify_tag
               \o (IF c.subargs = <<>> THEN <<>> ELSE <<"&&">> \o c.subargs)]

-----------------------------------------------------------------------------
(* Properties.                                                             *)

Results == {<<"0">>, <<"-1">>, <<"active", "fp">>, <<"u", "p", "C">>, <<>>}

\* An update succeeds if and only if the proxy gave a port and every command its
\* own acceptable result, where one that is missing counts as "0"; a failure names
\* the subcommand whose result was the first not to be acceptable.  No subcommand
\* is judged by the results of another, however many commands come before it.
EachItsOwn(subs, reply) ==
    LET out  == process_rtpp_result(subs, reply)
        flat == FlattenSeq([i \in DOMAIN subs |-> [k \in DOMAIN subs[i].commands |-> subs[i].name]])
        res(k) == IF k <= Len(reply.results) THEN reply.results[k] ELSE <<"0">>
        fits(k) == CASE flat[k] = "DTLS" -> Len(res(k)) >= 2
                     [] flat[k] = "ICE"  -> Len(res(k)) >= 3
                     [] OTHER            -> res(k) = <<"0">>
        last == Len(reply.results)
        fits_all == {k \in DOMAIN flat : ~fits(k)} = {}
    IN
    subs # <<>> /\ reply.kind = "port" =>
    /\ out.ok = (last <= Len(flat) /\ fits_all /\ reply.port # 0)
    /\ last <= Len(flat) /\ ~fits_all =>
          out.why = (IF last > 0 /\ res(last) = <<"-1">> THEN flat[last]
                     ELSE flat[Min({k \in DOMAIN flat : ~fits(k)})])

\* What the far end takes from the section, or else from the session.
Effective(st, name) ==
    LET all == st.attrs \o st.session
        at  == SelectInSeq(all, LAMBDA a : a.name = name) IN
    IF at = 0 THEN Absent ELSE all[at].value

\* After an update for a gateway between DTLS with ICE and plain RTP, no address, key or
\* secret of one side is what the other side sees: it sees those of the proxy, or
\* none.  What stands in both the section and the session is left in the session.
NothingPasses(st) ==
    LET to   == FoldLeft(LAMBDA s, sc : sdp_sect_fin(sc, s), st, <<subcommand_dtls, subcommand_ice>>)
        de   == <<subcommand_dedtls(st.session, st.attrs), subcommand_deice(st.attrs)>>
        from == FoldLeft(LAMBDA s, sc : sdp_sect_fin(sc, s), st, de)
        twice(name) == name \in Names(st.attrs) /\ name \in Names(st.session)
        private == {"setup", "fingerprint", "ice-ufrag", "ice-pwd", "candidate"}
    IN
    /\ \A name \in private : Effective(to, name) = "proxy"
    /\ to.transport = "UDP/TLS/RTP/SAVP"
    /\ de[1].ok /\ de[2].ok =>
          /\ from.transport = "RTP/AVP"
          /\ \A name \in private : twice(name) \/ Effective(from, name) = Absent
          /\ \A i \in DOMAIN from.attrs : ~MsidSsrc(from.attrs[i])

\* A command that is taken apart and put together again means the same to the
\* proxy: nothing is lost or moves from one option or argument to another.  Options
\* that begin with a digit or a comma are the exception: behind a number they become
\* part of it.
CommandKept(opts, words) ==
    \A c \in {parseCmd(opts, words)} : c.ok =>
        LET s == cmdStr(c) IN
        /\ s.words = words
        /\ (c.opts.other = <<>> \/ c.opts.other[1] \notin {"1", ","}) => parseCmd(s.opts, s.words) = c
=============================================================================
