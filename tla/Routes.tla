------------------------------- MODULE Routes -------------------------------
(***************************************************************************)
(* Routes of a call: what the text of a route says (B2B/Route.py), what is *)
(* filled in for a call, which of them are placed, and where the next hop  *)
(* is.                                                                     *)
(*                                                                         *)
(* The text of a route is the called number before the @ ("absent": no @), *)
(* the addresses its host has, and its parameters [a, v, n] in order: n is *)
(* the value of those that are times or codes.  A called or calling number *)
(* is a model value, "erased" is None as a value that was asked for; a     *)
(* time of -1 is None.                                                     *)
(*                                                                         *)
(* Routes are objects that customize() changes in place, and params is a   *)
(* dictionary that two of them could share: a memory holds the routes and  *)
(* the dictionaries, and a route names its dictionary.  The other fields   *)
(* hold numbers, texts and tuples, which nobody can change.                *)
(***************************************************************************)
EXTENDS Integers, Sequences, SequencesExt

NoNumber == "absent"
Erased   == "erased"
Never    == -1

-----------------------------------------------------------------------------
(* B2BRoute.__init__()                                                     *)

Blank == [cld |-> NoNumber, cld_set |-> FALSE, cli |-> NoNumber, cli_set |-> FALSE,
          credit_time |-> Never, crt_set |-> Never, expires |-> Never,
          no_progress_expires |-> Never, no_reply_expires |-> Never,
          forward_on_fail |-> FALSE, pass_auth |-> TRUE, user |-> NoNumber, rnum |-> 0,
          headers |-> <<>>, params |-> 0, ainfo |-> <<>>]
NoParams == [gt |-> Never, group_timeout |-> Never, scodes |-> {}]

\* A number that is given; an empty one is erased.
Given(v) == IF v = "" THEN Erased ELSE v
\* A time that is given; a negative one stands for none.
Limit(v) == IF v < 0 THEN Never ELSE v

\* One parameter of route o.r with the dictionary o.d.
Apply(o, p) ==
    CASE p.a = "credit-time"     -> [o EXCEPT !.r.credit_time = Limit(p.n), !.r.crt_set = 1]
      [] p.a = "expires"         -> [o EXCEPT !.r.expires = Limit(p.n)]
      [] p.a = "np_expires"      -> [o EXCEPT !.r.no_progress_expires = Limit(p.n)]
      [] p.a = "nr_expires"      -> [o EXCEPT !.r.no_reply_expires = Limit(p.n)]
      [] p.a = "forward_on_fail" -> [o EXCEPT !.r.forward_on_fail = TRUE]
      [] p.a = "auth"            -> [o EXCEPT !.r.pass_auth = FALSE,
                                              !.r.user = IF p.v # "nopass" THEN p.v ELSE @]
      [] p.a = "cli"             -> [o EXCEPT !.r.cli = Given(p.v), !.r.cli_set = TRUE]
      [] p.a = "ash"             -> [o EXCEPT !.r.headers = Append(@, p.v)]
      [] p.a = "hs_scodes"       -> [o EXCEPT !.d.scodes = {p.n}]
      [] p.a = "gt"              -> [o EXCEPT !.d.gt = p.n]

Empty == [routes |-> <<>>, dicts |-> <<>>]

\* B2BRoute(text): a new route with a dictionary of its own.
parseRoute(mem, text) ==
    LET named == IF text.cld = NoNumber THEN Blank
                 ELSE [Blank EXCEPT !.cld = Given(text.cld), !.cld_set = TRUE]
        fresh == [named EXCEPT !.ainfo = text.ainfo, !.params = Len(mem.dicts) + 1]
        read  == FoldLeft(Apply, [r |-> fresh, d |-> NoParams], text.params)
    IN  [routes |-> Append(mem.routes, read.r), dicts |-> Append(mem.dicts, read.d)]

\* getCopy() of route i: every field is taken over, params as dict(cself.params).
getCopy(mem, i) ==
    LET r == mem.routes[i] IN
    [routes |-> Append(mem.routes, [r EXCEPT !.params = Len(mem.dicts) + 1]),
     dicts  |-> Append(mem.dicts, mem.dicts[r.params])]

-----------------------------------------------------------------------------
(* customize() and rDone()                                                 *)

Capped(credit, max) ==
    IF max # Never /\ (credit = Never \/ credit > max) THEN max ELSE credit

\* call: the numbers, the credit time of the authorisation (h323-credit-time) and
\* the header fields of the call.  The credit time ends up in crt_set, not in
\* credit_time.
customize(mem, i, rnum, call, max) ==
    LET d == mem.routes[i].params IN
    [mem EXCEPT
        !.routes[i].rnum = rnum,
        !.routes[i].cld = IF mem.routes[i].cld_set THEN @ ELSE call.cld,
        !.routes[i].cli = IF mem.routes[i].cli_set THEN @ ELSE call.cli,
        !.routes[i].crt_set = IF @ \notin {Never, 0} THEN @ ELSE call.credit_time,
        !.routes[i].headers = @ \o call.headers,
        !.routes[i].credit_time = Capped(@, max),
        !.dicts[d].group_timeout = IF mem.dicts[d].gt # Never THEN rnum + mem.dicts[d].gt ELSE @]

\* The routes of an answer, customized in turn, and those of them to be placed.
rDone(mem, routing, call, max) ==
    LET after == FoldLeft(LAMBDA m, k : customize(m, routing[k], k, call, max), mem,
                          [k \in DOMAIN routing |-> k])
    IN  [mem |-> after,
         placed |-> SelectSeq([k \in DOMAIN routing |-> after.routes[routing[k]]],
                              LAMBDA r : r.credit_time # 0 /\ r.expires # 0)]

\* A call on the configured route, which is route 1: on a copy of it.
StaticRoute(mem, call, max) ==
    LET copied == getCopy(mem, 1) IN rDone(copied, <<Len(copied.routes)>>, call, max).mem

-----------------------------------------------------------------------------
(* getNHAddr()                                                             *)

FirstOf(ainfo, af) == SelectInSeq(ainfo, LAMBDA x : x.af = af)

getNHAddr(ainfo, af) ==
    LET at == FirstOf(ainfo, af) IN
    [addr |-> ainfo[IF at = 0 THEN 1 ELSE at], same_af |-> at # 0]

-----------------------------------------------------------------------------
(* Properties.                                                             *)

Call(cld, cli, credit) == [cld |-> cld, cli |-> cli, credit_time |-> credit, headers |-> <<"hdr">>]

\* Whatever the routes say, no call is placed that could last longer than the
\* configured maximum or than its own route allows, and never one that could not
\* last at all; the routes that are placed keep their order and their numbers,
\* which skips of route groups refer to.  The time the authorisation grants
\* (credit) is no limit: with it and without it the same calls are placed for the
\* same time.
Limited(texts, credit, max) ==
    LET routing == FoldLeft(parseRoute, Empty, texts)
        all     == [i \in DOMAIN texts |-> i]
        done(c) == rDone(routing, all, Call("d", "i", c), max)
        placed  == done(credit).placed IN
    /\ \A k \in DOMAIN placed :
         LET own == routing.routes[placed[k].rnum].credit_time IN
         /\ placed[k].credit_time # 0 /\ placed[k].expires # 0
         /\ max # Never => placed[k].credit_time \in 1 .. max
         /\ own # Never => placed[k].credit_time \in 1 .. own
         /\ k > 1 => placed[k - 1].rnum < placed[k].rnum
    /\ \A i \in DOMAIN texts :
         (\E k \in DOMAIN placed : placed[k].rnum = i) =
             (routing.routes[i].expires # 0 /\ max # 0 /\ routing.routes[i].credit_time # 0)
    /\ [k \in DOMAIN placed |-> placed[k].credit_time] =
          [k \in DOMAIN done(Never).placed |-> done(Never).placed[k].credit_time]

\* Two calls in a row on the configured route: each gets the numbers the route
\* gives or erases, its own where the route says nothing, its own header fields
\* once, and the limits of the route; neither leaves a trace in the configured
\* route or its parameters, nor the second in the route of the first.
CallsApart(text, credit, max) ==
    LET made   == parseRoute(Empty, text)
        after1 == StaticRoute(made, Call("d1", "i1", credit), max)
        after2 == StaticRoute(after1, Call("d2", "i2", Never), max)
        first  == after2.routes[2]
        second == after2.routes[3]
        given(name) == SelectSeq(text.params, LAMBDA p : p.a = name)
        number(spec, default) == IF spec = NoNumber THEN default ELSE Given(spec)
        clis == given("cli")
        cli  == IF clis = <<>> THEN NoNumber ELSE clis[Len(clis)].v
    IN
    /\ first.cld = number(text.cld, "d1") /\ second.cld = number(text.cld, "d2")
    /\ first.cli = number(cli, "i1") /\ second.cli = number(cli, "i2")
    /\ Len(second.headers) = Len(given("ash")) + 1
    /\ second.credit_time = first.credit_time
    /\ after2.routes[1] = made.routes[1] /\ after2.dicts[made.routes[1].params] = made.dicts[1]
    /\ first = after1.routes[2] /\ after2.dicts[first.params] = after1.dicts[first.params]

\* The next hop has the address family the call came with if the host has such an
\* address, and same_af says so and nothing else.
FamilyKept(ainfo, af) ==
    LET nh == getNHAddr(ainfo, af) IN
    /\ nh.same_af = (nh.addr.af = af)
    /\ nh.same_af = (\E i \in DOMAIN ainfo : ainfo[i].af = af)
=============================================================================
