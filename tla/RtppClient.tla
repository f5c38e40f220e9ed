----------------------------- MODULE RtppClient -----------------------------
(***************************************************************************)
(* The client of one RTP proxy over UDP: the commands in flight with their *)
(* retransmissions, and the watch the client keeps over the proxy, that is *)
(* the version check, the queries of its capabilities and the heartbeats.  *)
(*                                                                         *)
(* Time passes in ticks, and a timer that is due fires before the next     *)
(* one.  The network loses, delays, reorders and (because commands are     *)
(* sent again) duplicates; while the proxy is up and the network good, the *)
(* answer to a command comes before the next tick.                         *)
(***************************************************************************)
EXTENDS Integers, Sequences, SequencesExt, FiniteSetsExt

CONSTANTS
    Cookies,     \* names of commands
    Calls,       \* commands of the RTP sessions
    Caps,        \* the keys of CAPSTABLE
    FirstRetr,   \* what delay_flt may give as the first interval
    CmdExp,      \* exp_time of most commands, in ticks
    HrtbExp,     \* exp_time of a heartbeat
    HrtbIval,    \* hrtb_ival
    RetrIval     \* hrtb_retr_ival

VARIABLES
    net,      \* cookies of the replies on their way to us
    up,       \* the proxy answers and the network is good
    pending,  \* pending_requests: cookie -> command
    timers,   \* retransmission timers: cookie -> ticks left
    watch,    \* the other timers, in the order they were started: [fn, left]
    st,       \* the fields of the client and of its capability checker
    owed,     \* per session command: commands less callbacks
    failed    \* an exception left a callback of the dispatcher

rtppVars == <<net, up, pending, timers, watch, st, owed, failed>>

\* The number of tries that fit in the time a command may take, the interval
\* doubling each time.
Pow[n \in Nat] == IF n = 0 THEN 1 ELSE 2 * Pow[n - 1]

TimeOfTries(first, n) == first * (Pow[n] - 1)

getnretrans(first, timeout) ==
    CHOOSE n \in 0..timeout :
        TimeOfTries(first, n) <= timeout /\ timeout < TimeOfTries(first, n + 1)

\* How long a heartbeat may be in flight: as long as its tries take, or for one
\* interval that is longer.
BeatLives == FirstRetr \cup {HrtbExp}

ASSUME RtppClientAssumption ==
    /\ Cookies \subseteq Nat /\ IsFiniteSet(Cookies) /\ FirstRetr \subseteq Nat \ {0}
    /\ CmdExp \in Nat \ {0} /\ HrtbExp \in Nat \ {0} /\ HrtbIval \in Nat \ {0}
    /\ RetrIval \in Nat /\ \A t \in BeatLives : RetrIval > HrtbIval + t    \* 60 s, 1 s and 10 s
    /\ Caps # {} /\ Caps \cap Calls = {} /\ {"V", "Ib"} \cap (Caps \cup Calls) = {}
    /\ IsFiniteSet(Caps)

Kinds == {"V", "Ib"} \cup Caps \cup Calls

\* What goes on while the client runs one callback, as a record: an operation
\* takes the state in which it is called and gives the one in which it returns.
State == [net |-> net, pending |-> pending, timers |-> timers, watch |-> watch,
          st |-> st, owed |-> owed, failed |-> failed]

Become(r) == \E s \in {r} :
    /\ net' = s.net /\ pending' = s.pending /\ timers' = s.timers
    /\ watch' = s.watch /\ st' = s.st /\ owed' = s.owed /\ failed' = s.failed

Drop(f, c) == [x \in DOMAIN f \ {c} |-> f[x]]
Put(f, c, v) == [x \in DOMAIN f \cup {c} |-> IF x = c THEN v ELSE f[x]]

\* Packets leave: the proxy's answers are on their way, or either is lost.
Packets(s, C) == {(s.net \ C) \cup N : N \in IF up THEN {C} ELSE SUBSET C}

\* Cookies that no command in flight has, one for each of these commands.  There
\* are few of them here: when late replies hold all the others, those are lost.
Fresh(s, K) ==
    LET free  == Cookies \ (DOMAIN s.pending \cup DOMAIN s.timers)
        spare == {C \in SUBSET free : C \cap s.net = {} \/ free \ s.net \subseteq C}
    IN  {g \in UNION {[C -> K] : C \in spare} :
            \A k \in K : Cardinality({c \in DOMAIN g : g[c] = k}) = 1}

\* pending_requests and the timers when these commands are in them.
Sent(pd, g, f, exp) ==
    [c \in DOMAIN pd \cup DOMAIN g |->
        IF c \in DOMAIN g
        THEN [kind |-> g[c], next_retr |-> f[c], triesleft |-> getnretrans(f[c], exp) - 1]
        ELSE pd[c]]
Timed(tm, g, f) == [c \in DOMAIN tm \cup DOMAIN g |-> IF c \in DOMAIN g THEN f[c] ELSE tm[c]]

Sending(s, g, n, f, exp) ==
    [s EXCEPT !.net = n, !.pending = Sent(@, g, f, exp), !.timers = Timed(@, g, f)]

\* Rtp_proxy_client.send_command() for each of some commands: the states after it.
\* It raises after shutdown(), which has set rtpp_class to None.
send_commands(s, K, exp) ==
    IF s.st.shut_down
    THEN {[s EXCEPT !.failed = TRUE]}
    ELSE UNION {{Sending(s, g, n, f, exp) :
                    n \in Packets(s, DOMAIN g), f \in [DOMAIN g -> FirstRetr]} : g \in Fresh(s, K)}

send_command(s, kind, exp) == send_commands(s, {kind}, exp)

Arm(s, fn, d) == [s EXCEPT !.watch = Append(@, [fn |-> fn, left |-> d])]

heartbeat(s) == IF s.st.shut_down THEN {s} ELSE send_command(s, "Ib", HrtbExp)

version_check(s) == IF s.st.shut_down THEN {s} ELSE send_command(s, "V", CmdExp)

\* Rtpp_caps_checker: a query for every capability.
QueryCaps(s) == send_commands([s EXCEPT !.st.caps_left = Cardinality(Caps)], Caps, CmdExp)

go_online(s) ==
    IF s.st.shut_down \/ s.st.online THEN {s}
    ELSE IF ~s.st.caps_done THEN QueryCaps(s)
    ELSE heartbeat([s EXCEPT !.st.online = TRUE])

go_offline(s) ==
    IF s.st.shut_down \/ ~s.st.online THEN s
    ELSE Arm([s EXCEPT !.st.online = FALSE, !.st.watched = TRUE], "version_check", RetrIval)

heartbeat_replyOffline(s, answer) ==
    IF s.st.shut_down THEN s
    ELSE Arm(IF answer = "None" THEN go_offline(s) ELSE s, "heartbeat", HrtbIval)

\* The callbacks; an answer is good, is bad (another version), or is None because
\* the command was given up.
version_check_reply(s, answer) ==
    IF s.st.shut_down THEN {s}
    ELSE IF answer = "good" THEN go_online(s)
    ELSE IF s.st.online THEN {go_offline(s)}
    ELSE {Arm(s, "version_check", RetrIval)}

heartbeat_reply(s, answer) ==
    IF s.st.shut_down \/ ~s.st.online THEN s
    ELSE Arm(IF answer = "None" THEN go_offline(s) ELSE s, "heartbeat", HrtbIval)

caps_query_lost(s, answer) ==
    IF answer = "None" THEN {s}
    ELSE LET t == [s EXCEPT !.st.caps_left = @ - 1]
         IN  IF t.st.caps_left = 0
             THEN go_online([t EXCEPT !.st.caps_done = TRUE])
             ELSE {t}

\* Which capabilities the proxy has is left out: a query that was given up, too,
\* counts as answered.
caps_query_done(s, answer) ==
    LET t == [s EXCEPT !.st.caps_left = @ - 1]
    IN  IF t.st.caps_left = 0
        THEN go_online([t EXCEPT !.st.caps_done = TRUE])
        ELSE {t}

Callback(s, kind, answer) ==
    CASE kind = "V"       -> version_check_reply(s, answer)
      [] kind = "Ib"      -> {heartbeat_reply(s, answer)}
      [] kind \in Caps    -> caps_query_done(s, answer)
      [] kind \in Calls   -> {[s EXCEPT !.owed[kind] = @ - 1]}

-----------------------------------------------------------------------------
RtppInit ==
    /\ net = {} /\ pending = <<>> /\ timers = <<>> /\ owed = [u \in Calls |-> 0]
    /\ up \in BOOLEAN /\ failed = FALSE
    /\ \/ /\ st = [online |-> FALSE, caps_done |-> FALSE, shut_down |-> FALSE,
                   caps_left |-> 0, watched |-> TRUE]
          /\ watch = <<[fn |-> "version_check", left |-> 0]>>
       \/ /\ st = [online |-> TRUE, caps_done |-> TRUE, shut_down |-> FALSE,
                   caps_left |-> 0, watched |-> FALSE]
          /\ watch = <<>>

\* A session sends a command.
SessionCommand(u) ==
    /\ owed[u] = 0 /\ ~st.shut_down
    /\ \E s \in send_command([State EXCEPT !.owed[u] = @ + 1], u, CmdExp) : Become(s)
    /\ UNCHANGED up

\* retransmit() of the command c: once more, or not at all.
retransmit(c) ==
    /\ c \in DOMAIN timers /\ timers[c] = 0
    /\ LET s == [State EXCEPT !.timers = Drop(@, c)] IN
       IF c \notin DOMAIN pending
       THEN Become([s EXCEPT !.failed = TRUE])
       ELSE LET p == pending[c] IN
            IF p.triesleft <= 0 \/ st.shut_down
            THEN \E t \in Callback(go_offline([s EXCEPT !.pending = Drop(@, c)]),
                                   p.kind, "None") : Become(t)
            ELSE \E n \in Packets(s, {c}) :
                    Become([s EXCEPT !.net = n,
                        !.timers = Put(@, c, 2 * p.next_retr),
                        !.pending[c] = [p EXCEPT !.next_retr = 2 * @, !.triesleft = @ - 1]])
    /\ UNCHANGED up

\* process_reply(): a reply for a command nobody waits for any more is ignored.
process_reply(c) ==
    /\ c \in net
    /\ \E keep \in {{}} \cup (IF up THEN {} ELSE {{c}}) :
       LET s == [State EXCEPT !.net = (@ \ {c}) \cup keep] IN
       IF c \notin DOMAIN pending
       THEN Become([s EXCEPT !.net = @ \ {c}])
       ELSE \E a \in {"good"} \cup (IF pending[c].kind = "V" /\ ~up
                                    THEN {"bad"} ELSE {}) :
               \E t \in Callback([s EXCEPT !.pending = Drop(@, c), !.timers = Drop(@, c)],
                                 pending[c].kind, a) : Become(t)
    /\ UNCHANGED up

\* A timer of the watch fires.
WatchTimer(i) ==
    /\ i \in DOMAIN watch /\ watch[i].left = 0
    /\ LET s == [State EXCEPT !.watch = RemoveAt(@, i)] IN
       \E t \in IF watch[i].fn = "heartbeat" THEN heartbeat(s) ELSE version_check(s) : Become(t)
    /\ UNCHANGED up

shutdown ==
    /\ ~st.shut_down
    /\ Become([State EXCEPT !.st.shut_down = TRUE])
    /\ UNCHANGED up

\* The proxy goes down or comes back; what it had answered is lost or late.
Proxy ==
    /\ up' = ~up
    /\ \E N \in SUBSET net : net' = IF up THEN N ELSE net
    /\ UNCHANGED <<pending, timers, watch, st, owed, failed>>

Tick ==
    /\ \A c \in DOMAIN timers : timers[c] > 0
    /\ \A i \in DOMAIN watch : watch[i].left > 0
    /\ up => net = {}
    /\ timers' = [c \in DOMAIN timers |-> timers[c] - 1]
    /\ watch' = [i \in DOMAIN watch |-> [watch[i] EXCEPT !.left = @ - 1]]
    /\ UNCHANGED <<net, up, pending, st, owed, failed>>

RtppNext ==
    \/ \E u \in Calls : SessionCommand(u)
    \/ \E c \in Cookies : retransmit(c) \/ process_reply(c)
    \/ \E i \in DOMAIN watch : WatchTimer(i)
    \/ shutdown \/ Proxy \/ Tick

RtppSpec == RtppInit /\ [][RtppNext]_rtppVars

\* The dispatcher runs what is due, and clocks go on: a session does not send
\* infinitely many commands in no time, hence the strong fairness of Tick.
RtppFairSpec ==
    /\ RtppSpec
    /\ \A c \in Cookies : WF_rtppVars(retransmit(c)) /\ WF_rtppVars(process_reply(c))
    /\ WF_rtppVars(\E i \in DOMAIN watch : WatchTimer(i))
    /\ SF_rtppVars(Tick)

-----------------------------------------------------------------------------
RtppTypeOK ==
    /\ net \subseteq Cookies /\ up \in BOOLEAN /\ failed \in BOOLEAN
    /\ DOMAIN pending \subseteq Cookies /\ DOMAIN timers \subseteq Cookies
    /\ \A c \in DOMAIN pending :
          pending[c] \in [kind : Kinds, next_retr : Nat, triesleft : Int]
    /\ \A c \in DOMAIN timers : timers[c] \in Nat
    /\ watch \in Seq([fn : {"heartbeat", "version_check"}, left : 0..RetrIval])
    /\ st \in [online : BOOLEAN, caps_done : BOOLEAN, shut_down : BOOLEAN,
               caps_left : 0..Cardinality(Caps), watched : BOOLEAN]
    /\ owed \in [Calls -> Int]

InFlight(kind) == {c \in DOMAIN pending : pending[c].kind = kind}
Started(fn)    == {i \in DOMAIN watch : watch[i].fn = fn}

\* How many version checks and how many heartbeats go on: each is a command in
\* flight or a timer that will send one; the queries of the capabilities follow a
\* version check.
Checks == Cardinality(InFlight("V")) + Cardinality(Started("version_check"))
          + (IF st.caps_left > 0 THEN 1 ELSE 0)
Beats  == Cardinality(InFlight("Ib")) + Cardinality(Started("heartbeat"))

\* A session's command (send_command() with a result_callback) is answered
\* exactly once, by the reply or by None: not again by the reply to a
\* retransmission or by a reply that comes when the command was given up.
AnsweredOnce ==
    \A u \in Calls : owed[u] \in {0, 1} /\ owed[u] = Cardinality(InFlight(u))

\* No timer outlives its command: retransmit() would raise KeyError.  Nor does a
\* timer or a callback send a command through a client that was shut down.
NoStrayRetransmit == ~failed /\ DOMAIN timers = DOMAIN pending

\* The client never stops watching its proxy, and never does so twice over: off
\* line there is one version check, on line there is none and one heartbeat.  A
\* heartbeat that was in flight when the proxy went off line is over before the
\* proxy can be on line again.
OneWatch ==
    /\ Beats <= 1
    /\ ~st.shut_down => Checks = (IF st.online THEN 0 ELSE 1)
    /\ ~st.shut_down /\ st.online /\ st.watched => Beats = 1

\* A proxy that is back is used again: lost capability queries, commands that were
\* given up and late replies do not keep the client off line.
BackOnline == <>[]up => <>[](st.online \/ st.shut_down)

\* Commands and watch: a command is answered once and leaves no timer, and the
\* proxy is watched by one chain of checks or heartbeats (and the types).
ClientSound == RtppTypeOK /\ AnsweredOnce /\ NoStrayRetransmit /\ OneWatch
=============================================================================
