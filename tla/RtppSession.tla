---------------------------- MODULE RtppSession -----------------------------
(***************************************************************************)
(* The session a call has with an RTP proxy, and the sequencer that hands  *)
(* its commands to the client of the proxy one at a time.                  *)
(*                                                                         *)
(* A body is a number of media sections: every section the proxy supports  *)
(* costs an update command of its own, and the body goes back to the call  *)
(* with the answer to the last of them, or with the first error.  Prompts  *)
(* and recordings are further commands, some of them in two stages.        *)
(*                                                                         *)
(* The session deletes itself when nobody refers to it any more: the call  *)
(* lets go of it when it is over, and an update that waits for its result  *)
(* refers to it as well.                                                   *)
(***************************************************************************)
EXTENDS Integers, Sequences

CONSTANTS
    Bodies,      \* session descriptions of the call
    Media        \* other operations on the session

ASSUME NamesAssumption == Bodies \cap Media = {} /\ "nobody" \notin Bodies \cup Media

VARIABLES
    seq,      \* Rtp_proxy_cmd_sequencer
    client,   \* commands given to Rtp_proxy_client and not answered
    sess,     \* Rtp_proxy_session and its two sides
    body,     \* the bodies and what became of them
    media,    \* the other operations and what became of them
    opened    \* indexes the proxy was told to open and not to close

vars == <<seq, client, sess, body, media, opened>>

Sides    == {"caller", "callee"}
Other(d) == IF d = "caller" THEN "callee" ELSE "caller"
MaxSections == 2     \* bound: the media sections of a body
Indexes  == 0..MaxSections - 1

\* A command: U opens or updates an index, D closes it, M stands for the others.
\* to: whose callback its result is for, at which stage.
NoCommand == [op |-> "none"]
Command(op, side, idx, to, stage) ==
    [op |-> op, side |-> side, idx |-> idx, to |-> to, stage |-> stage]

State == [seq |-> seq, client |-> client, sess |-> sess, body |-> body,
          media |-> media, opened |-> opened, raised |-> FALSE]

Become(r) == \E s \in {r} :
    /\ seq' = s.seq /\ client' = s.client /\ sess' = s.sess /\ body' = s.body
    /\ media' = s.media /\ opened' = s.opened

-----------------------------------------------------------------------------
(* The sequencer.                                                          *)

\* The indexes that are open at the proxy once it was sent c.
Opens(o, c) == IF c.op = "U" THEN o \cup {c.idx} ELSE IF c.op = "D" THEN o \ {c.idx} ELSE o

ToClient(s, c) ==
    [s EXCEPT !.seq.inflight = c, !.client = Append(@, c), !.opened = Opens(@, c)]

SeqDeleteForgets(s) ==
    IF s.seq.inflight # NoCommand THEN s ELSE [s EXCEPT !.seq.client = FALSE]

send_command(s, c) ==
    IF ~s.seq.client THEN s
    ELSE IF s.seq.inflight # NoCommand THEN [s EXCEPT !.seq.comqueue = Append(@, c)]
    ELSE ToClient(s, c)

SeqDelete(s) ==
    IF s.seq.inflight # NoCommand THEN [s EXCEPT !.seq.deleted = TRUE]
    ELSE [s EXCEPT !.seq.client = FALSE]

-----------------------------------------------------------------------------
(* The session.                                                            *)

update(s, side, idx, to, stage) ==
    send_command([s EXCEPT !.sess.max_index = IF @ < idx THEN idx ELSE @],
                 Command("U", side, idx, to, stage))

Section(s, side, b, i, n) == IF i < n THEN update(s, side, i, b, "section") ELSE s

\* _on_sdp_change() sends an update for each supported section, and raises if the
\* body cannot be parsed or a section lacks an attribute that has to be passed on:
\* the updates of the sections before it have then been sent.  A body without a
\* supported section is given back by _on_sdp_change(), but not by
\* on_caller_sdp_change() and on_callee_sdp_change().
on_sdp_change(s, side, b, sects, bad) ==
    LET t == [s EXCEPT !.body[b].left = 0..sects - 1,
                       !.body[b].st = IF bad THEN "raised" ELSE IF sects = 0 THEN "lost" ELSE "held"]
        n == IF bad THEN sects - 1 ELSE sects
    IN  Section(Section(t, side, b, 0, n), side, b, 1, n)

FinishAgain(s, b, i, ok) ==
    LET left == s.body[b].left \ {i} IN
    IF ok /\ left # {} THEN [s EXCEPT !.body[b].left = left]
    ELSE [s EXCEPT !.body[b].left = left, !.body[b].needs_update = FALSE,
                   !.body[b].told = Append(@, IF ok THEN "done" ELSE "error")]

\* _sdp_change_finish(): the body goes back when no section waits any more, or
\* with the first error, and what comes later is ignored.
_sdp_change_finish(s, b, i, ok) ==
    LET left == s.body[b].left \ {i} IN
    IF ~s.body[b].needs_update THEN s
    ELSE IF ok /\ left # {} THEN [s EXCEPT !.body[b].left = left]
    ELSE [s EXCEPT !.body[b].left = left, !.body[b].needs_update = FALSE,
                   !.body[b].told = Append(@, IF ok THEN "done" ELSE "error")]

\* The callback of the command c.  A prompt or a recording that waits for an
\* update does not take the keyword ex, so that an error raises TypeError.
Callback(s, c, ok) ==
    LET t == IF c.op = "U" THEN [s EXCEPT !.sess.exists[c.side] = TRUE] ELSE s IN
    IF c.to = "nobody" THEN t ELSE
    CASE c.stage = "section"   -> _sdp_change_finish(t, c.to, c.idx, ok)
      [] c.stage = "play"      -> IF ok THEN send_command(t, Command("M", Other(c.side), c.idx, c.to, "last"))
                                  ELSE [t EXCEPT !.media[c.to] = "raised", !.raised = TRUE]
      [] c.stage = "record"    -> IF ok THEN send_command(t, Command("M", "caller", c.idx, c.to, "record_o"))
                                  ELSE [t EXCEPT !.media[c.to] = "raised", !.raised = TRUE]
      [] c.stage = "record_o"  -> IF ok THEN send_command(t, Command("M", "caller", c.idx, c.to, "last"))
                                  ELSE [t EXCEPT !.media[c.to] = "told"]
      [] c.stage = "last"      -> [t EXCEPT !.media[c.to] = IF @ = "told" THEN "twice" ELSE "told"]

result_callbackFirst(s, ok) ==
    LET c == s.seq.inflight
        t == [s EXCEPT !.seq.inflight = NoCommand, !.client = Tail(@)]
        u == Callback(t, c, ok)
        v == IF u.seq.client /\ u.seq.comqueue # <<>> /\ u.seq.inflight = NoCommand
             THEN ToClient([u EXCEPT !.seq.comqueue = Tail(@)], Head(u.seq.comqueue))
             ELSE u
    IN  IF v.seq.deleted /\ ~v.raised THEN SeqDelete(v) ELSE v

\* result_callback() of the sequencer.
result_callback(s, ok) ==
    LET c == s.seq.inflight
        t == [s EXCEPT !.seq.inflight = NoCommand, !.client = Tail(@)]
        u == IF t.seq.client /\ t.seq.comqueue # <<>>
             THEN ToClient([t EXCEPT !.seq.comqueue = Tail(@)], Head(t.seq.comqueue))
             ELSE t
        v == Callback(u, c, ok)
    IN  IF v.seq.deleted /\ ~v.raised THEN SeqDelete(v) ELSE v

CloseIndex(s, i) ==
    IF s.sess.max_index < i \/ s.sess.media_timeout_index = i THEN s
    ELSE send_command(s, Command("D", "caller", i, "nobody", "last"))

\* delete(): every index that the proxy did not close itself is closed, the last first.
delete(s) ==
    SeqDelete([CloseIndex(CloseIndex(s, 1), 0) EXCEPT !.sess.max_index = -1, !.sess.rtpc = FALSE])

\* The updates and recordings with the sequencer that refer to the session.
Refers(c) == c # NoCommand /\ c.stage \in {"section", "play", "record", "record_o"}

\* __del__(), once nothing refers to the session.
Collect(s) ==
    IF \/ s.sess.held \/ ~s.sess.rtpc \/ Refers(s.seq.inflight)
       \/ \E i \in DOMAIN s.seq.comqueue : Refers(s.seq.comqueue[i])
    THEN s ELSE delete(s)

-----------------------------------------------------------------------------
Init ==
    /\ seq = [inflight |-> NoCommand, comqueue |-> <<>>, client |-> TRUE, deleted |-> FALSE]
    /\ client = <<>> /\ opened = {}
    /\ sess = [max_index |-> -1, media_timeout_index |-> -1, exists |-> [d \in Sides |-> FALSE],
               held |-> TRUE, rtpc |-> TRUE]
    /\ body = [b \in Bodies |-> [st |-> "new", left |-> {}, needs_update |-> TRUE, told |-> <<>>]]
    /\ media = [m \in Media |-> "new"]

SdpChange(side, b) ==
    /\ sess.held /\ body[b].st = "new"
    /\ \E sects \in 0..MaxSections, bad \in BOOLEAN :
          /\ bad => sects > 0
          /\ Become(on_sdp_change(State, side, b, sects, bad))

\* _play() opens the other side first if need be, _stop_play() does not; without
\* this side both tell the caller at once.
Play(side, m) ==
    /\ sess.held /\ media[m] = "new"
    /\ LET s == [State EXCEPT !.media[m] = "waits"] IN
       Become(IF ~sess.exists[side] THEN [s EXCEPT !.media[m] = "told"]
              ELSE IF ~sess.exists[Other(side)] THEN update(s, Other(side), 0, m, "play")
              ELSE send_command(s, Command("M", side, 0, m, "last")))

StopPlay(side, m) ==
    /\ sess.held /\ media[m] = "new"
    /\ Become(IF ~sess.exists[side] THEN [State EXCEPT !.media[m] = "told"]
              ELSE send_command([State EXCEPT !.media[m] = "waits"],
                                Command("M", side, 0, m, "last")))

\* start_recording() of both sides, in two stages, after an update if need be.
StartRecording(m) ==
    /\ sess.held /\ media[m] = "new"
    /\ LET s == [State EXCEPT !.media[m] = "waits"] IN
       Become(IF ~sess.exists["caller"] THEN update(s, "caller", 0, m, "record")
              ELSE send_command(s, Command("M", "caller", 0, m, "record_o")))

\* _copy() hands update() the side in place of the session: it raises if there is
\* no session yet.
Copy(side, m) ==
    /\ sess.held /\ media[m] = "new"
    /\ Become(IF ~sess.exists[side] THEN [State EXCEPT !.media[m] = "raised"]
              ELSE send_command([State EXCEPT !.media[m] = "waits"],
                                Command("M", side, 0, m, "last")))

\* The proxy tells the call that it has closed an index for want of media.
MediaTimeout(i) ==
    /\ sess.held /\ i \in opened /\ sess.media_timeout_index = -1
    /\ Become([State EXCEPT !.sess.media_timeout_index = i, !.opened = @ \ {i}])

\* The answer to the command in flight, or None when it was given up.
Result ==
    /\ client # <<>>
    /\ \E ok \in BOOLEAN : Become(Collect(result_callback(State, ok)))

\* The call is over and lets go of the session.
Release ==
    /\ sess.held
    /\ Become(Collect([State EXCEPT !.sess.held = FALSE]))

Next ==
    \/ \E d \in Sides, b \in Bodies : SdpChange(d, b)
    \/ \E d \in Sides, m \in Media : Play(d, m) \/ StopPlay(d, m) \/ Copy(d, m)
    \/ \E m \in Media : StartRecording(m)
    \/ \E i \in Indexes : MediaTimeout(i)
    \/ Result \/ Release

Spec == Init /\ [][Next]_vars

\* The client answers every command (AnsweredOnce of RtppClient), and every call
\* ends.
FairSpec == Spec /\ WF_vars(Result) /\ WF_vars(Release)

-----------------------------------------------------------------------------
Commands ==
    {NoCommand} \cup [op : {"U", "D", "M"}, side : Sides, idx : Indexes,
                      to : Bodies \cup Media \cup {"nobody"},
                      stage : {"section", "play", "record", "record_o", "last"}]

TypeOK ==
    /\ seq.inflight \in Commands /\ seq.comqueue \in Seq(Commands \ {NoCommand})
    /\ seq.client \in BOOLEAN /\ seq.deleted \in BOOLEAN
    /\ client \in Seq(Commands \ {NoCommand}) /\ opened \subseteq Indexes
    /\ sess \in [max_index : -1..1, media_timeout_index : -1..1, exists : [Sides -> BOOLEAN],
                 held : BOOLEAN, rtpc : BOOLEAN]
    /\ body \in [Bodies -> [st : {"new", "held", "lost", "raised"}, left : SUBSET Indexes,
                            needs_update : BOOLEAN, told : Seq({"done", "error"})]]
    /\ media \in [Media -> {"new", "waits", "told", "twice", "raised"}]

Todo == (IF seq.inflight = NoCommand THEN <<>> ELSE <<seq.inflight>>) \o seq.comqueue

\* Nothing the call has asked for is forgotten or answered twice: a body that the
\* session has taken goes back exactly once, when all its sections are done or one
\* fails, and so does a prompt or a recording that did not raise.
AnsweredOnce ==
    LET Waits(x) == \E i \in DOMAIN Todo : Todo[i].to = x IN
    /\ \A b \in Bodies : Len(body[b].told) <= 1
    /\ \A b \in Bodies : body[b].st = "held" =>
          (body[b].told = <<>>) <=> body[b].needs_update /\ Waits(b)
    /\ \A m \in Media : media[m] # "twice" /\ (media[m] = "waits" <=> Waits(m))

\* A body is given back as done only when the proxy has answered for every section.
DoneIsComplete ==
    \A b \in Bodies : body[b].told = <<"done">> => body[b].left = {}

\* Whatever the order in which the call ends, updates are answered and callbacks
\* send further commands, once the sequencer has run dry every index the proxy was
\* told to open has been closed, unless the proxy closed it itself.
Released == ~seq.client => opened \subseteq {sess.media_timeout_index} /\ client = <<>>

\* The sequencer is a queue: one command at a time, in order, none lost.
Queue == INSTANCE CommandQueue WITH todo <- Todo, working <- client
InOrder == Queue!Spec

\* The session of a call that is over is deleted, and the sequencer, its queue run
\* dry, lets go of the client.
Deleted == ~sess.held ~> (~seq.client /\ seq.comqueue = <<>>)

\* A body is given back once, complete, and the indexes it has opened at the proxy
\* are closed in the end (and the types).
SessionSound == TypeOK /\ AnsweredOnce /\ DoneIsComplete /\ Released
=============================================================================
