------------------------- MODULE RtppSession_proofs -------------------------
(***************************************************************************)
(* SessionSound, and that the sequencer of RtppSession is the queue that   *)
(* CommandQueue describes, for any number of bodies and other operations.  *)
(***************************************************************************)
EXTENDS RtppSession, SequenceTheorems, TLAPS

-----------------------------------------------------------------------------
(* The commands, and the state while an operation runs.                    *)

Cmd == {c \in [op : {"U", "D", "M"}, side : Sides, idx : Indexes,
               to : Bodies \cup Media \cup {"nobody"},
               stage : {"section", "play", "record", "record_o", "last"}] :
           /\ c.stage = "section" => c.op = "U" /\ c.to \in Bodies
           /\ c.stage \in {"play", "record"} => c.op = "U" /\ c.to \in Media
           /\ c.stage = "record_o" => c.op = "M" /\ c.to \in Media
           /\ c.stage = "last" => c.op # "U" /\ c.to \notin Bodies}

Seqs  == [inflight : {NoCommand} \cup Cmd, comqueue : Seq(Cmd), client : BOOLEAN, deleted : BOOLEAN]
Sess  == [max_index : -1..1, media_timeout_index : -1..1, exists : [Sides -> BOOLEAN],
          held : BOOLEAN, rtpc : BOOLEAN]
Body  == [st : {"new", "held", "lost", "raised"}, left : SUBSET Indexes,
          needs_update : BOOLEAN, told : Seq({"done", "error"})]
Medium == {"new", "waits", "told", "twice", "raised"}

States == [seq : Seqs, client : Seq(Cmd), sess : Sess, body : [Bodies -> Body],
           media : [Media -> Medium], opened : SUBSET Indexes, raised : BOOLEAN]

\* The commands taken and not answered, the one the client has first.
Line(q) == (IF q.inflight = NoCommand THEN <<>> ELSE <<q.inflight>>) \o q.comqueue

\* The client has the command in flight and nothing else; nothing waits behind nothing.
QueueOK(s) ==
    /\ s.client = (IF s.seq.inflight = NoCommand THEN <<>> ELSE <<s.seq.inflight>>)
    /\ s.seq.inflight = NoCommand => s.seq.comqueue = <<>>
    /\ ~s.seq.client => s.seq.inflight = NoCommand

LEMMA CmdFacts ==
    ASSUME NEW c \in Cmd
    PROVE  /\ c # NoCommand /\ c.idx \in Indexes /\ c.op \in {"U", "D", "M"}
           /\ c.to \in Bodies \cup Media \cup {"nobody"}
           /\ c.stage \in {"section", "play", "record", "record_o", "last"}
           /\ c.stage = "section" => c.op = "U" /\ c.to \in Bodies
           /\ c.stage \in {"play", "record"} => c.op = "U" /\ c.to \in Media
           /\ c.stage = "record_o" => c.op = "M" /\ c.to \in Media
           /\ c.stage = "last" => c.op # "U" /\ c.to \notin Bodies
BY DEF Cmd, NoCommand

LEMMA LineFacts ==
    ASSUME NEW q \in Seqs, q.inflight = NoCommand => q.comqueue = <<>>
    PROVE  /\ Line(q) \in Seq(Cmd)
           /\ q.inflight = NoCommand <=> Line(q) = <<>>
           /\ q.inflight # NoCommand => /\ Line(q) # <<>> /\ Line(q)[1] = q.inflight
                                        /\ Tail(Line(q)) = q.comqueue
                                        /\ Line(q) = <<q.inflight>> \o q.comqueue
<1>1. q.comqueue \in Seq(Cmd) /\ q.inflight \in {NoCommand} \cup Cmd
  BY DEF Seqs
<1>2. CASE q.inflight = NoCommand
  <2>1. Line(q) = <<>> \o <<>>
    BY <1>2 DEF Line
  <2>2. Line(q) = <<>>
    BY <2>1
  <2> QED BY <1>2, <2>2
<1>3. CASE q.inflight # NoCommand
  <2>1. Line(q) = <<q.inflight>> \o q.comqueue
    BY <1>3 DEF Line
  <2>2. q.inflight \in Cmd
    BY <1>1, <1>3
  <2>3. ASSUME NEW c \in Cmd, NEW r \in Seq(Cmd)
        PROVE  <<c>> \o r \in Seq(Cmd) /\ <<c>> \o r # <<>> /\ (<<c>> \o r)[1] = c
               /\ Tail(<<c>> \o r) = r
    OBVIOUS
  <2> QED BY <1>1, <1>3, <2>1, <2>2, <2>3
<1> QED BY <1>2, <1>3

LEMMA ToClientIs ==
    ASSUME NEW s \in States, NEW c \in Cmd
    PROVE  /\ ToClient(s, c) \in States
           /\ ToClient(s, c).seq.inflight = c /\ ToClient(s, c).client = Append(s.client, c)
           /\ ToClient(s, c).seq.comqueue = s.seq.comqueue
           /\ ToClient(s, c).seq.client <=> s.seq.client
           /\ ToClient(s, c).seq.deleted <=> s.seq.deleted
           /\ ToClient(s, c).raised <=> s.raised
           /\ ToClient(s, c).opened = Opens(s.opened, c)
           /\ ToClient(s, c).sess = s.sess /\ ToClient(s, c).body = s.body
           /\ ToClient(s, c).media = s.media
<1>1. Append(s.client, c) \in Seq(Cmd)
  BY DEF States
<1>2. Opens(s.opened, c) \in SUBSET Indexes
  BY CmdFacts DEF States, Opens
<1>3. [s.seq EXCEPT !.inflight = c] \in Seqs
  BY DEF States, Seqs
<1>4. ToClient(s, c) = [s EXCEPT !.seq = [s.seq EXCEPT !.inflight = c],
                                 !.client = Append(s.client, c), !.opened = Opens(s.opened, c)]
  BY DEF ToClient, States, Seqs
<1>5. ToClient(s, c) \in States
  BY <1>1, <1>2, <1>3, <1>4 DEF States
<1>6. /\ ToClient(s, c).seq = [s.seq EXCEPT !.inflight = c]
      /\ ToClient(s, c).client = Append(s.client, c)
      /\ ToClient(s, c).opened = Opens(s.opened, c)
      /\ ToClient(s, c).sess = s.sess /\ ToClient(s, c).body = s.body
      /\ ToClient(s, c).media = s.media /\ ToClient(s, c).raised = s.raised
  BY <1>4 DEF States
<1>7. /\ [s.seq EXCEPT !.inflight = c].inflight = c
      /\ [s.seq EXCEPT !.inflight = c].comqueue = s.seq.comqueue
      /\ [s.seq EXCEPT !.inflight = c].client = s.seq.client
      /\ [s.seq EXCEPT !.inflight = c].deleted = s.seq.deleted
  BY DEF States, Seqs
<1> QED BY <1>5, <1>6, <1>7

LEMMA QueuedIs ==
    ASSUME NEW s \in States, NEW d \in Seq(Cmd)
    PROVE  /\ [s EXCEPT !.seq.comqueue = d] \in States
           /\ [s EXCEPT !.seq.comqueue = d].seq.inflight = s.seq.inflight
           /\ [s EXCEPT !.seq.comqueue = d].seq.comqueue = d
           /\ [s EXCEPT !.seq.comqueue = d].seq.client <=> s.seq.client
           /\ [s EXCEPT !.seq.comqueue = d].seq.deleted <=> s.seq.deleted
           /\ [s EXCEPT !.seq.comqueue = d].raised <=> s.raised
           /\ [s EXCEPT !.seq.comqueue = d].client = s.client
           /\ [s EXCEPT !.seq.comqueue = d].opened = s.opened
           /\ [s EXCEPT !.seq.comqueue = d].sess = s.sess
           /\ [s EXCEPT !.seq.comqueue = d].body = s.body
           /\ [s EXCEPT !.seq.comqueue = d].media = s.media
<1>1. [s.seq EXCEPT !.comqueue = d] \in Seqs
  BY DEF States, Seqs
<1>2. [s EXCEPT !.seq.comqueue = d] = [s EXCEPT !.seq = [s.seq EXCEPT !.comqueue = d]]
  BY DEF States, Seqs
<1>3. [s EXCEPT !.seq = [s.seq EXCEPT !.comqueue = d]] \in States
  BY <1>1 DEF States
<1>4. /\ [s EXCEPT !.seq = [s.seq EXCEPT !.comqueue = d]].seq = [s.seq EXCEPT !.comqueue = d]
      /\ [s EXCEPT !.seq = [s.seq EXCEPT !.comqueue = d]].client = s.client
      /\ [s EXCEPT !.seq = [s.seq EXCEPT !.comqueue = d]].opened = s.opened
      /\ [s EXCEPT !.seq = [s.seq EXCEPT !.comqueue = d]].sess = s.sess
      /\ [s EXCEPT !.seq = [s.seq EXCEPT !.comqueue = d]].body = s.body
      /\ [s EXCEPT !.seq = [s.seq EXCEPT !.comqueue = d]].media = s.media
      /\ [s EXCEPT !.seq = [s.seq EXCEPT !.comqueue = d]].raised = s.raised
  BY DEF States
<1>5. /\ [s.seq EXCEPT !.comqueue = d].inflight = s.seq.inflight
      /\ [s.seq EXCEPT !.comqueue = d].comqueue = d
      /\ [s.seq EXCEPT !.comqueue = d].client = s.seq.client
      /\ [s.seq EXCEPT !.comqueue = d].deleted = s.seq.deleted
  BY DEF States, Seqs
<1> QED BY <1>2, <1>3, <1>4, <1>5

\* send_command(): the command is the last in line, and the proxy learns of it at once
\* if it is the only one.
LEMMA SendIs ==
    ASSUME NEW s \in States, QueueOK(s), s.seq.client, NEW c \in Cmd
    PROVE  /\ send_command(s, c) \in States /\ QueueOK(send_command(s, c))
           /\ Line(send_command(s, c).seq) = Append(Line(s.seq), c)
           /\ send_command(s, c).seq.client
           /\ send_command(s, c).seq.deleted <=> s.seq.deleted
           /\ send_command(s, c).raised <=> s.raised
           /\ send_command(s, c).opened = IF Line(s.seq) = <<>> THEN Opens(s.opened, c) ELSE s.opened
           /\ send_command(s, c).sess = s.sess /\ send_command(s, c).body = s.body
           /\ send_command(s, c).media = s.media
<1>t. /\ s.seq \in Seqs /\ s.seq.comqueue \in Seq(Cmd) /\ s.seq.inflight \in {NoCommand} \cup Cmd
      /\ s.seq.inflight = NoCommand => s.seq.comqueue = <<>>
      /\ c # NoCommand
  BY CmdFacts DEF States, Seqs, QueueOK
<1>l. s.seq.inflight = NoCommand <=> Line(s.seq) = <<>>
  BY <1>t, LineFacts
<1>1. CASE s.seq.inflight = NoCommand
  <2>1. send_command(s, c) = ToClient(s, c)
    BY <1>1 DEF send_command
  <2>2. /\ ToClient(s, c).seq.inflight = c /\ ToClient(s, c).seq.comqueue = <<>>
        /\ ToClient(s, c).client = <<c>> /\ ToClient(s, c).seq.client
    BY <1>1, <1>t, ToClientIs DEF QueueOK
  <2>3. Line(ToClient(s, c).seq) = <<c>> /\ Append(Line(s.seq), c) = <<c>>
    <3>1. Line(ToClient(s, c).seq) = <<c>> \o <<>>
      BY <2>2, <1>t DEF Line
    <3>2. <<c>> \o <<>> = <<c>> /\ Append(<<>>, c) = <<c>>
      OBVIOUS
    <3> QED BY <1>1, <1>l, <3>1, <3>2
  <2>4. QueueOK(ToClient(s, c))
    BY <2>2, <1>t DEF QueueOK
  <2> QED BY <1>1, <1>l, <2>1, <2>2, <2>3, <2>4, ToClientIs
<1>2. CASE s.seq.inflight # NoCommand
  <2>1. send_command(s, c) = [s EXCEPT !.seq.comqueue = Append(s.seq.comqueue, c)]
    BY <1>2 DEF send_command, States, Seqs
  <2>2. Append(s.seq.comqueue, c) \in Seq(Cmd)
    BY <1>t
  <2> DEFINE r == send_command(s, c)
             d == Append(s.seq.comqueue, c)
  <2>d. d \in Seq(Cmd) /\ r = [s EXCEPT !.seq.comqueue = d]
    BY <2>1, <2>2
  <2> HIDE DEF r, d
  <2>3. /\ r \in States /\ r.seq.inflight = s.seq.inflight /\ r.seq.comqueue = d
        /\ r.seq.client /\ r.client = s.client /\ r.opened = s.opened
        /\ (r.seq.deleted <=> s.seq.deleted) /\ (r.raised <=> s.raised)
        /\ r.sess = s.sess /\ r.body = s.body /\ r.media = s.media
    BY <2>d, QueuedIs
  <2>4. QueueOK(r)
    BY <2>3, <1>2 DEF QueueOK
  <2>5. Line(r.seq) = <<s.seq.inflight>> \o Append(s.seq.comqueue, c)
        /\ Line(s.seq) = <<s.seq.inflight>> \o s.seq.comqueue
    BY <2>3, <1>2 DEF Line, d
  <2>6. ASSUME NEW x \in Cmd, NEW q \in Seq(Cmd)
        PROVE  <<x>> \o Append(q, c) = Append(<<x>> \o q, c)
    OBVIOUS
  <2>7. Line(r.seq) = Append(Line(s.seq), c)
    BY <2>5, <2>6, <1>t, <1>2
  <2> QED BY <2>3, <2>4, <2>7, <1>2, <1>l DEF r
<1> QED BY <1>1, <1>2

-----------------------------------------------------------------------------
(* The invariant, of the state while an operation runs.                    *)

Waits(L, x) == \E k \in DOMAIN L : L[k].to = x

\* A body that goes back complete has no section left; one that is held has an update in
\* line for every section that is left.
BodyAt(L, x, b) ==
    /\ x.told \in {<<>>, <<"done">>, <<"error">>} /\ (x.needs_update <=> x.told = <<>>)
    /\ x.told = <<"done">> => x.left = {}
    /\ x.st = "new" => x.told = <<>> /\ ~Waits(L, b)
    /\ x.st = "held" /\ x.needs_update =>
          /\ x.left # {}
          /\ \A i \in x.left : \E k \in DOMAIN L : L[k].to = b /\ L[k].idx = i

\* An operation that waits has one command in line.
MediaAt(L, v, m) ==
    /\ v # "twice" /\ (v = "waits" <=> Waits(L, m))
    /\ \A j, k \in DOMAIN L : L[j].to = m /\ L[k].to = m => j = k

\* Until the session is deleted max_index is up to date and the sequencer takes
\* commands; from then on no command in line opens an index or starts another one, and
\* those that close what is still open are in line.
SessAt(L, q, e, o) ==
    /\ e.held => e.rtpc
    /\ e.rtpc => /\ q.client /\ ~q.deleted
                 /\ \A i \in o : i <= e.max_index
                 /\ \A k \in DOMAIN L : L[k].op = "U" => L[k].idx <= e.max_index
                 /\ \A k \in DOMAIN L : L[k].op # "D"
    /\ ~e.rtpc => /\ \A k \in DOMAIN L : ~Refers(L[k])
                  /\ \A i \in o \ {e.media_timeout_index} :
                        \E k \in DOMAIN L : L[k].op = "D" /\ L[k].idx = i
                  /\ L # <<>> => (L[1].op = "D" => L[1].idx \notin o)

BodiesOK(s) == \A b \in Bodies : BodyAt(Line(s.seq), s.body[b], b)
MediaOK(s)  == \A m \in Media : MediaAt(Line(s.seq), s.media[m], m)
SessOK(s)   == SessAt(Line(s.seq), s.seq, s.sess, s.opened)

Sound(s) == s \in States /\ QueueOK(s) /\ BodiesOK(s) /\ MediaOK(s) /\ SessOK(s)

\* r is s after c was given to the sequencer, but for the session.
Sent(s, r, c) ==
    /\ r \in States /\ QueueOK(r) /\ Line(r.seq) = Append(Line(s.seq), c)
    /\ r.seq.client /\ (r.seq.deleted <=> s.seq.deleted) /\ (r.raised <=> s.raised)
    /\ r.opened = IF Line(s.seq) = <<>> THEN Opens(s.opened, c) ELSE s.opened
    /\ r.body = s.body /\ r.media = s.media

LEMMA AppendAt ==
    ASSUME NEW L \in Seq(Cmd), NEW c \in Cmd
    PROVE  /\ Append(L, c) \in Seq(Cmd) /\ Append(L, c) # <<>>
           /\ Len(L) \in Nat /\ DOMAIN L = 1 .. Len(L)
           /\ DOMAIN Append(L, c) = DOMAIN L \cup {Len(L) + 1} /\ Len(L) + 1 \notin DOMAIN L
           /\ \A k \in DOMAIN L : k \in DOMAIN Append(L, c) /\ Append(L, c)[k] = L[k]
           /\ Append(L, c)[Len(L) + 1] = c
           /\ L # <<>> => 1 \in DOMAIN L /\ Append(L, c)[1] = L[1]
           /\ L = <<>> => Append(L, c)[1] = c
           /\ \A k \in DOMAIN L : L[k] \in Cmd
<1>1. /\ Append(L, c) \in Seq(Cmd) /\ Append(L, c) # <<>>
      /\ Len(L) \in Nat /\ DOMAIN L = 1 .. Len(L) /\ DOMAIN Append(L, c) = 1 .. Len(L) + 1
      /\ \A k \in 1 .. Len(L) : Append(L, c)[k] = L[k]
      /\ Append(L, c)[Len(L) + 1] = c
      /\ \A k \in DOMAIN L : L[k] \in Cmd
  OBVIOUS
<1>2. L # <<>> => Len(L) >= 1
  OBVIOUS
<1>3. L = <<>> => Len(L) = 0
  OBVIOUS
<1>4. /\ DOMAIN Append(L, c) = DOMAIN L \cup {Len(L) + 1} /\ Len(L) + 1 \notin DOMAIN L
      /\ \A k \in DOMAIN L : k \in DOMAIN Append(L, c) /\ Append(L, c)[k] = L[k]
  BY <1>1
<1>5. /\ L # <<>> => 1 \in DOMAIN L /\ Append(L, c)[1] = L[1]
      /\ L = <<>> => Append(L, c)[1] = c
  BY <1>1, <1>2, <1>3
<1> QED BY <1>1, <1>4, <1>5

LEMMA TailAt ==
    ASSUME NEW L \in Seq(Cmd), L # <<>>
    PROVE  /\ Tail(L) \in Seq(Cmd) /\ 1 \in DOMAIN L /\ L[1] \in Cmd /\ DOMAIN L = 1 .. Len(L)
           /\ Len(L) \in Nat
           /\ \A k \in DOMAIN Tail(L) : k \in Nat /\ k + 1 \in DOMAIN L /\ Tail(L)[k] = L[k + 1]
           /\ \A k \in DOMAIN L : k # 1 => k - 1 \in DOMAIN Tail(L) /\ Tail(L)[k - 1] = L[k]
           /\ Tail(L) # <<>> => Head(Tail(L)) = Tail(L)[1] /\ 1 \in DOMAIN Tail(L)
OBVIOUS

LEMMA UpdateIs ==
    ASSUME NEW s \in States, QueueOK(s), s.seq.client, NEW side \in Sides, NEW i \in Indexes,
           NEW to, NEW stage, Command("U", side, i, to, stage) \in Cmd
    PROVE  /\ Sent(s, update(s, side, i, to, stage), Command("U", side, i, to, stage))
           /\ update(s, side, i, to, stage).sess =
                 [s.sess EXCEPT !.max_index = IF s.sess.max_index < i THEN i ELSE s.sess.max_index]
<1> DEFINE mi == IF s.sess.max_index < i THEN i ELSE s.sess.max_index
           e == [s.sess EXCEPT !.max_index = mi]
           t == [s EXCEPT !.sess = e]
           c == Command("U", side, i, to, stage)
<1>1. e \in Sess
  BY DEF States, Sess, Indexes, MaxSections
<1>2. /\ t \in States /\ t.seq = s.seq /\ t.client = s.client /\ t.sess = e
      /\ t.body = s.body /\ t.media = s.media /\ t.opened = s.opened /\ t.raised = s.raised
  BY <1>1 DEF States
<1>3. update(s, side, i, to, stage) = send_command(t, c)
  BY DEF update, States, Sess
<1> HIDE DEF t, e, c, mi
<1>4. QueueOK(t) /\ t.seq.client
  BY <1>2 DEF QueueOK
<1>5. c \in Cmd
  BY DEF c
<1>6. Sent(t, send_command(t, c), c) /\ send_command(t, c).sess = e
  BY <1>2, <1>4, <1>5, SendIs DEF Sent
<1>7. Sent(s, send_command(t, c), c)
  BY <1>2, <1>6 DEF Sent
<1> QED BY <1>3, <1>6, <1>7 DEF c, e, mi

\* Another command in line leaves the bodies and the operations alone that it is not for.
LEMMA SentBodies ==
    ASSUME NEW L \in Seq(Cmd), NEW c \in Cmd, NEW x, NEW b, BodyAt(L, x, b),
           c.to # b \/ x.st # "new"
    PROVE  BodyAt(Append(L, c), x, b)
BY AppendAt DEF BodyAt, Waits

LEMMA SentMedia ==
    ASSUME NEW L \in Seq(Cmd), NEW c \in Cmd, NEW v, NEW m, MediaAt(L, v, m), c.to # m
    PROVE  MediaAt(Append(L, c), v, m)
BY AppendAt DEF MediaAt, Waits

\* A command for an operation that has none in line.
LEMMA SentWaits ==
    ASSUME NEW L \in Seq(Cmd), NEW c \in Cmd, NEW m, ~Waits(L, m), c.to = m
    PROVE  MediaAt(Append(L, c), "waits", m)
BY AppendAt DEF MediaAt, Waits

LEMMA SentSess ==
    ASSUME NEW s \in States, QueueOK(s), SessOK(s), s.sess.rtpc, NEW c \in Cmd, NEW r,
           Sent(s, r, c), r.sess.held <=> s.sess.held, r.sess.rtpc,
           r.sess.max_index >= s.sess.max_index, c.op = "U" => c.idx <= r.sess.max_index,
           c.op # "D"
    PROVE  SessOK(r)
<1>1. Line(s.seq) \in Seq(Cmd) /\ s.seq \in Seqs
  BY LineFacts DEF States, QueueOK
<1>2. r \in States /\ r.sess \in Sess /\ s.sess \in Sess /\ s.opened \in SUBSET Indexes
  BY DEF Sent, States
<1>3. r.sess.max_index \in Int /\ s.sess.max_index \in Int
  BY <1>2 DEF Sess
<1>4. \A k \in DOMAIN Line(s.seq) : Line(s.seq)[k].idx \in Int
  <2>1. \A k \in DOMAIN Line(s.seq) : Line(s.seq)[k] \in Cmd
    BY <1>1, AppendAt
  <2> QED BY <2>1, CmdFacts DEF Indexes, MaxSections
<1>5. \A i \in r.opened : i <= r.sess.max_index
  BY <1>2, <1>3 DEF Sent, Opens, SessOK, SessAt, Indexes, MaxSections
<1>6. \A k \in DOMAIN Line(r.seq) : Line(r.seq)[k].op = "U" => Line(r.seq)[k].idx <= r.sess.max_index
  BY <1>1, <1>3, <1>4, AppendAt DEF Sent, SessOK, SessAt
<1>7. r.seq.client /\ ~r.seq.deleted
  BY DEF Sent, SessOK, SessAt
<1>8. \A k \in DOMAIN Line(r.seq) : Line(r.seq)[k].op # "D"
  BY <1>1, AppendAt DEF Sent, SessOK, SessAt
<1> QED BY <1>5, <1>6, <1>7, <1>8 DEF SessOK, SessAt

LEMMA MediaSet ==
    ASSUME NEW s \in States, NEW m \in Media, NEW v \in Medium
    PROVE  /\ [s EXCEPT !.media[m] = v] \in States
           /\ [s EXCEPT !.media[m] = v].media = [s.media EXCEPT ![m] = v]
           /\ [s EXCEPT !.media[m] = v].seq = s.seq
           /\ [s EXCEPT !.media[m] = v].client = s.client
           /\ [s EXCEPT !.media[m] = v].sess = s.sess
           /\ [s EXCEPT !.media[m] = v].body = s.body
           /\ [s EXCEPT !.media[m] = v].opened = s.opened
           /\ [s EXCEPT !.media[m] = v].raised = s.raised
<1>1. [s.media EXCEPT ![m] = v] \in [Media -> Medium]
  BY DEF States
<1>2. [s EXCEPT !.media[m] = v] = [s EXCEPT !.media = [s.media EXCEPT ![m] = v]]
  BY DEF States
<1> QED BY <1>1, <1>2 DEF States

LEMMA BecomeSound ==
    ASSUME NEW r, Sound(r), Become(r)
    PROVE  Sound(State') /\ seq' = r.seq
<1>1. /\ seq' = r.seq /\ client' = r.client /\ sess' = r.sess /\ body' = r.body
      /\ media' = r.media /\ opened' = r.opened
  BY DEF Become
<1> DEFINE t == [seq |-> seq', client |-> client', sess |-> sess', body |-> body', media |-> media',
                 opened |-> opened', raised |-> FALSE]
<1>2. State' = t
  BY DEF State
<1>3. /\ t \in States /\ t.seq = r.seq /\ t.client = r.client /\ t.sess = r.sess /\ t.body = r.body
      /\ t.media = r.media /\ t.opened = r.opened
  BY <1>1 DEF Sound, States
<1> HIDE DEF t
<1>4. Sound(t)
  BY <1>3 DEF Sound, QueueOK, BodiesOK, MediaOK, SessOK
<1> QED BY <1>1, <1>2, <1>4

LEMMA StateFields ==
    ASSUME Sound(State)
    PROVE  /\ State \in States /\ State.seq = seq /\ State.client = client /\ State.sess = sess
           /\ State.body = body /\ State.media = media /\ State.opened = opened
           /\ seq \in Seqs /\ sess \in Sess /\ body \in [Bodies -> Body]
           /\ media \in [Media -> Medium] /\ opened \in SUBSET Indexes
           /\ Line(seq) \in Seq(Cmd)
<1>1. /\ State \in States /\ State.seq = seq /\ State.client = client /\ State.sess = sess
      /\ State.body = body /\ State.media = media /\ State.opened = opened
  BY DEF State, Sound
<1>2. /\ seq \in Seqs /\ sess \in Sess /\ body \in [Bodies -> Body]
      /\ media \in [Media -> Medium] /\ opened \in SUBSET Indexes
  BY <1>1 DEF States
<1>3. seq.inflight = NoCommand => seq.comqueue = <<>>
  BY <1>1 DEF Sound, QueueOK
<1> QED BY <1>1, <1>2, <1>3, LineFacts

\* A prompt or a recording asks for its first command.
LEMMA Asked ==
    ASSUME NEW s, Sound(s), s.sess.held, NEW m \in Media, s.media[m] = "new",
           NEW c \in Cmd, c.to = m, NEW r, Sent([s EXCEPT !.media[m] = "waits"], r, c),
           r.sess.held, r.sess.rtpc,
           r.sess.max_index >= s.sess.max_index, c.op = "U" => c.idx <= r.sess.max_index,
           c.op # "D"
    PROVE  Sound(r) /\ Line(r.seq) = Append(Line(s.seq), c)
<1> DEFINE t == [s EXCEPT !.media[m] = "waits"]
           L == Line(s.seq)
<1>1. /\ t \in States /\ t.seq = s.seq /\ t.client = s.client /\ t.sess = s.sess
      /\ t.body = s.body /\ t.opened = s.opened /\ t.media = [s.media EXCEPT ![m] = "waits"]
  BY MediaSet DEF Sound, Medium
<1> HIDE DEF t
<1>2. Sent(t, r, c)
  BY DEF t
<1>3. QueueOK(t) /\ SessOK(t) /\ t.sess.rtpc /\ t.sess.held
  BY <1>1 DEF Sound, QueueOK, SessOK, SessAt
<1>4. L \in Seq(Cmd)
  BY LineFacts DEF Sound, QueueOK, States
<1>5. SessOK(r)
  BY <1>1, <1>2, <1>3, SentSess
<1>6. Line(r.seq) = Append(L, c) /\ r.body = s.body /\ r.media = [s.media EXCEPT ![m] = "waits"]
  BY <1>1, <1>2 DEF Sent
<1> HIDE DEF L
<1>7. \A b \in Bodies : BodyAt(L, s.body[b], b) /\ b # m
  BY NamesAssumption DEF Sound, BodiesOK, L
<1>8. \A n \in Media : MediaAt(L, s.media[n], n)
  BY DEF Sound, MediaOK, L
<1>9. s.media \in [Media -> Medium] /\ ~Waits(L, m)
  BY <1>8 DEF Sound, States, MediaAt
<1>10. BodiesOK(r)
  <2>1. \A b \in Bodies : BodyAt(Append(L, c), s.body[b], b)
    BY <1>4, <1>7, SentBodies
  <2> QED BY <1>6, <2>1 DEF BodiesOK
<1>11. MediaOK(r)
  <2>1. MediaAt(Append(L, c), "waits", m)
    BY <1>4, <1>9, SentWaits
  <2>2. \A n \in Media \ {m} : MediaAt(Append(L, c), s.media[n], n)
    BY <1>4, <1>8, SentMedia
  <2>3. \A n \in Media : r.media[n] = IF n = m THEN "waits" ELSE s.media[n]
    BY <1>6, <1>9
  <2> QED BY <1>6, <2>1, <2>2, <2>3 DEF MediaOK
<1>12. r \in States /\ QueueOK(r)
  BY <1>2 DEF Sent
<1> QED BY <1>5, <1>6, <1>10, <1>11, <1>12 DEF Sound, L

\* An operation is answered at once, or raises.
LEMMA ToldAtOnce ==
    ASSUME NEW s, Sound(s), NEW m \in Media, s.media[m] = "new", NEW v \in {"told", "raised"}
    PROVE  /\ Sound([s EXCEPT !.media[m] = v])
           /\ Line([s EXCEPT !.media[m] = v].seq) = Line(s.seq)
<1> DEFINE t == [s EXCEPT !.media[m] = v]
           L == Line(s.seq)
<1>1. /\ t \in States /\ t.seq = s.seq /\ t.client = s.client /\ t.sess = s.sess
      /\ t.body = s.body /\ t.opened = s.opened /\ t.media = [s.media EXCEPT ![m] = v]
  <2>1. v \in Medium /\ s \in States
    BY DEF Medium, Sound
  <2> QED BY <2>1, MediaSet
<1> HIDE DEF t
<1>2. QueueOK(t) /\ SessOK(t) /\ BodiesOK(t)
  BY <1>1 DEF Sound, QueueOK, SessOK, BodiesOK
<1>3. s.media \in [Media -> Medium] /\ \A n \in Media : MediaAt(L, s.media[n], n)
  BY DEF Sound, States, MediaOK
<1>4. MediaAt(L, v, m)
  BY <1>3 DEF MediaAt
<1>5. MediaOK(t)
  BY <1>1, <1>3, <1>4 DEF MediaOK
<1> QED BY <1>1, <1>2, <1>5 DEF Sound, t

-----------------------------------------------------------------------------
(* The actions of the call while it holds the session.                     *)

\* What a step does to the line of commands: some come at the end, and the first may
\* have been answered.
Extends(L, M) == Len(L) <= Len(M) /\ \A k \in 1 .. Len(L) : M[k] = L[k]
Advances(L, M) == Extends(L, M) \/ (L # <<>> /\ Extends(Tail(L), M))

LEMMA ExtendsFacts ==
    ASSUME NEW L \in Seq(Cmd)
    PROVE  /\ Extends(L, L)
           /\ \A c \in Cmd : Extends(L, Append(L, c))
           /\ \A c \in Cmd, d \in Cmd : Extends(L, Append(Append(L, c), d))
<1>1. Extends(L, L)
  BY DEF Extends
<1>2. ASSUME NEW c \in Cmd
      PROVE  Extends(L, Append(L, c)) /\ Append(L, c) \in Seq(Cmd)
  BY AppendAt DEF Extends
<1>3. ASSUME NEW c \in Cmd, NEW d \in Cmd
      PROVE  Extends(L, Append(Append(L, c), d))
  BY AppendAt DEF Extends
<1> QED BY <1>1, <1>2, <1>3

\* What a session that is held may do: max_index and the sequencer are there.
LEMMA HeldFacts ==
    ASSUME NEW s, Sound(s), s.sess.held
    PROVE  /\ s.sess.rtpc /\ s.seq.client /\ ~s.seq.deleted /\ s \in States /\ QueueOK(s)
           /\ s.sess \in Sess /\ s.sess.max_index \in -1..1 /\ Line(s.seq) \in Seq(Cmd)
<1>1. s \in States /\ QueueOK(s) /\ s.sess \in Sess /\ s.seq \in Seqs
  BY DEF Sound, States
<1>2. Line(s.seq) \in Seq(Cmd)
  BY <1>1, LineFacts DEF QueueOK
<1>3. s.sess.rtpc /\ s.seq.client /\ ~s.seq.deleted
  BY DEF Sound, SessOK, SessAt
<1> QED BY <1>1, <1>2, <1>3 DEF Sess

LEMMA MaxIndex ==
    ASSUME NEW e \in Sess, NEW i \in Indexes
    PROVE  LET f == [e EXCEPT !.max_index = IF e.max_index < i THEN i ELSE e.max_index] IN
           /\ f.max_index >= e.max_index /\ i <= f.max_index /\ f \in Sess
           /\ (f.held <=> e.held) /\ (f.rtpc <=> e.rtpc)
           /\ f.media_timeout_index = e.media_timeout_index
BY DEF Sess, Indexes, MaxSections

\* The first command of an operation on the session.
LEMMA AskSends ==
    ASSUME NEW s, Sound(s), s.sess.held, NEW m \in Media, s.media[m] = "new",
           NEW c \in Cmd, c.to = m, c.op = "M"
    PROVE  /\ Sound(send_command([s EXCEPT !.media[m] = "waits"], c))
           /\ Line(send_command([s EXCEPT !.media[m] = "waits"], c).seq) = Append(Line(s.seq), c)
<1> DEFINE t == [s EXCEPT !.media[m] = "waits"]
           r == send_command(t, c)
<1>h. /\ s.sess.rtpc /\ s.seq.client /\ s \in States /\ QueueOK(s) /\ s.sess.max_index \in -1..1
  BY HeldFacts
<1>1. /\ t \in States /\ t.seq = s.seq /\ t.client = s.client /\ t.sess = s.sess
  BY MediaSet, <1>h DEF Medium
<1>2. QueueOK(t) /\ t.seq.client
  BY <1>1, <1>h DEF QueueOK
<1> HIDE DEF t
<1>3. Sent(t, r, c) /\ r.sess = s.sess
  BY <1>1, <1>2, SendIs DEF Sent
<1>4. r.sess.held /\ r.sess.rtpc /\ r.sess.max_index >= s.sess.max_index
  BY <1>3, <1>h
<1> HIDE DEF r
<1>5. Sent([s EXCEPT !.media[m] = "waits"], r, c)
  BY <1>3 DEF t
<1>6. Sound(r) /\ Line(r.seq) = Append(Line(s.seq), c)
  BY <1>4, <1>5, Asked
<1> QED BY <1>6 DEF r, t

LEMMA AskUpdates ==
    ASSUME NEW s, Sound(s), s.sess.held, NEW m \in Media, s.media[m] = "new",
           NEW side \in Sides, NEW stage \in {"play", "record"}
    PROVE  /\ Sound(update([s EXCEPT !.media[m] = "waits"], side, 0, m, stage))
           /\ \E c \in Cmd : Line(update([s EXCEPT !.media[m] = "waits"], side, 0, m, stage).seq)
                                = Append(Line(s.seq), c)
<1> DEFINE t == [s EXCEPT !.media[m] = "waits"]
           c == Command("U", side, 0, m, stage)
           r == update(t, side, 0, m, stage)
<1>h. /\ s.sess.rtpc /\ s.seq.client /\ s \in States /\ QueueOK(s) /\ s.sess.max_index \in -1..1
      /\ s.sess \in Sess
  BY HeldFacts
<1>1. /\ t \in States /\ t.seq = s.seq /\ t.client = s.client /\ t.sess = s.sess
  BY MediaSet, <1>h DEF Medium
<1>2. QueueOK(t) /\ t.seq.client
  BY <1>1, <1>h DEF QueueOK
<1>c. 0 \in Indexes
  BY DEF Indexes, MaxSections
<1>d. c \in Cmd /\ c.to = m /\ c.idx = 0 /\ c.op = "U"
  BY <1>c, NamesAssumption DEF Cmd, Command
<1> HIDE DEF t
<1>3. /\ Sent(t, r, c)
      /\ r.sess = [s.sess EXCEPT !.max_index = IF s.sess.max_index < 0 THEN 0 ELSE s.sess.max_index]
  BY <1>1, <1>2, <1>c, <1>d, UpdateIs
<1>4. r.sess.held /\ r.sess.rtpc /\ r.sess.max_index >= s.sess.max_index /\ 0 <= r.sess.max_index
  BY <1>3, <1>h, <1>c, MaxIndex
<1> HIDE DEF r, c
<1>5. Sent([s EXCEPT !.media[m] = "waits"], r, c)
  BY <1>3 DEF t
<1>6. Sound(r) /\ Line(r.seq) = Append(Line(s.seq), c)
  BY <1>4, <1>5, <1>d, Asked
<1> QED BY <1>6, <1>d DEF r, t

LEMMA MediaSteps ==
    ASSUME Sound(State), NEW d \in Sides, NEW m \in Media,
           Play(d, m) \/ StopPlay(d, m) \/ Copy(d, m) \/ StartRecording(m)
    PROVE  Sound(State') /\ Advances(Line(seq), Line(seq'))
<1>f. /\ State.media = media /\ State.sess = sess /\ State.seq = seq /\ Line(seq) \in Seq(Cmd)
  BY StateFields
<1>0. State.sess.held /\ State.media[m] = "new"
  BY <1>f DEF Play, StopPlay, Copy, StartRecording
<1>c. \A e \in Sides, st \in {"last", "record_o"} :
         /\ Command("M", e, 0, m, st) \in Cmd
         /\ Command("M", e, 0, m, st).to = m /\ Command("M", e, 0, m, st).op = "M"
  BY NamesAssumption DEF Cmd, Command, Indexes, MaxSections
<1>e. /\ \A e \in Sides : Other(e) \in Sides
      /\ "caller" \in Sides
  BY DEF Sides, Other
<1>1. ASSUME NEW r, Become(r), Sound(r), Line(r.seq) = Line(seq) \/ \E c \in Cmd : Line(r.seq) = Append(Line(seq), c)
      PROVE  Sound(State') /\ Advances(Line(seq), Line(seq'))
  <2>1. Sound(State') /\ seq' = r.seq
    BY <1>1, BecomeSound
  <2>2. Extends(Line(seq), Line(r.seq))
    BY <1>1, <1>f, ExtendsFacts
  <2> QED BY <2>1, <2>2 DEF Advances
<1>2. ASSUME NEW v \in {"told", "raised"}, Become([State EXCEPT !.media[m] = v])
      PROVE  Sound(State') /\ Advances(Line(seq), Line(seq'))
  BY <1>0, <1>1, <1>2, <1>f, ToldAtOnce
<1>3. ASSUME NEW e \in Sides, NEW st \in {"last", "record_o"},
             Become(send_command([State EXCEPT !.media[m] = "waits"], Command("M", e, 0, m, st)))
      PROVE  Sound(State') /\ Advances(Line(seq), Line(seq'))
  BY <1>0, <1>1, <1>3, <1>c, <1>f, AskSends
<1>4. ASSUME NEW e \in Sides, NEW st \in {"play", "record"},
             Become(update([State EXCEPT !.media[m] = "waits"], e, 0, m, st))
      PROVE  Sound(State') /\ Advances(Line(seq), Line(seq'))
  BY <1>0, <1>1, <1>4, <1>f, AskUpdates
<1>5. CASE Play(d, m)
  <2>1. [[State EXCEPT !.media[m] = "waits"] EXCEPT !.media[m] = "told"] = [State EXCEPT !.media[m] = "told"]
    BY StateFields DEF States
  <2> QED BY <1>5, <1>2, <1>3, <1>4, <1>e, <2>1 DEF Play
<1>6. CASE StopPlay(d, m)
  BY <1>6, <1>2, <1>3 DEF StopPlay
<1>7. CASE Copy(d, m)
  BY <1>7, <1>2, <1>3 DEF Copy
<1>8. CASE StartRecording(m)
  BY <1>8, <1>3, <1>4, <1>e DEF StartRecording
<1> QED BY <1>5, <1>6, <1>7, <1>8

\* A body whose sections are all in line.
LEMMA HeldBody ==
    ASSUME NEW L \in Seq(Cmd), NEW x, NEW b, x.told = <<>>, x.needs_update, x.st # "new",
           x.st = "held" => /\ x.left # {}
                            /\ \A i \in x.left : \E k \in DOMAIN L : L[k].to = b /\ L[k].idx = i
    PROVE  BodyAt(L, x, b)
BY DEF BodyAt

LEMMA BodySet ==
    ASSUME NEW s \in States, NEW b \in Bodies, NEW x \in Body
    PROVE  /\ [s EXCEPT !.body = [s.body EXCEPT ![b] = x]] \in States
           /\ [s EXCEPT !.body = [s.body EXCEPT ![b] = x]].body = [s.body EXCEPT ![b] = x]
           /\ [s EXCEPT !.body = [s.body EXCEPT ![b] = x]].seq = s.seq
           /\ [s EXCEPT !.body = [s.body EXCEPT ![b] = x]].client = s.client
           /\ [s EXCEPT !.body = [s.body EXCEPT ![b] = x]].sess = s.sess
           /\ [s EXCEPT !.body = [s.body EXCEPT ![b] = x]].media = s.media
           /\ [s EXCEPT !.body = [s.body EXCEPT ![b] = x]].opened = s.opened
           /\ [s EXCEPT !.body = [s.body EXCEPT ![b] = x]].raised = s.raised
<1>1. [s.body EXCEPT ![b] = x] \in [Bodies -> Body]
  BY DEF States
<1> QED BY <1>1 DEF States

\* One section: what is true of the state while the updates of a body are sent, all but
\* what BodyAt says of that body.
Opening(s, r, b, C) ==
    /\ r \in States /\ QueueOK(r) /\ SessOK(r) /\ MediaOK(r)
    /\ r.sess.held /\ r.sess.rtpc /\ r.seq.client /\ r.body = s.body
    /\ Line(r.seq) \in Seq(Cmd) /\ Extends(Line(s.seq), Line(r.seq))
    /\ \A a \in Bodies \ {b} : BodyAt(Line(r.seq), r.body[a], a)
    /\ \A i \in C : \E k \in DOMAIN Line(r.seq) : Line(r.seq)[k].to = b /\ Line(r.seq)[k].idx = i

LEMMA OneSection ==
    ASSUME NEW s, NEW b \in Bodies, NEW C \in SUBSET Int, NEW t, Opening(s, t, b, C),
           Line(s.seq) \in Seq(Cmd), NEW side \in Sides, NEW i \in Indexes
    PROVE  Opening(s, update(t, side, i, b, "section"), b, C \cup {i})
<1> DEFINE c == Command("U", side, i, b, "section")
           r == update(t, side, i, b, "section")
           L == Line(t.seq)
<1>d. c \in Cmd /\ c.to = b /\ c.idx = i /\ c.op = "U" /\ b \notin Media
  BY NamesAssumption DEF Cmd, Command
<1>t. t \in States /\ QueueOK(t) /\ t.seq.client /\ L \in Seq(Cmd) /\ t.sess \in Sess
  BY DEF Opening, States
<1>1. /\ Sent(t, r, c)
      /\ r.sess = [t.sess EXCEPT !.max_index = IF t.sess.max_index < i THEN i ELSE t.sess.max_index]
  BY <1>d, <1>t, UpdateIs
<1>2. /\ r.sess.max_index >= t.sess.max_index /\ i <= r.sess.max_index
      /\ (r.sess.held <=> t.sess.held) /\ (r.sess.rtpc <=> t.sess.rtpc)
  BY <1>1, <1>t, MaxIndex
<1> HIDE DEF c, r
<1>3. r.sess.held /\ r.sess.rtpc /\ t.sess.rtpc /\ SessOK(t)
  BY <1>2 DEF Opening
<1>4. SessOK(r)
  BY <1>1, <1>2, <1>3, <1>d, <1>t, SentSess
<1>5. Line(r.seq) = Append(L, c) /\ r.body = t.body /\ r.media = t.media
  BY <1>1 DEF Sent
<1>6. MediaOK(r)
  <2>1. \A n \in Media : MediaAt(L, t.media[n], n) /\ c.to # n
    BY <1>d DEF Opening, MediaOK
  <2>2. \A n \in Media : MediaAt(Append(L, c), t.media[n], n)
    BY <2>1, <1>t, <1>d, SentMedia
  <2> QED BY <2>2, <1>5 DEF MediaOK
<1>7. \A a \in Bodies \ {b} : BodyAt(Line(r.seq), r.body[a], a)
  <2>1. \A a \in Bodies \ {b} : BodyAt(L, t.body[a], a) /\ c.to # a
    BY <1>d DEF Opening
  <2>2. \A a \in Bodies \ {b} : BodyAt(Append(L, c), t.body[a], a)
    BY <2>1, <1>t, <1>d, SentBodies
  <2> QED BY <2>2, <1>5
<1>8. \A j \in C \cup {i} : \E k \in DOMAIN Line(r.seq) : Line(r.seq)[k].to = b /\ Line(r.seq)[k].idx = j
  <2>1. /\ \A k \in DOMAIN L : k \in DOMAIN Append(L, c) /\ Append(L, c)[k] = L[k]
        /\ Append(L, c)[Len(L) + 1] = c /\ Len(L) + 1 \in DOMAIN Append(L, c)
    BY <1>t, <1>d, AppendAt
  <2>2. \A j \in C : \E k \in DOMAIN L : L[k].to = b /\ L[k].idx = j
    BY DEF Opening
  <2> QED BY <2>1, <2>2, <1>d, <1>5
<1>9. Line(r.seq) \in Seq(Cmd) /\ Extends(Line(s.seq), Line(r.seq))
  <2>1. /\ Append(L, c) \in Seq(Cmd) /\ DOMAIN L = 1 .. Len(L) /\ Len(L) \in Nat
        /\ \A k \in DOMAIN L : Append(L, c)[k] = L[k]
    BY <1>t, <1>d, AppendAt
  <2>2. Len(Append(L, c)) = Len(L) + 1 /\ Len(Line(s.seq)) \in Nat
    BY <1>t, <1>d
  <2>3. Extends(Line(s.seq), L)
    BY DEF Opening
  <2> QED BY <2>1, <2>2, <2>3, <1>5 DEF Extends
<1>10. r \in States /\ QueueOK(r) /\ r.seq.client /\ r.body = s.body
  BY <1>1, <1>5 DEF Sent, Opening
<1> QED BY <1>3, <1>4, <1>6, <1>7, <1>8, <1>9, <1>10 DEF Opening, r

LEMMA SdpSteps ==
    ASSUME Sound(State), NEW side \in Sides, NEW b \in Bodies, SdpChange(side, b)
    PROVE  Sound(State') /\ Advances(Line(seq), Line(seq'))
<1>f. /\ State \in States /\ State.body = body /\ State.sess = sess /\ State.seq = seq
      /\ Line(seq) \in Seq(Cmd) /\ body \in [Bodies -> Body]
  BY StateFields
<1>0. State.sess.held /\ body[b].st = "new"
  BY <1>f DEF SdpChange
<1>1. PICK sects \in 0..2, bad \in BOOLEAN :
         (bad => sects > 0) /\ Become(on_sdp_change(State, side, b, sects, bad))
  BY DEF SdpChange, MaxSections
<1> DEFINE z == IF bad THEN "raised" ELSE IF sects = 0 THEN "lost" ELSE "held"
           n == IF bad THEN sects - 1 ELSE sects
           l == 0..sects - 1
           t == [State EXCEPT !.body[b].left = l, !.body[b].st = z]
           u == Section(t, side, b, 0, n)
           r == Section(u, side, b, 1, n)
<1>2. Become(r)
  BY <1>1 DEF on_sdp_change
<1>3. l \in SUBSET Indexes /\ z \in {"new", "held", "lost", "raised"}
  BY <1>1 DEF Indexes, MaxSections
<1>5. /\ z # "new" /\ (z = "held" => sects > 0 /\ n = sects) /\ n \in -1..2
  BY <1>1
<1> HIDE DEF z, l
<1>4. /\ t \in States /\ t.seq = State.seq /\ t.client = State.client /\ t.sess = State.sess
      /\ t.media = State.media /\ t.opened = State.opened
      /\ t.body = [body EXCEPT ![b] = [body[b] EXCEPT !.left = l, !.st = z]]
  <2> DEFINE x == [body[b] EXCEPT !.left = l, !.st = z]
  <2>0. body[b] \in Body
    BY <1>f
  <2>1. x \in Body
    BY <1>3, <2>0 DEF Body
  <2>2. t = [State EXCEPT !.body = [State.body EXCEPT ![b] = x]]
    BY <1>f, <2>0 DEF States, Body
  <2> HIDE DEF x, t
  <2>3. /\ t \in States /\ t.seq = State.seq /\ t.client = State.client /\ t.sess = State.sess
        /\ t.media = State.media /\ t.opened = State.opened /\ t.body = [body EXCEPT ![b] = x]
    BY <2>1, <2>2, <1>f, BodySet
  <2> QED BY <2>3 DEF x
<1> HIDE DEF n, t, u, r
<1>6. Opening(t, t, b, {})
  <2>1. QueueOK(t) /\ SessOK(t) /\ MediaOK(t) /\ t.sess.held
    BY <1>0, <1>4 DEF Sound, QueueOK, SessOK, MediaOK
  <2>2. t.sess.rtpc /\ t.seq.client
    BY <1>0, <1>4, HeldFacts
  <2>3. \A a \in Bodies \ {b} : BodyAt(Line(t.seq), t.body[a], a)
    BY <1>4, <1>f DEF Sound, BodiesOK
  <2> QED BY <2>1, <2>2, <2>3, <1>4, <1>f, ExtendsFacts DEF Opening
<1>7. Opening(t, u, b, IF 0 < n THEN {0} ELSE {})
  <2>1. CASE 0 < n
    <3>1. u = update(t, side, 0, b, "section") /\ 0 \in Indexes /\ {} \cup {0} = {0}
      BY <2>1 DEF u, Section, Indexes, MaxSections
    <3>2. Opening(t, update(t, side, 0, b, "section"), b, {} \cup {0})
      BY <1>4, <1>6, <1>f, <3>1, OneSection
    <3> QED BY <2>1, <3>1, <3>2
  <2>2. CASE ~(0 < n)
    BY <1>6, <2>2 DEF u, Section
  <2> QED BY <2>1, <2>2
<1>8. Opening(t, r, b, {i \in {0, 1} : i < n})
  <2>1. CASE 1 < n
    <3>1. r = update(u, side, 1, b, "section") /\ 1 \in Indexes
      BY <2>1 DEF r, Section, Indexes, MaxSections
    <3>2. Opening(t, u, b, {0})
      BY <1>5, <1>7, <2>1
    <3>3. Opening(t, update(u, side, 1, b, "section"), b, {0} \cup {1})
      BY <1>4, <1>f, <3>1, <3>2, OneSection
    <3>4. {0} \cup {1} = {i \in {0, 1} : i < n}
      BY <1>5, <2>1
    <3> QED BY <3>1, <3>3, <3>4
  <2>2. CASE ~(1 < n)
    <3>1. (IF 0 < n THEN {0} ELSE {}) = {i \in {0, 1} : i < n}
      BY <1>5, <2>2
    <3> QED BY <1>7, <2>2, <3>1 DEF r, Section
  <2> QED BY <2>1, <2>2
<1>9. BodyAt(Line(r.seq), r.body[b], b)
  <2>1. r.body[b] = [body[b] EXCEPT !.left = l, !.st = z]
    BY <1>4, <1>8, <1>f DEF Opening
  <2>2. body[b] \in Body /\ BodyAt(Line(seq), body[b], b)
    BY <1>f DEF Sound, BodiesOK
  <2>3. body[b].told = <<>> /\ body[b].needs_update
    BY <2>2, <1>0 DEF BodyAt
  <2>4. /\ r.body[b].told = <<>> /\ r.body[b].needs_update
        /\ r.body[b].st = z /\ r.body[b].left = l
    BY <2>1, <2>2, <2>3 DEF Body
  <2>5. Line(r.seq) \in Seq(Cmd) /\ \A i \in {j \in {0, 1} : j < n} :
              \E k \in DOMAIN Line(r.seq) : Line(r.seq)[k].to = b /\ Line(r.seq)[k].idx = i
    BY <1>8 DEF Opening
  <2>6. z = "held" => l # {} /\ l \subseteq {j \in {0, 1} : j < n}
    <3>1. z = "held" => 0 \in l
      BY <1>5 DEF l
    <3>2. ASSUME z = "held", NEW j \in l
          PROVE  j \in {0, 1} /\ j < n
      BY <3>2, <1>5 DEF l
    <3> QED BY <3>1, <3>2
  <2>7. r.body[b].st = "held" =>
           /\ r.body[b].left # {}
           /\ \A i \in r.body[b].left :
                 \E k \in DOMAIN Line(r.seq) : Line(r.seq)[k].to = b /\ Line(r.seq)[k].idx = i
    BY <2>4, <2>5, <2>6
  <2> QED BY <1>5, <2>4, <2>5, <2>7, HeldBody
<1>10. Sound(r)
  BY <1>8, <1>9 DEF Opening, Sound, BodiesOK
<1>11. Extends(Line(seq), Line(r.seq))
  BY <1>4, <1>8, <1>f DEF Opening
<1>12. Sound(State') /\ seq' = r.seq
  BY <1>2, <1>10, BecomeSound
<1> QED BY <1>11, <1>12 DEF Advances

LEMMA TimeoutStep ==
    ASSUME Sound(State), NEW i \in Indexes, MediaTimeout(i)
    PROVE  Sound(State') /\ Advances(Line(seq), Line(seq'))
<1>f. /\ State \in States /\ State.opened = opened /\ State.sess = sess /\ State.seq = seq
      /\ Line(seq) \in Seq(Cmd) /\ sess \in Sess /\ opened \in SUBSET Indexes
  BY StateFields
<1> DEFINE e == [sess EXCEPT !.media_timeout_index = i]
           r == [State EXCEPT !.sess.media_timeout_index = i, !.opened = @ \ {i}]
<1>1. Become(r) /\ sess.held
  BY DEF MediaTimeout
<1>2. /\ e \in Sess /\ (e.held <=> sess.held) /\ (e.rtpc <=> sess.rtpc) /\ e.max_index = sess.max_index
  BY <1>f DEF Sess, Indexes, MaxSections
<1>3. r = [State EXCEPT !.sess = e, !.opened = opened \ {i}]
  BY <1>f DEF States, Sess
<1>4. /\ r \in States /\ r.seq = State.seq /\ r.client = State.client /\ r.sess = e
      /\ r.body = State.body /\ r.media = State.media /\ r.opened = opened \ {i}
  BY <1>2, <1>3, <1>f DEF States
<1> HIDE DEF e, r
<1>5. SessOK(r)
  <2>1. SessAt(Line(seq), seq, sess, opened) /\ sess.rtpc
    BY <1>1, <1>f DEF Sound, SessOK, SessAt
  <2> QED BY <2>1, <1>2, <1>4, <1>f DEF SessOK, SessAt
<1>6. Sound(r)
  BY <1>4, <1>5 DEF Sound, QueueOK, BodiesOK, MediaOK
<1>7. Sound(State') /\ seq' = seq
  BY <1>1, <1>4, <1>6, <1>f, BecomeSound
<1> QED BY <1>7, <1>f, ExtendsFacts DEF Advances

-----------------------------------------------------------------------------
(* The session is deleted.                                                 *)

\* What is true while delete() runs; C: the indexes it has still to look at.
Closing(s, r, C) ==
    /\ r \in States /\ QueueOK(r) /\ BodiesOK(r) /\ MediaOK(r)
    /\ r.seq.client /\ r.sess = s.sess /\ Line(r.seq) \in Seq(Cmd)
    /\ Extends(Line(s.seq), Line(r.seq))
    /\ \A k \in DOMAIN Line(r.seq) : ~Refers(Line(r.seq)[k])
    /\ \A i \in r.opened : i <= r.sess.max_index
    /\ \A i \in r.opened \ ({r.sess.media_timeout_index} \cup C) :
          \E k \in DOMAIN Line(r.seq) : Line(r.seq)[k].op = "D" /\ Line(r.seq)[k].idx = i
    /\ Line(r.seq) # <<>> => (Line(r.seq)[1].op = "D" => Line(r.seq)[1].idx \notin r.opened)

LEMMA OneIndex ==
    ASSUME NEW s, Line(s.seq) \in Seq(Cmd), NEW C, NEW t, Closing(s, t, C), NEW i \in Indexes
    PROVE  Closing(s, CloseIndex(t, i), C \ {i})
<1>t. /\ t \in States /\ QueueOK(t) /\ t.seq.client /\ Line(t.seq) \in Seq(Cmd)
      /\ t.opened \in SUBSET Indexes /\ t.sess \in Sess
  BY DEF Closing, States
<1>1. CASE t.sess.max_index < i \/ t.sess.media_timeout_index = i
  <2>1. CloseIndex(t, i) = t
    BY <1>1 DEF CloseIndex
  <2>2. i \notin t.opened \/ t.sess.media_timeout_index = i
    BY <1>1, <1>t DEF Closing, Sess, Indexes, MaxSections
  <2> QED BY <2>1, <2>2 DEF Closing
<1>2. CASE ~(t.sess.max_index < i \/ t.sess.media_timeout_index = i)
  <2> DEFINE c == Command("D", "caller", i, "nobody", "last")
             r == send_command(t, c)
             L == Line(t.seq)
  <2>1. CloseIndex(t, i) = r
    BY <1>2 DEF CloseIndex
  <2>2. /\ c \in Cmd /\ c.op = "D" /\ c.idx = i /\ c.to = "nobody" /\ ~Refers(c)
    BY NamesAssumption DEF Cmd, Command, Sides, Refers
  <2> HIDE DEF c
  <2>3. Sent(t, r, c) /\ r.sess = t.sess
    BY <1>t, <2>2, SendIs DEF Sent
  <2> HIDE DEF r
  <2>4. /\ Line(r.seq) = Append(L, c) /\ r.body = t.body /\ r.media = t.media
        /\ r.opened = IF L = <<>> THEN t.opened \ {i} ELSE t.opened
    BY <2>2, <2>3 DEF Sent, Opens
  <2>5. BodiesOK(r)
    <3>1. \A b \in Bodies : BodyAt(L, t.body[b], b) /\ c.to # b
      BY <2>2, NamesAssumption DEF Closing, BodiesOK
    <3>2. \A b \in Bodies : BodyAt(Append(L, c), t.body[b], b)
      BY <3>1, <1>t, <2>2, SentBodies
    <3> QED BY <3>2, <2>4 DEF BodiesOK
  <2>6. MediaOK(r)
    <3>1. \A m \in Media : MediaAt(L, t.media[m], m) /\ c.to # m
      BY <2>2, NamesAssumption DEF Closing, MediaOK
    <3>2. \A m \in Media : MediaAt(Append(L, c), t.media[m], m)
      BY <3>1, <1>t, <2>2, SentMedia
    <3> QED BY <3>2, <2>4 DEF MediaOK
  <2>a. /\ Append(L, c) \in Seq(Cmd) /\ DOMAIN L = 1 .. Len(L) /\ Len(L) \in Nat
        /\ DOMAIN Append(L, c) = DOMAIN L \cup {Len(L) + 1}
        /\ \A k \in DOMAIN L : k \in DOMAIN Append(L, c) /\ Append(L, c)[k] = L[k]
        /\ Append(L, c)[Len(L) + 1] = c
        /\ L # <<>> => Append(L, c)[1] = L[1]
        /\ L = <<>> => Append(L, c)[1] = c
    BY <1>t, <2>2, AppendAt
  <2>7. Line(r.seq) \in Seq(Cmd) /\ Extends(Line(s.seq), Line(r.seq))
    <3>1. Len(Append(L, c)) = Len(L) + 1 /\ Len(Line(s.seq)) \in Nat
      BY <1>t, <2>2
    <3>2. Extends(Line(s.seq), L)
      BY DEF Closing
    <3> QED BY <2>a, <3>1, <3>2, <2>4 DEF Extends
  <2>8. \A k \in DOMAIN Line(r.seq) : ~Refers(Line(r.seq)[k])
    BY <2>a, <2>2, <2>4 DEF Closing
  <2>9. \A j \in r.opened : j <= r.sess.max_index
    BY <2>3, <2>4 DEF Closing
  <2>10. \A j \in r.opened \ ({r.sess.media_timeout_index} \cup (C \ {i})) :
            \E k \in DOMAIN Line(r.seq) : Line(r.seq)[k].op = "D" /\ Line(r.seq)[k].idx = j
    <3>1. SUFFICES ASSUME NEW j \in r.opened, j # t.sess.media_timeout_index, j \notin C \/ j = i
                   PROVE  \E k \in DOMAIN Append(L, c) : Append(L, c)[k].op = "D" /\ Append(L, c)[k].idx = j
      BY <2>3, <2>4
    <3>2. CASE j = i
      BY <3>2, <2>a, <2>2
    <3>3. CASE j # i
      <4>1. j \in t.opened \ ({t.sess.media_timeout_index} \cup C)
        BY <3>1, <3>3, <2>4
      <4>2. PICK k \in DOMAIN L : L[k].op = "D" /\ L[k].idx = j
        BY <4>1 DEF Closing
      <4> QED BY <4>2, <2>a
    <3> QED BY <3>2, <3>3
  <2>11. Line(r.seq) # <<>> => (Line(r.seq)[1].op = "D" => Line(r.seq)[1].idx \notin r.opened)
    <3>1. CASE L = <<>>
      BY <3>1, <2>a, <2>2, <2>4
    <3>2. CASE L # <<>>
      BY <3>2, <2>a, <2>4 DEF Closing
    <3> QED BY <3>1, <3>2
  <2>12. r \in States /\ QueueOK(r) /\ r.seq.client /\ r.sess = s.sess
    BY <2>3 DEF Sent, Closing
  <2> QED BY <2>1, <2>5, <2>6, <2>7, <2>8, <2>9, <2>10, <2>11, <2>12 DEF Closing
<1> QED BY <1>1, <1>2

\* The end of delete(): the sequencer is told to go when it has run dry.
LEMMA LastClosed ==
    ASSUME NEW s, NEW t, Closing(s, t, {}), ~s.sess.held
    PROVE  LET r == SeqDelete([t EXCEPT !.sess.max_index = -1, !.sess.rtpc = FALSE]) IN
           Sound(r) /\ Line(r.seq) = Line(t.seq)
<1>t. /\ t \in States /\ QueueOK(t) /\ t.seq.client /\ Line(t.seq) \in Seq(Cmd)
      /\ t.seq \in Seqs /\ t.sess \in Sess /\ t.sess = s.sess
  BY DEF Closing, States
<1> DEFINE e == [t.sess EXCEPT !.max_index = -1, !.rtpc = FALSE]
           q == IF t.seq.inflight # NoCommand THEN [t.seq EXCEPT !.deleted = TRUE]
                                             ELSE [t.seq EXCEPT !.client = FALSE]
           r == [t EXCEPT !.seq = q, !.sess = e]
<1>1. e \in Sess /\ ~e.held /\ ~e.rtpc /\ e.media_timeout_index = t.sess.media_timeout_index
  <2>1. e \in Sess /\ e.media_timeout_index = t.sess.media_timeout_index
    <3>1. -1 \in -1..1
      OBVIOUS
    <3> QED BY <3>1, <1>t DEF Sess
  <2>2. e.held = t.sess.held
    BY <1>t DEF Sess
  <2>3. e.rtpc = FALSE
    BY <1>t DEF Sess
  <2> HIDE DEF e
  <2> QED BY <2>1, <2>2, <2>3, <1>t
<1>2. /\ q \in Seqs /\ q.inflight = t.seq.inflight /\ q.comqueue = t.seq.comqueue
      /\ ~q.client => t.seq.inflight = NoCommand
  <2>1. CASE t.seq.inflight # NoCommand
    <3>1. q = [t.seq EXCEPT !.deleted = TRUE]
      BY <2>1
    <3>2. [t.seq EXCEPT !.deleted = TRUE] \in Seqs /\ [t.seq EXCEPT !.deleted = TRUE].client = t.seq.client
          /\ [t.seq EXCEPT !.deleted = TRUE].inflight = t.seq.inflight
          /\ [t.seq EXCEPT !.deleted = TRUE].comqueue = t.seq.comqueue
      BY <1>t DEF Seqs
    <3> HIDE DEF q
    <3> QED BY <3>1, <3>2, <1>t
  <2>2. CASE t.seq.inflight = NoCommand
    BY <2>2, <1>t DEF Seqs
  <2> QED BY <2>1, <2>2
<1>3. SeqDelete([t EXCEPT !.sess.max_index = -1, !.sess.rtpc = FALSE]) = r
  <2>1. [t EXCEPT !.sess.max_index = -1, !.sess.rtpc = FALSE] = [t EXCEPT !.sess = e]
    BY <1>t DEF States, Sess
  <2>2. [t EXCEPT !.sess = e].seq = t.seq
    BY <1>t DEF States
  <2>3. CASE t.seq.inflight # NoCommand
    <3>1. SeqDelete([t EXCEPT !.sess = e]) = [[t EXCEPT !.sess = e] EXCEPT !.seq.deleted = TRUE]
      BY <2>2, <2>3 DEF SeqDelete
    <3>2. [[t EXCEPT !.sess = e] EXCEPT !.seq.deleted = TRUE] = [t EXCEPT !.seq = [t.seq EXCEPT !.deleted = TRUE], !.sess = e]
      BY <1>t DEF States, Seqs
    <3> QED BY <2>1, <2>3, <3>1, <3>2
  <2>4. CASE t.seq.inflight = NoCommand
    <3>1. SeqDelete([t EXCEPT !.sess = e]) = [[t EXCEPT !.sess = e] EXCEPT !.seq.client = FALSE]
      BY <2>2, <2>4 DEF SeqDelete
    <3>2. [[t EXCEPT !.sess = e] EXCEPT !.seq.client = FALSE] = [t EXCEPT !.seq = [t.seq EXCEPT !.client = FALSE], !.sess = e]
      BY <1>t DEF States, Seqs
    <3> QED BY <2>1, <2>4, <3>1, <3>2
  <2> QED BY <2>3, <2>4
<1> HIDE DEF e, q
<1>4. /\ r \in States /\ r.seq = q /\ r.sess = e /\ r.client = t.client /\ r.body = t.body
      /\ r.media = t.media /\ r.opened = t.opened
  BY <1>1, <1>2, <1>t DEF States
<1> HIDE DEF r
<1>5. Line(r.seq) = Line(t.seq)
  BY <1>2, <1>4 DEF Line
<1>6. QueueOK(r)
  BY <1>2, <1>4, <1>t DEF QueueOK
<1>7. BodiesOK(r) /\ MediaOK(r)
  BY <1>4, <1>5 DEF Closing, BodiesOK, MediaOK
<1>8. SessOK(r)
  BY <1>1, <1>4, <1>5 DEF Closing, SessOK, SessAt
<1> QED BY <1>3, <1>4, <1>5, <1>6, <1>7, <1>8 DEF Sound

LEMMA CollectIs ==
    ASSUME NEW s, Sound(s)
    PROVE  Sound(Collect(s)) /\ Extends(Line(s.seq), Line(Collect(s).seq))
<1>t. /\ s \in States /\ QueueOK(s) /\ Line(s.seq) \in Seq(Cmd) /\ s.seq \in Seqs
      /\ s.opened \in SUBSET Indexes
  BY LineFacts DEF Sound, States, QueueOK
<1>1. CASE Collect(s) = s
  BY <1>1, <1>t, ExtendsFacts
<1>2. CASE Collect(s) # s
  <2>1. /\ ~s.sess.held /\ s.sess.rtpc /\ ~Refers(s.seq.inflight)
        /\ \A i \in DOMAIN s.seq.comqueue : ~Refers(s.seq.comqueue[i])
        /\ Collect(s) = delete(s)
    BY <1>2 DEF Collect
  <2>2. /\ s.seq.client /\ (\A i \in s.opened : i <= s.sess.max_index)
        /\ \A k \in DOMAIN Line(s.seq) : Line(s.seq)[k].op # "D"
    BY <2>1 DEF Sound, SessOK, SessAt
  <2>3. \A k \in DOMAIN Line(s.seq) : ~Refers(Line(s.seq)[k])
    <3>1. CASE s.seq.inflight = NoCommand
      <4>1. Line(s.seq) = <<>>
        BY <3>1, <1>t, LineFacts DEF QueueOK
      <4> QED BY <4>1
    <3>2. CASE s.seq.inflight # NoCommand
      <4>1. /\ Line(s.seq) # <<>> /\ Line(s.seq)[1] = s.seq.inflight /\ Tail(Line(s.seq)) = s.seq.comqueue
        BY <3>2, <1>t, LineFacts
      <4>2. \A k \in DOMAIN Line(s.seq) : k # 1 =>
               k - 1 \in DOMAIN s.seq.comqueue /\ s.seq.comqueue[k - 1] = Line(s.seq)[k]
        BY <4>1, <1>t, TailAt
      <4> QED BY <2>1, <4>1, <4>2
    <3> QED BY <3>1, <3>2
  <2>4. Closing(s, s, {0, 1})
    <3>1. Line(s.seq) # <<>> => 1 \in DOMAIN Line(s.seq)
      BY <1>t, TailAt
    <3>2. s.opened \ ({s.sess.media_timeout_index} \cup {0, 1}) = {}
      BY <1>t DEF Indexes, MaxSections
    <3> QED BY <2>2, <2>3, <3>1, <3>2, <1>t, ExtendsFacts DEF Closing, Sound
  <2>5. 0 \in Indexes /\ 1 \in Indexes
    BY DEF Indexes, MaxSections
  <2>6. Closing(s, CloseIndex(s, 1), {0, 1} \ {1})
    BY <2>4, <2>5, <1>t, OneIndex
  <2>7. Closing(s, CloseIndex(CloseIndex(s, 1), 0), ({0, 1} \ {1}) \ {0})
    BY <2>5, <2>6, <1>t, OneIndex
  <2>8. ({0, 1} \ {1}) \ {0} = {}
    OBVIOUS
  <2> DEFINE u == CloseIndex(CloseIndex(s, 1), 0)
  <2>9. Closing(s, u, {})
    BY <2>7, <2>8
  <2>10. delete(s) = SeqDelete([u EXCEPT !.sess.max_index = -1, !.sess.rtpc = FALSE])
    BY DEF delete
  <2> HIDE DEF u
  <2>11. Sound(delete(s)) /\ Line(delete(s).seq) = Line(u.seq)
    BY <2>1, <2>9, <2>10, LastClosed
  <2> QED BY <2>1, <2>9, <2>11 DEF Closing
<1> QED BY <1>1, <1>2

LEMMA ReleaseStep ==
    ASSUME Sound(State), Release
    PROVE  Sound(State') /\ Advances(Line(seq), Line(seq'))
<1>f. /\ State \in States /\ State.sess = sess /\ State.seq = seq /\ sess \in Sess
      /\ State.opened = opened
  BY StateFields
<1> DEFINE e == [sess EXCEPT !.held = FALSE]
           r == [State EXCEPT !.sess.held = FALSE]
<1>1. Become(Collect(r))
  BY DEF Release
<1>2. e \in Sess /\ e.max_index = sess.max_index /\ e.media_timeout_index = sess.media_timeout_index
      /\ ~e.held /\ (e.rtpc <=> sess.rtpc)
  BY <1>f DEF Sess
<1>3. r = [State EXCEPT !.sess = e]
  BY <1>f DEF States, Sess
<1> HIDE DEF e
<1>4. /\ r \in States /\ r.seq = State.seq /\ r.client = State.client /\ r.sess = e
      /\ r.body = State.body /\ r.media = State.media /\ r.opened = State.opened
  BY <1>2, <1>3, <1>f DEF States
<1> HIDE DEF r
<1>5. SessOK(r)
  <2>1. SessAt(Line(seq), seq, sess, opened)
    BY <1>f DEF Sound, SessOK
  <2> QED BY <2>1, <1>2, <1>4, <1>f DEF SessOK, SessAt
<1>6. Sound(r)
  BY <1>4, <1>5 DEF Sound, QueueOK, BodiesOK, MediaOK
<1>7. Sound(Collect(r)) /\ Extends(Line(seq), Line(Collect(r).seq))
  BY <1>4, <1>6, <1>f, CollectIs
<1>8. Sound(State') /\ seq' = Collect(r).seq
  BY <1>1, <1>7, BecomeSound
<1> QED BY <1>7, <1>8 DEF Advances

-----------------------------------------------------------------------------
(* A command is answered.                                                  *)

\* The command in flight is over and the next in line goes to the client.
Popped(s) ==
    LET t == [s EXCEPT !.seq.inflight = NoCommand, !.client = Tail(@)] IN
    IF t.seq.client /\ t.seq.comqueue # <<>>
    THEN ToClient([t EXCEPT !.seq.comqueue = Tail(@)], Head(t.seq.comqueue))
    ELSE t

LEMMA PoppedIs ==
    ASSUME NEW s, Sound(s), s.seq.inflight # NoCommand
    PROVE  /\ Popped(s) \in States /\ QueueOK(Popped(s)) /\ Popped(s).seq.client
           /\ Line(Popped(s).seq) = Tail(Line(s.seq))
           /\ Popped(s).seq.deleted <=> s.seq.deleted
           /\ Popped(s).raised <=> s.raised
           /\ Popped(s).sess = s.sess /\ Popped(s).body = s.body /\ Popped(s).media = s.media
           /\ Popped(s).opened = IF Tail(Line(s.seq)) = <<>> THEN s.opened
                                 ELSE Opens(s.opened, Tail(Line(s.seq))[1])
<1>s. /\ s \in States /\ QueueOK(s) /\ s.seq \in Seqs /\ s.seq.client /\ s.seq.inflight \in Cmd
      /\ s.seq.comqueue \in Seq(Cmd) /\ s.client = <<s.seq.inflight>>
  BY DEF Sound, States, Seqs, QueueOK
<1>l. Line(s.seq) \in Seq(Cmd) /\ Line(s.seq) # <<>> /\ Tail(Line(s.seq)) = s.seq.comqueue
  BY <1>s, LineFacts
<1> DEFINE q == [s.seq EXCEPT !.inflight = NoCommand]
           t == [s EXCEPT !.seq.inflight = NoCommand, !.client = Tail(@)]
<1>1. /\ q \in Seqs /\ q.inflight = NoCommand /\ q.comqueue = s.seq.comqueue
      /\ q.client = s.seq.client /\ q.deleted = s.seq.deleted
  BY <1>s DEF Seqs
<1>2. Tail(s.client) = <<>> /\ <<>> \in Seq(Cmd)
  BY <1>s
<1>3. t = [s EXCEPT !.seq = q, !.client = <<>>]
  BY <1>2, <1>s DEF States, Seqs
<1> HIDE DEF q
<1>4. /\ t \in States /\ t.seq = q /\ t.client = <<>> /\ t.sess = s.sess /\ t.body = s.body
      /\ t.media = s.media /\ t.opened = s.opened /\ t.raised = s.raised
  BY <1>1, <1>2, <1>3, <1>s DEF States
<1>5. Popped(s) = IF t.seq.client /\ t.seq.comqueue # <<>>
                  THEN ToClient([t EXCEPT !.seq.comqueue = Tail(@)], Head(t.seq.comqueue)) ELSE t
  BY DEF Popped
<1> HIDE DEF t
<1>6. CASE s.seq.comqueue = <<>>
  <2>1. Popped(s) = t
    BY <1>1, <1>4, <1>5, <1>6
  <2>2. QueueOK(t)
    BY <1>1, <1>4, <1>6, <1>s DEF QueueOK
  <2>3. Line(q) = <<>>
    BY <1>1, <1>6, LineFacts
  <2> QED BY <2>1, <2>2, <2>3, <1>1, <1>4, <1>6, <1>l, <1>s
<1>7. CASE s.seq.comqueue # <<>>
  <2> DEFINE d == Tail(s.seq.comqueue)
             c == s.seq.comqueue[1]
             u == [t EXCEPT !.seq.comqueue = d]
             r == ToClient(u, c)
  <2>1. d \in Seq(Cmd) /\ c \in Cmd /\ Head(s.seq.comqueue) = c /\ s.seq.comqueue = <<c>> \o d
    BY <1>7, <1>s
  <2>2. Popped(s) = r
    <3>1. t.seq.comqueue = s.seq.comqueue /\ t.seq.client
      BY <1>1, <1>4, <1>s
    <3>2. [t EXCEPT !.seq.comqueue = Tail(@)] = u
      BY <3>1, <1>4 DEF States, Seqs
    <3> QED BY <1>5, <1>7, <2>1, <3>1, <3>2
  <2> HIDE DEF d
  <2>3. /\ u \in States /\ u.seq.inflight = NoCommand /\ u.seq.comqueue = d /\ u.client = <<>>
        /\ (u.seq.client <=> t.seq.client) /\ (u.seq.deleted <=> t.seq.deleted) /\ (u.raised <=> t.raised)
        /\ u.sess = s.sess /\ u.body = s.body /\ u.media = s.media /\ u.opened = s.opened
    BY <1>1, <1>4, <2>1, QueuedIs
  <2> HIDE DEF u, c
  <2>4. /\ r \in States /\ r.seq.inflight = c /\ r.client = Append(<<>>, c) /\ r.seq.comqueue = d
        /\ (r.seq.client <=> u.seq.client) /\ (r.seq.deleted <=> u.seq.deleted) /\ (r.raised <=> u.raised)
        /\ r.opened = Opens(s.opened, c) /\ r.sess = s.sess /\ r.body = s.body /\ r.media = s.media
    BY <2>1, <2>3, ToClientIs
  <2> HIDE DEF r
  <2>5. r.seq.client /\ (r.seq.deleted <=> s.seq.deleted) /\ (r.raised <=> s.raised)
    BY <2>3, <2>4, <1>1, <1>4, <1>s
  <2>6. c # NoCommand /\ Append(<<>>, c) = <<c>>
    BY <2>1, CmdFacts
  <2>7. QueueOK(r)
    BY <2>4, <2>5, <2>6 DEF QueueOK
  <2>8. Line(r.seq) = s.seq.comqueue
    BY <2>1, <2>4, <2>6 DEF Line
  <2> QED BY <2>2, <2>4, <2>5, <2>7, <2>8, <1>7, <1>l DEF c
<1> QED BY <1>6, <1>7

LEMMA PoppedSess ==
    ASSUME NEW s, Sound(s), s.seq.inflight # NoCommand
    PROVE  SessOK(Popped(s))
<1> DEFINE L == Line(s.seq)
           M == Tail(L)
           o == Popped(s).opened
           e == s.sess
<1>s. s \in States /\ QueueOK(s) /\ s.seq \in Seqs /\ e \in Sess /\ s.opened \in SUBSET Indexes
  BY DEF Sound, States
<1>l. L \in Seq(Cmd) /\ L # <<>>
  BY <1>s, LineFacts DEF QueueOK
<1>m. /\ M \in Seq(Cmd) /\ 1 \in DOMAIN L
      /\ \A k \in DOMAIN M : k \in Nat /\ k + 1 \in DOMAIN L /\ M[k] = L[k + 1]
      /\ \A k \in DOMAIN L : k # 1 => k - 1 \in DOMAIN M /\ M[k - 1] = L[k]
      /\ M # <<>> => 1 \in DOMAIN M
  BY <1>l, TailAt
<1>p. /\ Line(Popped(s).seq) = M /\ Popped(s).sess = e /\ Popped(s).seq.client
      /\ (Popped(s).seq.deleted <=> s.seq.deleted)
      /\ o = IF M = <<>> THEN s.opened ELSE Opens(s.opened, M[1])
  BY PoppedIs
<1>i. SessAt(L, s.seq, e, s.opened)
  BY DEF Sound, SessOK
<1> HIDE DEF L, M, o, e
<1>1. CASE e.rtpc
  <2>1. \A i \in o : i <= e.max_index
    <3>1. CASE M = <<>>
      BY <3>1, <1>1, <1>i, <1>p DEF SessAt
    <3>2. CASE M # <<>>
      <4>1. M[1] = L[2] /\ 2 \in DOMAIN L
        BY <3>2, <1>m
      <4>2. L[2].op = "U" => L[2].idx <= e.max_index
        BY <4>1, <1>1, <1>i DEF SessAt
      <4> QED BY <3>2, <4>1, <4>2, <1>1, <1>i, <1>p DEF SessAt, Opens
    <3> QED BY <3>1, <3>2
  <2>2. /\ \A k \in DOMAIN M : M[k].op = "U" => M[k].idx <= e.max_index
        /\ \A k \in DOMAIN M : M[k].op # "D"
    BY <1>1, <1>i, <1>m DEF SessAt
  <2>3. (e.held => e.rtpc) /\ Popped(s).seq.client /\ ~Popped(s).seq.deleted
    BY <1>1, <1>i, <1>p DEF SessAt
  <2>4. SessAt(M, Popped(s).seq, e, o)
    BY <1>1, <2>1, <2>2, <2>3 DEF SessAt
  <2> QED BY <2>4, <1>p DEF SessOK, o
<1>2. CASE ~e.rtpc
  <2>1. \A k \in DOMAIN M : ~Refers(M[k])
    BY <1>2, <1>i, <1>m DEF SessAt
  <2>2. o \subseteq s.opened
    <3>1. CASE M = <<>>
      BY <3>1, <1>p
    <3>2. CASE M # <<>>
      <4>1. M[1] \in Cmd /\ ~Refers(M[1]) /\ M[1] # NoCommand
        BY <3>2, <2>1, <1>m, CmdFacts
      <4>2. M[1].op # "U"
        BY <4>1, CmdFacts DEF Refers
      <4> QED BY <3>2, <4>2, <1>p DEF Opens
    <3> QED BY <3>1, <3>2
  <2>3. \A i \in o \ {e.media_timeout_index} : \E k \in DOMAIN M : M[k].op = "D" /\ M[k].idx = i
    <3>1. SUFFICES ASSUME NEW i \in o, i # e.media_timeout_index
                   PROVE  \E k \in DOMAIN M : M[k].op = "D" /\ M[k].idx = i
      OBVIOUS
    <3>2. PICK k \in DOMAIN L : L[k].op = "D" /\ L[k].idx = i
      BY <3>1, <2>2, <1>2, <1>i DEF SessAt
    <3>3. k # 1
      BY <3>1, <3>2, <2>2, <1>2, <1>i, <1>l DEF SessAt
    <3> QED BY <3>2, <3>3, <1>m
  <2>4. M # <<>> => (M[1].op = "D" => M[1].idx \notin o)
    BY <1>p DEF Opens
  <2>5. ~e.held
    BY <1>2, <1>i DEF SessAt
  <2>6. SessAt(M, Popped(s).seq, e, o)
    BY <1>2, <2>1, <2>3, <2>4, <2>5 DEF SessAt
  <2> QED BY <2>6, <1>p DEF SessOK, o
<1> QED BY <1>1, <1>2

\* The callback of a command finds everything in order but what waits for it.
Heard(s, c) == IF c.op = "U" THEN [s EXCEPT !.sess.exists[c.side] = TRUE] ELSE s

Answering(s, x, c) ==
    /\ x \in States /\ QueueOK(x) /\ SessOK(x) /\ x.seq.client
    /\ Line(x.seq) = Tail(Line(s.seq)) /\ Line(x.seq) \in Seq(Cmd)
    /\ x.body = s.body /\ x.media = s.media
    /\ Refers(c) => x.sess.rtpc
    /\ \A b \in Bodies \ {c.to} : BodyAt(Line(x.seq), x.body[b], b)
    /\ \A m \in Media \ {c.to} : MediaAt(Line(x.seq), x.media[m], m)

LEMMA HeardIs ==
    ASSUME NEW s \in States, NEW c \in Cmd
    PROVE  /\ Heard(s, c) \in States /\ Heard(s, c).seq = s.seq /\ Heard(s, c).client = s.client
           /\ Heard(s, c).body = s.body /\ Heard(s, c).media = s.media
           /\ Heard(s, c).opened = s.opened /\ Heard(s, c).raised = s.raised
           /\ Heard(s, c).sess.held <=> s.sess.held
           /\ Heard(s, c).sess.rtpc <=> s.sess.rtpc
           /\ Heard(s, c).sess.max_index = s.sess.max_index
           /\ Heard(s, c).sess.media_timeout_index = s.sess.media_timeout_index
<1>1. CASE c.op # "U"
  BY <1>1 DEF Heard
<1>2. CASE c.op = "U"
  <2> DEFINE x == [s.sess.exists EXCEPT ![c.side] = TRUE]
             e == [s.sess EXCEPT !.exists = x]
  <2>1. c.side \in Sides /\ s.sess \in Sess /\ s.sess.exists \in [Sides -> BOOLEAN]
    BY DEF Cmd, States, Sess
  <2>2. x \in [Sides -> BOOLEAN]
    BY <2>1
  <2>3. Heard(s, c) = [s EXCEPT !.sess = e]
    BY <1>2, <2>1 DEF Heard, States, Sess
  <2> HIDE DEF x
  <2>4. /\ e \in Sess /\ e.held = s.sess.held /\ e.rtpc = s.sess.rtpc
        /\ e.max_index = s.sess.max_index /\ e.media_timeout_index = s.sess.media_timeout_index
    BY <2>1, <2>2 DEF Sess
  <2> HIDE DEF e
  <2>5. /\ Heard(s, c) \in States /\ Heard(s, c).seq = s.seq /\ Heard(s, c).client = s.client
        /\ Heard(s, c).body = s.body /\ Heard(s, c).media = s.media
        /\ Heard(s, c).opened = s.opened /\ Heard(s, c).raised = s.raised /\ Heard(s, c).sess = e
    BY <2>3, <2>4 DEF States
  <2> QED BY <2>4, <2>5
<1> QED BY <1>1, <1>2

LEMMA PoppedOthers ==
    ASSUME NEW L \in Seq(Cmd), L # <<>>
    PROVE  /\ \A x, b : BodyAt(L, x, b) /\ b # L[1].to => BodyAt(Tail(L), x, b)
           /\ \A v, m : MediaAt(L, v, m) /\ m # L[1].to => MediaAt(Tail(L), v, m)
           /\ \A v, m : MediaAt(L, v, m) /\ m = L[1].to => v = "waits" /\ ~Waits(Tail(L), m)
<1> DEFINE M == Tail(L)
<1>m. /\ M \in Seq(Cmd) /\ 1 \in DOMAIN L
      /\ \A k \in DOMAIN M : k \in Nat /\ k + 1 \in DOMAIN L /\ M[k] = L[k + 1]
      /\ \A k \in DOMAIN L : k # 1 => k - 1 \in DOMAIN M /\ M[k - 1] = L[k]
      /\ DOMAIN M = 1 .. Len(M)
  BY TailAt
<1> HIDE DEF M
<1>1. ASSUME NEW x, NEW b, BodyAt(L, x, b), b # L[1].to
      PROVE  BodyAt(M, x, b)
  <2>1. Waits(M, b) => Waits(L, b)
    BY <1>m DEF Waits
  <2>2. ASSUME NEW i, NEW k \in DOMAIN L, L[k].to = b, L[k].idx = i
        PROVE  \E j \in DOMAIN M : M[j].to = b /\ M[j].idx = i
    BY <1>1, <2>2, <1>m
  <2> QED BY <1>1, <2>1, <2>2 DEF BodyAt
<1>2. ASSUME NEW v, NEW m, MediaAt(L, v, m), m # L[1].to
      PROVE  MediaAt(M, v, m)
  <2>1. Waits(M, m) <=> Waits(L, m)
    BY <1>2, <1>m DEF Waits
  <2>2. ASSUME NEW j \in DOMAIN M, NEW k \in DOMAIN M, M[j].to = m, M[k].to = m
        PROVE  j = k
    <3>1. j + 1 = k + 1
      BY <1>2, <2>2, <1>m DEF MediaAt
    <3> QED BY <3>1, <1>m
  <2> QED BY <1>2, <2>1, <2>2 DEF MediaAt
<1>3. ASSUME NEW v, NEW m, MediaAt(L, v, m), m = L[1].to
      PROVE  v = "waits" /\ ~Waits(M, m)
  <2>1. v = "waits"
    BY <1>3, <1>m DEF MediaAt, Waits
  <2>2. ASSUME NEW k \in DOMAIN M, M[k].to = m
        PROVE  FALSE
    <3>1. k + 1 = 1
      BY <1>3, <2>2, <1>m DEF MediaAt
    <3> QED BY <3>1, <1>m
  <2> QED BY <2>1, <2>2 DEF Waits
<1> QED BY <1>1, <1>2, <1>3 DEF M

LEMMA AnsweringIs ==
    ASSUME NEW s, Sound(s), s.seq.inflight # NoCommand
    PROVE  /\ s.seq.inflight \in Cmd
           /\ Answering(s, Heard(Popped(s), s.seq.inflight), s.seq.inflight)
           /\ Line(s.seq) \in Seq(Cmd) /\ Line(s.seq) # <<>> /\ Line(s.seq)[1] = s.seq.inflight
<1> DEFINE L == Line(s.seq)
           c == s.seq.inflight
           u == Popped(s)
           x == Heard(u, c)
<1>s. s \in States /\ QueueOK(s) /\ s.seq \in Seqs /\ c \in Cmd
  BY DEF Sound, States, Seqs
<1>l. L \in Seq(Cmd) /\ L # <<>> /\ L[1] = c /\ 1 \in DOMAIN L /\ Tail(L) \in Seq(Cmd)
  BY <1>s, LineFacts, TailAt DEF QueueOK
<1>1. /\ u \in States /\ QueueOK(u) /\ u.seq.client /\ Line(u.seq) = Tail(L)
      /\ u.sess = s.sess /\ u.body = s.body /\ u.media = s.media
  BY PoppedIs
<1>2. SessOK(u)
  BY PoppedSess
<1> HIDE DEF u
<1>3. /\ x \in States /\ x.seq = u.seq /\ x.client = u.client /\ x.body = u.body /\ x.media = u.media
      /\ x.opened = u.opened /\ (x.sess.held <=> u.sess.held) /\ (x.sess.rtpc <=> u.sess.rtpc)
      /\ x.sess.max_index = u.sess.max_index
      /\ x.sess.media_timeout_index = u.sess.media_timeout_index
  BY <1>1, <1>s, HeardIs
<1> HIDE DEF x, L
<1>4. QueueOK(x) /\ x.seq.client /\ Line(x.seq) = Tail(L)
  BY <1>1, <1>3 DEF QueueOK
<1>5. SessOK(x)
  BY <1>2, <1>3 DEF SessOK, SessAt
<1>6. Refers(c) => x.sess.rtpc
  BY <1>1, <1>3, <1>l DEF Sound, SessOK, SessAt, L
<1>7. \A b \in Bodies \ {c.to} : BodyAt(Line(x.seq), x.body[b], b)
  <2>1. \A b \in Bodies : BodyAt(L, s.body[b], b)
    BY DEF Sound, BodiesOK, L
  <2> QED BY <2>1, <1>1, <1>3, <1>4, <1>l, PoppedOthers
<1>8. \A m \in Media \ {c.to} : MediaAt(Line(x.seq), x.media[m], m)
  <2>1. \A m \in Media : MediaAt(L, s.media[m], m)
    BY DEF Sound, MediaOK, L
  <2> QED BY <2>1, <1>1, <1>3, <1>4, <1>l, PoppedOthers
<1>9. Answering(s, x, c)
  BY <1>1, <1>3, <1>4, <1>5, <1>6, <1>7, <1>8, <1>l DEF Answering, L
<1> QED BY <1>9, <1>l, <1>s DEF x, u, L

LEMMA NextStage ==
    ASSUME NEW s, NEW x, NEW c \in Cmd, Answering(s, x, c), Refers(c), NEW m \in Media, c.to = m,
           x.media[m] = "waits", ~Waits(Line(x.seq), m), NEW d \in Cmd, d.to = m, d.op = "M"
    PROVE  Sound(send_command(x, d)) /\ Line(send_command(x, d).seq) = Append(Line(x.seq), d)
<1> DEFINE r == send_command(x, d)
           L == Line(x.seq)
<1>x. x \in States /\ QueueOK(x) /\ x.seq.client /\ L \in Seq(Cmd) /\ SessOK(x) /\ x.sess.rtpc
      /\ x.sess \in Sess
  BY DEF Answering, States
<1>1. Sent(x, r, d) /\ r.sess = x.sess
  BY <1>x, SendIs DEF Sent
<1> HIDE DEF r
<1>2. x.sess.max_index \in Int
  BY <1>x DEF Sess
<1>3. /\ (r.sess.held <=> x.sess.held) /\ r.sess.rtpc /\ r.sess.max_index >= x.sess.max_index
  BY <1>1, <1>2, <1>x
<1>4. SessOK(r)
  BY <1>1, <1>3, <1>x, SentSess
<1>5. Line(r.seq) = Append(L, d) /\ r.body = x.body /\ r.media = x.media /\ r \in States /\ QueueOK(r)
  BY <1>1 DEF Sent
<1> HIDE DEF L
<1>6. BodiesOK(r)
  <2>1. \A b \in Bodies : BodyAt(L, x.body[b], b) /\ d.to # b
    BY NamesAssumption DEF Answering, L
  <2>2. \A b \in Bodies : BodyAt(Append(L, d), x.body[b], b)
    BY <2>1, <1>x, SentBodies
  <2> QED BY <2>2, <1>5 DEF BodiesOK
<1>7. MediaOK(r)
  <2>1. \A n \in Media \ {m} : MediaAt(L, x.media[n], n) /\ d.to # n
    BY DEF Answering, L
  <2>2. \A n \in Media \ {m} : MediaAt(Append(L, d), x.media[n], n)
    BY <2>1, <1>x, SentMedia
  <2>3. MediaAt(Append(L, d), "waits", m)
    BY <1>x, SentWaits DEF L
  <2> QED BY <2>2, <2>3, <1>5 DEF MediaOK
<1> QED BY <1>4, <1>5, <1>6, <1>7 DEF Sound, r, L

\* r is x after the operation m was told.
Ended(x, r, m, v) ==
    /\ r \in States /\ r.seq = x.seq /\ r.client = x.client /\ r.sess = x.sess /\ r.body = x.body
    /\ r.opened = x.opened /\ r.media = [x.media EXCEPT ![m] = v]

LEMMA OperationOver ==
    ASSUME NEW s, NEW x, NEW c \in Cmd, Answering(s, x, c), NEW m \in Media, c.to = m,
           ~Waits(Line(x.seq), m), NEW v \in {"told", "raised"}, NEW r, Ended(x, r, m, v)
    PROVE  Sound(r) /\ Line(r.seq) = Line(x.seq)
<1> USE DEF Ended
<1>1. QueueOK(r) /\ SessOK(r)
  BY DEF Answering, QueueOK, SessOK
<1>2. \A b \in Bodies : b # c.to
  BY NamesAssumption
<1>3. BodiesOK(r)
  BY <1>2 DEF Answering, BodiesOK
<1>4. MediaAt(Line(x.seq), v, m)
  BY DEF MediaAt, Waits
<1>5. MediaOK(r)
  <2>1. x.media \in [Media -> Medium]
    BY DEF Answering, States
  <2> QED BY <2>1, <1>4 DEF Answering, MediaOK
<1> QED BY <1>1, <1>3, <1>5 DEF Sound

LEMMA SectionOver ==
    ASSUME NEW s, Sound(s), NEW x, NEW c \in Cmd, Answering(s, x, c), NEW b \in Bodies, c.to = b,
           Line(s.seq) \in Seq(Cmd), Line(s.seq) # <<>>, Line(s.seq)[1] = c, NEW ok \in BOOLEAN
    PROVE  /\ Sound(_sdp_change_finish(x, b, c.idx, ok))
           /\ Line(_sdp_change_finish(x, b, c.idx, ok).seq) = Line(x.seq)
<1> DEFINE L == Line(s.seq)
           M == Line(x.seq)
           y == x.body[b]
           r == _sdp_change_finish(x, b, c.idx, ok)
           left == y.left \ {c.idx}
<1>x. x \in States /\ x.body \in [Bodies -> Body] /\ y \in Body /\ M = Tail(L) /\ y = s.body[b]
  BY DEF Answering, States
<1>b. BodyAt(L, y, b)
  BY <1>x DEF Sound, BodiesOK
<1>m. /\ 1 \in DOMAIN L
      /\ \A k \in DOMAIN M : k \in Nat /\ k + 1 \in DOMAIN L /\ M[k] = L[k + 1]
      /\ \A k \in DOMAIN L : k # 1 => k - 1 \in DOMAIN M /\ M[k - 1] = L[k]
  BY <1>x, TailAt
<1>n. /\ \A m \in Media : MediaAt(M, x.media[m], m)
      /\ \A a \in Bodies \ {b} : BodyAt(M, x.body[a], a)
      /\ QueueOK(x) /\ SessOK(x)
  BY NamesAssumption DEF Answering
<1> HIDE DEF L, M
<1>1. y.st # "new"
  BY <1>b, <1>m DEF BodyAt, Waits, L
<1>2. \A i \in left : (\E k \in DOMAIN L : L[k].to = b /\ L[k].idx = i) =>
                         \E k \in DOMAIN M : M[k].to = b /\ M[k].idx = i
  <2>1. SUFFICES ASSUME NEW i \in left, NEW k \in DOMAIN L, L[k].to = b, L[k].idx = i
                 PROVE  \E j \in DOMAIN M : M[j].to = b /\ M[j].idx = i
    OBVIOUS
  <2>2. k # 1
    BY <2>1 DEF L
  <2> QED BY <2>1, <2>2, <1>m
<1>3. ASSUME NEW z, z \in Body, BodyAt(M, z, b), NEW t, t = [x EXCEPT !.body = [x.body EXCEPT ![b] = z]]
      PROVE  Sound(t) /\ Line(t.seq) = M
  <2>1. /\ t \in States /\ t.seq = x.seq /\ t.client = x.client /\ t.sess = x.sess
        /\ t.media = x.media /\ t.opened = x.opened /\ t.body = [x.body EXCEPT ![b] = z]
    BY <1>3, <1>x, BodySet
  <2>2. QueueOK(t) /\ SessOK(t) /\ MediaOK(t)
    BY <2>1, <1>n DEF QueueOK, SessOK, MediaOK, M
  <2>3. BodiesOK(t)
    BY <2>1, <1>3, <1>n, <1>x DEF BodiesOK, M
  <2> QED BY <2>1, <2>2, <2>3 DEF Sound, M
<1>4. CASE ~y.needs_update
  <2>1. r = x
    BY <1>4 DEF _sdp_change_finish
  <2>2. BodyAt(M, y, b)
    BY <1>1, <1>4, <1>b DEF BodyAt
  <2>3. BodiesOK(x) /\ MediaOK(x)
    BY <2>2, <1>n DEF BodiesOK, MediaOK, M
  <2> QED BY <2>1, <2>3, <1>n, <1>x DEF Sound, M
<1>5. CASE y.needs_update /\ ok /\ left # {}
  <2> DEFINE z == [y EXCEPT !.left = left]
  <2>1. r = [x EXCEPT !.body = [x.body EXCEPT ![b] = z]]
    <3>1. r = [x EXCEPT !.body[b].left = left]
      BY <1>5 DEF _sdp_change_finish
    <3> QED BY <3>1, <1>x DEF States, Body
  <2>2. /\ z \in Body /\ z.left = left /\ z.told = y.told /\ z.st = y.st /\ z.needs_update = y.needs_update
    BY <1>x DEF Body
  <2> HIDE DEF z, r
  <2>3. y.told = <<>>
    BY <1>5, <1>b DEF BodyAt
  <2>4. BodyAt(M, z, b)
    <3>1. z.told = <<>> /\ z.needs_update /\ z.st # "new"
      BY <2>2, <2>3, <1>1, <1>5
    <3>2. z.st = "held" => \A i \in left : \E k \in DOMAIN M : M[k].to = b /\ M[k].idx = i
      BY <2>2, <1>2, <1>5, <1>b DEF BodyAt
    <3> QED BY <3>1, <3>2, <2>2, <1>5 DEF BodyAt
  <2> QED BY <2>1, <2>2, <2>4, <1>3 DEF r, M
<1>6. CASE y.needs_update /\ ~(ok /\ left # {})
  <2> DEFINE w == IF ok THEN "done" ELSE "error"
             z == [y EXCEPT !.left = left, !.needs_update = FALSE, !.told = Append(@, w)]
  <2>1. r = [x EXCEPT !.body = [x.body EXCEPT ![b] = z]]
    <3> DEFINE x1 == [x EXCEPT !.body[b].left = left]
               x2 == [x1 EXCEPT !.body[b].needs_update = FALSE]
               z1 == [y EXCEPT !.left = left]
               z2 == [z1 EXCEPT !.needs_update = FALSE]
               f1 == [x.body EXCEPT ![b] = z1]
               f2 == [x.body EXCEPT ![b] = z2]
    <3>1. r = [x2 EXCEPT !.body[b].told = Append(y.told, w)]
      <4>1. r = [x EXCEPT !.body[b].left = left, !.body[b].needs_update = FALSE,
                          !.body[b].told = Append(@, w)]
        BY <1>6 DEF _sdp_change_finish
      <4> HIDE DEF r, w, left
      <4> QED BY <4>1
    <3>2. z1 \in Body /\ z2 \in Body /\ z2.told = y.told
      BY <1>x DEF Body
    <3>3. x1 = [x EXCEPT !.body = f1] /\ f1 \in [Bodies -> Body] /\ x1 \in States /\ x1.body = f1 /\ f1[b] = z1
      BY <3>2, <1>x DEF States, Body
    <3>4. z = [z2 EXCEPT !.told = Append(y.told, w)]
      BY <1>x DEF Body
    <3> HIDE DEF x1, z1, w, r, left, z
    <3>5. x2 = [x1 EXCEPT !.body = [x1.body EXCEPT ![b] = z2]]
      BY <3>2, <3>3, <1>x DEF States, Body
    <3>6. [x1.body EXCEPT ![b] = z2] = f2 /\ f2 \in [Bodies -> Body] /\ f2[b] = z2
      BY <3>2, <3>3, <1>x
    <3>7. x2 = [x EXCEPT !.body = f2]
      BY <3>3, <3>5, <3>6, <1>x DEF States
    <3> HIDE DEF x2, z2
    <3>8. x2 \in States /\ x2.body = f2
      BY <3>6, <3>7, <1>x DEF States
    <3>9. r = [x2 EXCEPT !.body = [f2 EXCEPT ![b] = z]]
      BY <3>1, <3>2, <3>4, <3>6, <3>8 DEF States, Body
    <3>10. [f2 EXCEPT ![b] = z] = [x.body EXCEPT ![b] = z]
      BY <3>2, <1>x
    <3> QED BY <3>7, <3>9, <3>10, <1>x DEF States
  <2>3. y.told = <<>>
    BY <1>6, <1>b DEF BodyAt
  <2>4. Append(y.told, w) = <<w>> /\ <<w>> \in Seq({"done", "error"})
    BY <2>3
  <2>5. w = "done" => left = {}
    BY <1>6
  <2> HIDE DEF w
  <2>6. z = [y EXCEPT !.left = left, !.needs_update = FALSE, !.told = <<w>>]
    BY <2>4, <1>x DEF Body
  <2> HIDE DEF z, r
  <2>7. /\ z \in Body /\ z.left = left /\ z.told = <<w>> /\ z.st = y.st /\ ~z.needs_update
    BY <2>4, <2>6, <1>x DEF Body
  <2>8. w \in {"done", "error"} /\ <<w>> # <<>> /\ (<<w>> = <<"done">> => w = "done")
    BY DEF w
  <2>9. <<w>> \in {<<>>, <<"done">>, <<"error">>}
    BY <2>8
  <2>10. BodyAt(M, z, b)
    BY <2>5, <2>7, <2>8, <2>9, <1>1 DEF BodyAt
  <2> QED BY <2>1, <2>7, <2>10, <1>3 DEF r, M
<1> QED BY <1>4, <1>5, <1>6

\* The callback of the command that was answered: the line stays, or the next stage of
\* the operation is at its end.
LEMMA CallbackIs ==
    ASSUME NEW s, Sound(s), s.seq.inflight # NoCommand, NEW ok \in BOOLEAN
    PROVE  /\ Sound(Callback(Popped(s), s.seq.inflight, ok))
           /\ \/ Line(Callback(Popped(s), s.seq.inflight, ok).seq) = Tail(Line(s.seq))
              \/ \E d \in Cmd : Line(Callback(Popped(s), s.seq.inflight, ok).seq)
                                   = Append(Tail(Line(s.seq)), d)
<1> DEFINE c == s.seq.inflight
           x == Heard(Popped(s), c)
           v == Callback(Popped(s), c, ok)
           m == c.to
           L == Line(s.seq)
<1>a. c \in Cmd /\ Answering(s, x, c) /\ L \in Seq(Cmd) /\ L # <<>> /\ L[1] = c
  BY AnsweringIs
<1>v. v = IF c.to = "nobody" THEN x ELSE
          CASE c.stage = "section"   -> _sdp_change_finish(x, c.to, c.idx, ok)
            [] c.stage = "play"      -> IF ok THEN send_command(x, Command("M", Other(c.side), c.idx, c.to, "last"))
                                        ELSE [x EXCEPT !.media[c.to] = "raised", !.raised = TRUE]
            [] c.stage = "record"    -> IF ok THEN send_command(x, Command("M", "caller", c.idx, c.to, "record_o"))
                                        ELSE [x EXCEPT !.media[c.to] = "raised", !.raised = TRUE]
            [] c.stage = "record_o"  -> IF ok THEN send_command(x, Command("M", "caller", c.idx, c.to, "last"))
                                        ELSE [x EXCEPT !.media[c.to] = "told"]
            [] c.stage = "last"      -> [x EXCEPT !.media[c.to] = IF @ = "told" THEN "twice" ELSE "told"]
  BY DEF Callback, Heard
<1> HIDE DEF x, v, c, L
<1>x. x \in States /\ Line(x.seq) = Tail(L) /\ x.media = s.media /\ c \in Cmd
  BY <1>a DEF Answering, L
<1>c. /\ m \in Bodies \cup Media \cup {"nobody"} /\ c.idx \in Indexes /\ c.side \in Sides
      /\ c.stage \in {"section", "play", "record", "record_o", "last"}
      /\ c.stage = "section" => m \in Bodies
      /\ c.stage \in {"play", "record", "record_o"} => m \in Media
      /\ c.stage = "last" => m \notin Bodies
      /\ c.stage \in {"section", "play", "record", "record_o"} => Refers(c)
  <2>1. c.side \in Sides
    BY <1>a DEF Cmd
  <2> QED BY <2>1, <1>a, CmdFacts DEF Refers
<1> DEFINE G == Sound(v) /\ (Line(v.seq) = Tail(L) \/ \E d \in Cmd : Line(v.seq) = Append(Tail(L), d))
<1> SUFFICES G
  BY DEF v, c, L
<1>m. c.to = m
  OBVIOUS
<1> HIDE DEF m
<1>1. CASE m = "nobody"
  <2>1. v = x
    BY <1>1, <1>m, <1>v
  <2>2. BodiesOK(x) /\ MediaOK(x)
    BY <1>1, <1>a, <1>m, NamesAssumption DEF Answering, BodiesOK, MediaOK
  <2> QED BY <2>1, <2>2, <1>a, <1>m, <1>x DEF Answering, Sound
<1>2. CASE m \in Bodies
  <2>1. c.stage = "section" /\ m # "nobody"
    BY <1>2, <1>c, NamesAssumption
  <2>2. v = _sdp_change_finish(x, m, c.idx, ok)
    BY <2>1, <1>v, <1>m
  <2>3. Sound(v) /\ Line(v.seq) = Line(x.seq)
    BY <2>2, <1>2, <1>a, <1>m, SectionOver DEF L
  <2> QED BY <2>3, <1>x
<1>3. CASE m \in Media
  <2>1. m # "nobody" /\ c.stage # "section"
    BY <1>3, <1>c, NamesAssumption
  <2>2. x.media[m] = "waits" /\ ~Waits(Line(x.seq), m)
    <3>1. MediaAt(L, s.media[m], m)
      BY <1>3 DEF Sound, MediaOK, L
    <3>2. m = L[1].to
      BY <1>a, <1>m
    <3>3. s.media[m] = "waits" /\ ~Waits(Tail(L), m)
      <4>1. \A w, n : MediaAt(L, w, n) /\ n = L[1].to => w = "waits" /\ ~Waits(Tail(L), n)
        BY <1>a, PoppedOthers
      <4> QED BY <3>1, <3>2, <4>1, Zenon
    <3> QED BY <3>3, <1>x
  <2>s. ASSUME NEW side \in Sides, NEW st \in {"last", "record_o"}
        PROVE  /\ Command("M", side, c.idx, m, st) \in Cmd /\ Command("M", side, c.idx, m, st).to = m
               /\ Command("M", side, c.idx, m, st).op = "M"
    BY <1>3, <1>c, NamesAssumption DEF Cmd, Command
  <2>3. ASSUME NEW side \in Sides, NEW st \in {"last", "record_o"}, Refers(c),
               v = send_command(x, Command("M", side, c.idx, m, st))
        PROVE  G
    <3> DEFINE d == Command("M", side, c.idx, m, st)
    <3>1. d \in Cmd /\ d.to = m /\ d.op = "M"
      BY <2>s
    <3> HIDE DEF d
    <3>2. Sound(send_command(x, d)) /\ Line(send_command(x, d).seq) = Append(Line(x.seq), d)
      BY <3>1, <2>2, <2>3, <1>3, <1>a, <1>m, NextStage
    <3> QED BY <3>1, <3>2, <2>3, <1>x DEF d
  <2>4. ASSUME NEW y \in {"told", "raised"}, v = [x EXCEPT !.media[m] = y]
        PROVE  G
    <3>1. Ended(x, v, m, y)
      <4>1. y \in Medium
        BY <2>4 DEF Medium
      <4> QED BY <4>1, <2>4, <1>3, <1>x, MediaSet DEF Ended
    <3>2. Sound(v) /\ Line(v.seq) = Line(x.seq)
      BY <3>1, <2>2, <2>4, <1>3, <1>a, <1>m, OperationOver
    <3> QED BY <3>2, <1>x
  <2>5. ASSUME v = [x EXCEPT !.media[m] = "raised", !.raised = TRUE]
        PROVE  G
    <3> DEFINE w == [x EXCEPT !.media[m] = "raised"]
    <3>1. /\ w \in States /\ w.seq = x.seq /\ w.client = x.client /\ w.sess = x.sess /\ w.body = x.body
          /\ w.opened = x.opened /\ w.media = [x.media EXCEPT ![m] = "raised"]
      BY <1>3, <1>x, MediaSet DEF Medium
    <3>2. v = [w EXCEPT !.raised = TRUE]
      BY <2>5
    <3> HIDE DEF w
    <3>3. Ended(x, v, m, "raised")
      BY <3>1, <3>2 DEF States, Ended
    <3>4. Sound(v) /\ Line(v.seq) = Line(x.seq)
      BY <3>3, <2>2, <1>3, <1>a, <1>m, OperationOver
    <3> QED BY <3>4, <1>x
  <2>6. CASE c.stage = "play"
    <3>1. Other(c.side) \in Sides /\ Refers(c)
      BY <2>6, <1>c DEF Other, Sides
    <3>2. v = IF ok THEN send_command(x, Command("M", Other(c.side), c.idx, m, "last"))
              ELSE [x EXCEPT !.media[m] = "raised", !.raised = TRUE]
      BY <2>1, <2>6, <1>v, <1>m
    <3> QED BY <3>1, <3>2, <2>3, <2>5
  <2>7. CASE c.stage = "record"
    <3>1. "caller" \in Sides /\ Refers(c)
      BY <2>7, <1>c DEF Sides
    <3>2. v = IF ok THEN send_command(x, Command("M", "caller", c.idx, m, "record_o"))
              ELSE [x EXCEPT !.media[m] = "raised", !.raised = TRUE]
      BY <2>1, <2>7, <1>v, <1>m
    <3> QED BY <3>1, <3>2, <2>3, <2>5
  <2>8. CASE c.stage = "record_o"
    <3>1. "caller" \in Sides /\ Refers(c)
      BY <2>8, <1>c DEF Sides
    <3>2. v = IF ok THEN send_command(x, Command("M", "caller", c.idx, m, "last"))
              ELSE [x EXCEPT !.media[m] = "told"]
      BY <2>1, <2>8, <1>v, <1>m
    <3> QED BY <3>1, <3>2, <2>3, <2>4
  <2>9. CASE c.stage = "last"
    <3>1. v = [x EXCEPT !.media[m] = IF x.media[m] = "told" THEN "twice" ELSE "told"]
      BY <2>1, <2>9, <1>v, <1>m
    <3>2. v = [x EXCEPT !.media[m] = "told"]
      BY <3>1, <2>2
    <3> QED BY <3>2, <2>4
  <2> QED BY <2>1, <2>6, <2>7, <2>8, <2>9, <1>c
<1> QED BY <1>1, <1>2, <1>3, <1>c

\* SeqDelete(), when the session is gone already: the sequencer lets go of the client
\* once nothing is in flight.
LEMMA DeletedIs ==
    ASSUME NEW s, Sound(s), s.seq.deleted
    PROVE  Sound(SeqDelete(s)) /\ Line(SeqDelete(s).seq) = Line(s.seq)
<1> DEFINE r == SeqDelete(s)
<1>s. s \in States /\ s.seq \in Seqs /\ QueueOK(s) /\ SessAt(Line(s.seq), s.seq, s.sess, s.opened)
  BY DEF Sound, States, SessOK
<1>1. ~s.sess.rtpc /\ ~s.sess.held
  BY <1>s DEF SessAt
<1>2. \E q \in Seqs : /\ r = [s EXCEPT !.seq = q] /\ q.inflight = s.seq.inflight
                      /\ q.comqueue = s.seq.comqueue
                      /\ s.seq.inflight # NoCommand => q.client = s.seq.client
  <2>1. CASE s.seq.inflight # NoCommand
    <3> DEFINE q == [s.seq EXCEPT !.deleted = TRUE]
    <3>1. /\ q \in Seqs /\ q.inflight = s.seq.inflight /\ q.comqueue = s.seq.comqueue
          /\ q.client = s.seq.client
      BY <1>s DEF Seqs
    <3>2. r = [s EXCEPT !.seq = q]
      BY <2>1, <1>s DEF SeqDelete, States, Seqs
    <3> QED BY <3>1, <3>2
  <2>2. CASE s.seq.inflight = NoCommand
    <3> DEFINE q == [s.seq EXCEPT !.client = FALSE]
    <3>1. q \in Seqs /\ q.inflight = s.seq.inflight /\ q.comqueue = s.seq.comqueue
      BY <1>s DEF Seqs
    <3>2. r = [s EXCEPT !.seq = q]
      BY <2>2, <1>s DEF SeqDelete, States, Seqs
    <3> QED BY <3>1, <3>2, <2>2
  <2> QED BY <2>1, <2>2
<1> HIDE DEF r
<1>3. PICK q \in Seqs : /\ r = [s EXCEPT !.seq = q] /\ q.inflight = s.seq.inflight
                        /\ q.comqueue = s.seq.comqueue
                        /\ s.seq.inflight # NoCommand => q.client = s.seq.client
  BY <1>2
<1>4. /\ r \in States /\ r.seq = q /\ r.client = s.client /\ r.sess = s.sess /\ r.body = s.body
      /\ r.media = s.media /\ r.opened = s.opened
  BY <1>3, <1>s DEF States
<1>5. Line(q) = Line(s.seq)
  BY <1>3 DEF Line
<1>6. QueueOK(r)
  BY <1>3, <1>4, <1>s DEF QueueOK
<1>7. SessAt(Line(s.seq), q, s.sess, s.opened)
  BY <1>1, <1>s DEF SessAt
<1> QED BY <1>4, <1>5, <1>6, <1>7 DEF Sound, BodiesOK, MediaOK, SessOK, r

LEMMA ExtendsOn ==
    ASSUME NEW L \in Seq(Cmd), NEW M \in Seq(Cmd), NEW N \in Seq(Cmd), Extends(L, M), Extends(M, N)
    PROVE  Extends(L, N)
BY DEF Extends

LEMMA ResultStep ==
    ASSUME Sound(State), Result
    PROVE  Sound(State') /\ Advances(Line(seq), Line(seq'))
<1>f. /\ State \in States /\ State.seq = seq /\ State.client = client /\ seq \in Seqs
      /\ Line(seq) \in Seq(Cmd)
  BY StateFields
<1>1. PICK ok \in BOOLEAN : Become(Collect(result_callback(State, ok)))
  BY DEF Result
<1>2. State.seq.inflight # NoCommand
  BY <1>f DEF Result, Sound, QueueOK
<1> DEFINE L == Line(seq)
           v == Callback(Popped(State), State.seq.inflight, ok)
           r == result_callback(State, ok)
<1>3. r = IF v.seq.deleted /\ ~v.raised THEN SeqDelete(v) ELSE v
  BY DEF result_callback, Popped
<1>4. L # <<>> /\ Tail(L) \in Seq(Cmd)
  BY <1>2, <1>f, LineFacts, TailAt DEF Sound, QueueOK
<1>5. Sound(v) /\ (Line(v.seq) = Tail(L) \/ \E d \in Cmd : Line(v.seq) = Append(Tail(L), d))
  BY <1>2, <1>f, CallbackIs
<1> HIDE DEF v, r, L
<1>6. Sound(r) /\ Line(r.seq) = Line(v.seq)
  BY <1>3, <1>5, DeletedIs
<1>7. Extends(Tail(L), Line(r.seq))
  BY <1>4, <1>5, <1>6, ExtendsFacts
<1>8. Sound(Collect(r)) /\ Extends(Line(r.seq), Line(Collect(r).seq))
  BY <1>6, CollectIs
<1>9. Line(r.seq) \in Seq(Cmd) /\ Line(Collect(r).seq) \in Seq(Cmd)
  BY <1>6, <1>8, LineFacts DEF Sound, States, QueueOK
<1>10. Extends(Tail(L), Line(Collect(r).seq))
  BY <1>4, <1>7, <1>8, <1>9, ExtendsOn
<1>11. Sound(State') /\ seq' = Collect(r).seq
  BY <1>1, <1>8, BecomeSound DEF r
<1> QED BY <1>4, <1>10, <1>11 DEF Advances, L

-----------------------------------------------------------------------------
(* The session from its first state on.                                    *)

LEMMA InitSound ==
    ASSUME Init
    PROVE  Sound(State)
<1> DEFINE e0 == [d \in Sides |-> FALSE]
           b0 == [st |-> "new", left |-> {}, needs_update |-> TRUE, told |-> <<>>]
<1>1. /\ seq = [inflight |-> NoCommand, comqueue |-> <<>>, client |-> TRUE, deleted |-> FALSE]
      /\ seq \in Seqs /\ client = <<>> /\ client \in Seq(Cmd) /\ opened = {}
  BY DEF Init, Seqs
<1>2. sess \in Sess /\ sess.rtpc
  <2>1. e0 \in [Sides -> BOOLEAN]
    OBVIOUS
  <2>2. sess = [max_index |-> -1, media_timeout_index |-> -1, exists |-> e0, held |-> TRUE, rtpc |-> TRUE]
    BY DEF Init
  <2> HIDE DEF e0
  <2> QED BY <2>1, <2>2 DEF Sess
<1>3. /\ body \in [Bodies -> Body]
      /\ \A b \in Bodies : body[b] = b0
  <2>1. b0 \in Body
    <3>1. <<>> \in Seq({"done", "error"})
      OBVIOUS
    <3> QED BY <3>1 DEF Body
  <2>2. body = [b \in Bodies |-> b0]
    BY DEF Init
  <2> HIDE DEF b0
  <2> QED BY <2>1, <2>2
<1>4. media \in [Media -> Medium] /\ \A m \in Media : media[m] = "new"
  BY DEF Init, Medium
<1>5. /\ State \in States /\ State.seq = seq /\ State.client = client /\ State.sess = sess
      /\ State.body = body /\ State.media = media /\ State.opened = opened
  BY <1>1, <1>2, <1>3, <1>4 DEF State, States
<1>6. seq.inflight = NoCommand /\ seq.comqueue = <<>> /\ seq.client /\ ~seq.deleted
  BY <1>1
<1>7. Line(seq) = <<>>
  BY <1>1, <1>6, LineFacts
<1>8. QueueOK(State)
  BY <1>1, <1>5, <1>6 DEF QueueOK
<1>9. BodiesOK(State)
  <2>1. ASSUME NEW b \in Bodies
        PROVE  BodyAt(<<>>, body[b], b)
    <3>1. body[b].st = "new" /\ body[b].told = <<>> /\ body[b].needs_update
      BY <1>3
    <3>2. ~Waits(<<>>, b) /\ <<>> # <<"done">>
      BY DEF Waits
    <3> QED BY <3>1, <3>2 DEF BodyAt
  <2> QED BY <2>1, <1>5, <1>7 DEF BodiesOK
<1>10. MediaOK(State)
  <2>1. ASSUME NEW m \in Media
        PROVE  MediaAt(<<>>, "new", m)
    BY DEF MediaAt, Waits
  <2> QED BY <2>1, <1>4, <1>5, <1>7 DEF MediaOK
<1>11. SessOK(State)
  <2>1. SessAt(<<>>, seq, sess, {})
    BY <1>2, <1>6 DEF SessAt
  <2> QED BY <2>1, <1>1, <1>5, <1>7 DEF SessOK
<1> QED BY <1>5, <1>8, <1>9, <1>10, <1>11 DEF Sound

LEMMA NextSound ==
    ASSUME Sound(State), [Next]_vars
    PROVE  Sound(State') /\ Advances(Line(seq), Line(seq'))
<1>1. CASE UNCHANGED vars
  <2>1. State' = State /\ seq' = seq
    BY <1>1 DEF vars, State
  <2>2. Extends(Line(seq), Line(seq))
    BY StateFields, ExtendsFacts
  <2> QED BY <2>1, <2>2 DEF Advances
<1>2. ASSUME NEW d \in Sides, NEW b \in Bodies, SdpChange(d, b)
      PROVE  Sound(State') /\ Advances(Line(seq), Line(seq'))
  BY <1>2, SdpSteps
<1>3. ASSUME NEW d \in Sides, NEW m \in Media, Play(d, m) \/ StopPlay(d, m) \/ Copy(d, m)
      PROVE  Sound(State') /\ Advances(Line(seq), Line(seq'))
  BY <1>3, MediaSteps
<1>4. ASSUME NEW m \in Media, StartRecording(m)
      PROVE  Sound(State') /\ Advances(Line(seq), Line(seq'))
  <2>1. "caller" \in Sides
    BY DEF Sides
  <2> QED BY <2>1, <1>4, MediaSteps
<1>5. ASSUME NEW i \in Indexes, MediaTimeout(i)
      PROVE  Sound(State') /\ Advances(Line(seq), Line(seq'))
  BY <1>5, TimeoutStep
<1>6. CASE Result
  BY <1>6, ResultStep
<1>7. CASE Release
  BY <1>7, ReleaseStep
<1> QED BY <1>1, <1>2, <1>3, <1>4, <1>5, <1>6, <1>7 DEF Next

LEMMA SoundTyped ==
    ASSUME Sound(State)
    PROVE  TypeOK
<1>f. /\ seq \in Seqs /\ sess \in Sess /\ body \in [Bodies -> Body]
      /\ media \in [Media -> Medium] /\ opened \in SUBSET Indexes
      /\ State.client = client /\ State \in States
  BY StateFields
<1>1. Cmd \subseteq Commands \ {NoCommand}
  <2>1. \A c \in Cmd : c # NoCommand
    BY CmdFacts
  <2> QED BY <2>1 DEF Cmd, Commands
<1>2. \A q \in Seq(Cmd) : q \in Seq(Commands \ {NoCommand})
  BY <1>1
<1>3. client \in Seq(Cmd)
  BY <1>f DEF States
<1>4. /\ seq.inflight \in {NoCommand} \cup Cmd /\ seq.comqueue \in Seq(Cmd)
      /\ seq.client \in BOOLEAN /\ seq.deleted \in BOOLEAN
  BY <1>f DEF Seqs
<1>5. seq.inflight \in Commands
  BY <1>1, <1>4 DEF Commands
<1> QED BY <1>2, <1>3, <1>4, <1>5, <1>f DEF TypeOK, Sess, Body, Medium

LEMMA SoundAnswers ==
    ASSUME Sound(State)
    PROVE  AnsweredOnce /\ DoneIsComplete
<1>f. /\ State.seq = seq /\ State.body = body /\ State.media = media
      /\ body \in [Bodies -> Body] /\ Line(seq) \in Seq(Cmd)
  BY StateFields
<1>t. Todo = Line(seq)
  BY DEF Todo, Line
<1>1. ASSUME NEW b \in Bodies
      PROVE  /\ Len(body[b].told) <= 1
             /\ body[b].st = "held" =>
                   ((body[b].told = <<>>) <=> (body[b].needs_update /\ Waits(Line(seq), b)))
             /\ body[b].told = <<"done">> => body[b].left = {}
  <2>1. BodyAt(Line(seq), body[b], b)
    BY <1>f DEF Sound, BodiesOK
  <2>2. body[b].told \in {<<>>, <<"done">>, <<"error">>}
    BY <2>1 DEF BodyAt
  <2>3. Len(<<>>) = 0 /\ Len(<<"done">>) = 1 /\ Len(<<"error">>) = 1
    OBVIOUS
  <2>4. ASSUME body[b].st = "held", body[b].needs_update
        PROVE  Waits(Line(seq), b)
    BY <2>1, <2>4 DEF BodyAt, Waits
  <2>5. Len(body[b].told) <= 1
    <3> DEFINE n == Len(body[b].told)
    <3>1. n = 0 \/ n = 1
      BY <2>2, <2>3, Zenon
    <3> HIDE DEF n
    <3>2. n <= 1
      BY <3>1
    <3> QED BY <3>2 DEF n
  <2>6. body[b].needs_update <=> body[b].told = <<>>
    BY <2>1 DEF BodyAt
  <2>7. body[b].told = <<"done">> => body[b].left = {}
    BY <2>1 DEF BodyAt
  <2> QED BY <2>4, <2>5, <2>6, <2>7
<1>2. ASSUME NEW m \in Media
      PROVE  media[m] # "twice" /\ (media[m] = "waits" <=> Waits(Line(seq), m))
  BY <1>f DEF Sound, MediaOK, MediaAt
<1> QED BY <1>1, <1>2, <1>t DEF AnsweredOnce, DoneIsComplete, Waits

LEMMA SoundReleased ==
    ASSUME Sound(State)
    PROVE  Released
<1>f. /\ State.seq = seq /\ State.client = client /\ State.sess = sess /\ State.opened = opened
      /\ seq \in Seqs
  BY StateFields
<1>1. /\ client = (IF seq.inflight = NoCommand THEN <<>> ELSE <<seq.inflight>>)
      /\ seq.inflight = NoCommand => seq.comqueue = <<>>
      /\ ~seq.client => seq.inflight = NoCommand
  BY <1>f DEF Sound, QueueOK
<1>2. ASSUME ~seq.client
      PROVE  opened \subseteq {sess.media_timeout_index} /\ client = <<>>
  <2>1. Line(seq) = <<>> /\ client = <<>>
    BY <1>1, <1>2, <1>f, LineFacts
  <2>2. SessAt(Line(seq), seq, sess, opened)
    BY <1>f DEF Sound, SessOK
  <2>3. \A i \in opened \ {sess.media_timeout_index} : \E k \in DOMAIN Line(seq) : Line(seq)[k].op = "D"
    BY <1>2, <2>2 DEF SessAt
  <2>4. DOMAIN Line(seq) = {}
    BY <2>1
  <2> QED BY <2>1, <2>3, <2>4
<1> QED BY <1>2 DEF Released

\* A body goes back once and complete, an operation is told once, and once the sequencer
\* has let go of the client everything the proxy was told to open is closed: for any
\* number of bodies and operations on the session, in whatever order the call asks for
\* them, the proxy answers or fails, the callbacks go on and the call ends.
THEOREM SessionIsSound == Spec => []SessionSound
<1>1. Init => Sound(State)
  BY InitSound
<1>2. Sound(State) /\ [Next]_vars => Sound(State)'
  BY NextSound
<1>3. Sound(State) => SessionSound
  BY SoundTyped, SoundAnswers, SoundReleased DEF SessionSound
<1> QED BY <1>1, <1>2, <1>3, PTL DEF Spec

LEMMA ExtendsPrefix ==
    ASSUME NEW L \in Seq(Cmd), NEW M \in Seq(Cmd), Extends(L, M)
    PROVE  Queue!IsPrefix(L, M)
<1>1. Len(L) \in Nat /\ Len(M) \in Nat /\ Len(L) <= Len(M) /\ \A k \in 1 .. Len(L) : M[k] = L[k]
  BY DEF Extends
<1>2. SubSeq(L, 1, Len(L)) = [i \in 1 .. Len(L) |-> L[i]]
  BY <1>1
<1>3. SubSeq(M, 1, Len(L)) = [i \in 1 .. Len(L) |-> M[i]]
  BY <1>1
<1>4. SubSeq(L, 1, Len(L)) = SubSeq(M, 1, Len(L))
  BY <1>1, <1>2, <1>3
<1> QED BY <1>1, <1>4 DEF Queue!IsPrefix

LEMMA ClientHasFirst ==
    ASSUME NEW q \in Seqs, q.inflight = NoCommand => q.comqueue = <<>>
    PROVE  (IF q.inflight = NoCommand THEN <<>> ELSE <<q.inflight>>) = Queue!First(Line(q))
<1>1. CASE q.inflight = NoCommand
  <2>1. Line(q) = <<>>
    BY <1>1, LineFacts
  <2>2. SubSeq(<<>>, 1, 0) = <<>>
    OBVIOUS
  <2> QED BY <2>1, <2>2, <1>1 DEF Queue!First
<1>2. CASE q.inflight # NoCommand
  <2>1. Line(q) \in Seq(Cmd) /\ Line(q) # <<>> /\ Line(q)[1] = q.inflight
    BY <1>2, LineFacts
  <2>2. ASSUME NEW L \in Seq(Cmd), L # <<>>
        PROVE  SubSeq(L, 1, 1) = <<L[1]>>
    <3>1. Len(L) \in Nat /\ Len(L) >= 1
      BY <2>2
    <3>2. SubSeq(L, 1, 1) = [k \in 1 .. 1 |-> L[k]]
      BY <3>1
    <3>3. <<L[1]>> = [k \in 1 .. 1 |-> L[k]]
      OBVIOUS
    <3> QED BY <3>2, <3>3
  <2> QED BY <2>1, <2>2, <1>2 DEF Queue!First
<1> QED BY <1>1, <1>2

\* The sequencer implements CommandQueue: one command at a time is with the client of the
\* proxy, in the order in which they were given to the sequencer, and none is lost,
\* whatever callbacks send while the answer to another command is dealt with.
THEOREM QueueKept == Spec => InOrder
<1>1. Init => Sound(State)
  BY InitSound
<1>2. Sound(State) /\ [Next]_vars => Sound(State)'
  BY NextSound
<1>3. Init => Queue!Init
  <2>1. SUFFICES ASSUME Init PROVE Todo = <<>> /\ client = <<>>
    BY DEF Queue!Init
  <2>2. seq.inflight = NoCommand /\ seq.comqueue = <<>> /\ client = <<>>
    BY <2>1 DEF Init
  <2> QED BY <2>2 DEF Todo
<1>4. Sound(State) /\ Sound(State)' /\ [Next]_vars => [Queue!Step]_(Queue!vars)
  <2>1. SUFFICES ASSUME Sound(State), Sound(State'), [Next]_vars
                 PROVE  Queue!Step
    OBVIOUS
  <2>2. Advances(Line(seq), Line(seq'))
    BY <2>1, NextSound
  <2>3. Todo = Line(seq) /\ Todo' = Line(seq')
    BY DEF Todo, Line
  <2>4. Line(seq) \in Seq(Cmd) /\ Line(seq') \in Seq(Cmd)
    <3>1. seq' \in Seqs /\ (seq'.inflight = NoCommand => seq'.comqueue = <<>>)
      BY <2>1 DEF Sound, State, States, QueueOK
    <3> QED BY <2>1, <3>1, StateFields, LineFacts
  <2>c. /\ seq' \in Seqs /\ (seq'.inflight = NoCommand => seq'.comqueue = <<>>)
        /\ client' = (IF seq'.inflight = NoCommand THEN <<>> ELSE <<seq'.inflight>>)
    BY <2>1 DEF Sound, State, States, QueueOK
  <2>5. Queue!IsPrefix(Todo, Todo') \/ (Todo # <<>> /\ Queue!IsPrefix(Tail(Todo), Todo'))
    BY <2>2, <2>3, <2>4, ExtendsPrefix, TailAt DEF Advances
  <2>6. client' = Queue!First(Todo')
    BY <2>3, <2>c, ClientHasFirst
  <2> QED BY <2>5, <2>6 DEF Queue!Step
<1> QED BY <1>1, <1>2, <1>3, <1>4, PTL DEF Spec, InOrder, Queue!Spec
=============================================================================
