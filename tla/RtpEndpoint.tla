---------------------------- MODULE RtpEndpoint ----------------------------
(***************************************************************************)
(* An RTP end point (RTPEPoint) with its output workers (RTPOutputWorker), *)
(* its input stream (RTPInStream) and its share of the RTP server and the  *)
(* RTP processor, of which the process has one each (Singletons).  Four    *)
(* threads meet in it: one calls update(), one soundout(), one shutdown()  *)
(* (or collects the object, which is the same), and the server and the     *)
(* processor call rtp_received() and _proc_in().  Frames and bytes are     *)
(* counted, what they sound like is left out; with G.711 a byte is a       *)
(* frame.  A packet of an output worker holds ptime bytes.                 *)
(***************************************************************************)
EXTENDS Integers, Sequences, FiniteSets

CONSTANTS
    RtpParams,      \* what update() may be given: [target, proto, ptime]
    Families,       \* the protocols each target has an address for
    Chunks,         \* what soundout() may be given: [n, rate]; rate 1 is the codec's
    Packets,        \* frames in a received packet
    OutChunk,       \* out_chunk_sz_samples, in frames
    OtherUsers,         \* the other end points that use the server
    MaxUpdates, MaxChunks, MaxPackets, MaxShutdowns     \* bounds

ASSUME RtpAssumption ==
    /\ \A p \in RtpParams :
          p \in [target : DOMAIN Families, proto : Families[p.target], ptime : Nat \ {0}]
    /\ \A c \in Chunks : c.n \in Nat \ {0} /\ c.rate \in Nat \ {0}
    /\ OutChunk \in Nat \ {0} /\ OtherUsers \in Nat
    /\ Packets \subseteq Nat /\ MaxPackets \in Nat

VARIABLES
    ep,         \* rtp_params
    writer,     \* self.writer, 0 for None
    rserv,      \* self.rserv, the channel of the server, 0 for None
    server,     \* self._rtp_server is set
    chan,       \* every channel made: [open, proto, target]
    workers,        \* every output worker made
    refs,       \* references to the server and to the processor
    upd,        \* the thread in update(): where it is, and its locals
    shut,       \* the thread in shutdown()
    snd,        \* soundout() holds state_lock: the worker and the chunk
    ins,        \* the input stream
    failed,     \* history: an exception came out of the constructor, update() or shutdown()
    leaked,     \* history: the channels nobody is left to close
    kept,       \* history: shutdown() raised before it gave back the server
    resampled,  \* history: a chunk came at another rate
    updates, chunks, shutdowns

rtpVars == <<ep, writer, rserv, server, chan, workers, refs, upd, shut, snd, ins,
             failed, leaked, kept, resampled, updates, chunks, shutdowns>>
Attached == <<writer, rserv, server>>
Lost     == <<failed, leaked, kept>>
Counters == <<Lost, resampled, updates, chunks, shutdowns>>

NoTarget == "none"
Idle     == [pc |-> "idle"]

\* state_lock is free: neither soundout() has it nor update() over join().
Unlocked == snd = <<>> /\ upd.pc # "drop"

NewWorker(pt) ==
    [ptime |-> pt, ended |-> FALSE, open |-> TRUE, ref |-> TRUE, cb |-> "idle",
     queue |-> <<>>, buf |-> 0, pend |-> <<>>, rcvd |-> 0, prcsd |-> 0]
NewChannel(p) == [open |-> TRUE, proto |-> p.proto, target |-> p.target]
NewStream == [last |-> -1, jb |-> -1, seq |-> 0, obuf |-> 0, got |-> 0, given |-> 0,
              asserted |-> TRUE]

\* Sums over a sequence: of its numbers, of the frames of its chunks, of the
\* bytes of what is pending.
Total(s) ==
    LET upto[k \in 0 .. Len(s)] == IF k = 0 THEN 0 ELSE upto[k - 1] + s[k]
    IN upto[Len(s)]
Frames(s) == Total([i \in DOMAIN s |-> s[i].n])
Bytes(s)  == Total([i \in DOMAIN s |-> s[i].rem])

Live == {w \in DOMAIN workers : ~workers[w].ended}

RtpInit ==
    /\ ep \in RtpParams
    /\ writer = 0 /\ rserv = 0 /\ server = FALSE
    /\ chan = <<>> /\ workers = <<>>
    /\ refs = [server |-> OtherUsers, proc |-> 0]
    /\ upd = [pc |-> "new"] /\ shut = Idle /\ snd = <<>>
    /\ ins = NewStream
    /\ failed = FALSE /\ leaked = {} /\ kept = FALSE /\ resampled = FALSE
    /\ updates = 0 /\ chunks = 0 /\ shutdowns = 0

-----------------------------------------------------------------------------
(* The constructor.                                                        *)

OneLess(what) == [refs EXCEPT ![what] = IF @ > 0 THEN @ - 1 ELSE @]

\* make_udp_server() with _bind_channel(): a port in use is tried again with
\* the next one; any other error, also of set_target(), gives the server back
\* and closes the channel, and the object is not made.
MakeFails ==
    /\ upd.pc = "new"
    /\ upd' = Idle /\ failed' = TRUE
    /\ UNCHANGED <<ep, Attached, chan, workers, refs, shut, snd, ins, leaked, kept, resampled,
                   updates, chunks, shutdowns>>

Make ==
    /\ upd.pc = "new"
    /\ upd' = Idle
    /\ server' = TRUE /\ chan' = <<NewChannel(ep)>> /\ rserv' = 1
    /\ IF ep.target = NoTarget
       THEN UNCHANGED <<writer, workers>> /\ refs' = [refs EXCEPT !.server = @ + 1]
       ELSE /\ writer' = 1 /\ workers' = <<NewWorker(ep.ptime)>>
            /\ refs' = [server |-> refs.server + 1, proc |-> refs.proc + 1]
    /\ UNCHANGED <<ep, shut, snd, ins, Counters>>

-----------------------------------------------------------------------------
(* update().                                                               *)

\* The first section under state_lock: the new parameters, and which worker
\* has to go and whether another one has to come.
ParamsTaken(p) ==
    LET proto == ep.proto # p.proto
        need == p.target # NoTarget /\ (writer = 0 \/ ep.ptime # p.ptime \/ proto)
        old == IF need \/ p.target = NoTarget THEN writer ELSE 0 IN
    /\ ep' = p
    /\ writer' = IF old # 0 THEN 0 ELSE writer
    /\ upd' = [pc |-> "end", old |-> old, need |-> need, channel |-> rserv, proto |-> proto,
               target |-> ep.target # p.target]
    /\ UNCHANGED failed

\* A setter of RTPParams raises: local4remote() finds no address of the family,
\* or no way to it.  What the setters have assigned so far stays.
ParamsRefused(assigned) ==
    /\ ep' = assigned /\ failed' = TRUE
    /\ UNCHANGED <<upd, writer>>

\* The rtp_proto setter looks up the OLD target in the new family, the
\* rtp_target setter the new one.
UpdateBegin(p) ==
    /\ upd = Idle /\ chan # <<>> /\ Unlocked /\ updates < MaxUpdates
    /\ \/ /\ p.proto # ep.proto => p.proto \in Families[ep.target]
          /\ ParamsTaken(p)
       \/ /\ p.proto # ep.proto /\ ep.target # NoTarget
          /\ ParamsRefused([ep EXCEPT !.proto = p.proto])
       \/ /\ p.proto # ep.proto => p.proto \in Families[ep.target]
          /\ p.target \notin {NoTarget, ep.target}
          /\ ParamsRefused([ep EXCEPT !.proto = p.proto, !.target = p.target])
    /\ updates' = updates + 1
    /\ UNCHANGED <<rserv, server, chan, workers, refs, shut, snd, ins, leaked, kept, resampled,
                   chunks, shutdowns>>

\* end() of a worker.
WorkerEnded(w) == [workers EXCEPT ![w].ended = TRUE]

\* join() of a worker: its channel is closed, unless the assertion that it is
\* still open fails, and in either case the processor is given back.
Joined(w) == [workers EXCEPT ![w].open = FALSE, ![w].ref = FALSE]

\* Where update() goes on after the old worker.
AfterJoin ==
    CASE upd.proto /\ upd.channel # 0 -> "swap"
      [] ~upd.proto /\ upd.target /\ upd.channel # 0 /\ ep.target # NoTarget -> "target"
      [] OTHER -> "make"

UpdateEnd ==
    /\ upd.pc = "end"
    /\ workers' = IF upd.old = 0 THEN workers ELSE WorkerEnded(upd.old)
    /\ upd' = [upd EXCEPT !.pc = IF upd.old = 0 THEN AfterJoin ELSE "join"]
    /\ UNCHANGED <<ep, Attached, chan, refs, shut, snd, ins, Counters>>

UpdateJoin ==
    /\ upd.pc = "join"
    /\ workers' = Joined(upd.old) /\ refs' = OneLess("proc")
    /\ IF workers[upd.old].open
       THEN upd' = [upd EXCEPT !.pc = AfterJoin] /\ UNCHANGED failed
       ELSE upd' = Idle /\ failed' = TRUE
    /\ UNCHANGED <<ep, Attached, chan, shut, snd, ins, leaked, kept, resampled, updates, chunks,
                   shutdowns>>

\* The processor (external) may close the channel of a worker whose _proc_in()
\* has told it to stop, before join() does.
ProcCloses(w) ==
    /\ workers[w].ended /\ workers[w].open /\ workers[w].cb # "send"
    /\ workers' = [workers EXCEPT ![w].open = FALSE]
    /\ UNCHANGED <<ep, Attached, chan, refs, upd, shut, snd, ins, Counters>>

\* set_target(), which may raise (a channel that was shut down meanwhile, or an
\* address of the other family).
UpdateTarget ==
    /\ upd.pc = "target"
    /\ \/ /\ upd' = [upd EXCEPT !.pc = "make"]
          /\ chan' = [chan EXCEPT ![upd.channel].target = ep.target]
          /\ UNCHANGED failed
       \/ upd' = Idle /\ failed' = TRUE /\ UNCHANGED chan
    /\ UNCHANGED <<ep, Attached, workers, refs, shut, snd, ins, leaked, kept, resampled, updates,
                   chunks, shutdowns>>

Swappable == server /\ rserv = upd.channel

\* _swap_channel(), its first section under state_lock.
SwapCheck ==
    /\ upd.pc = "swap" /\ Unlocked
    /\ upd' = [upd EXCEPT !.pc = IF Swappable THEN "bind" ELSE "make"]
    /\ UNCHANGED <<ep, Attached, chan, workers, refs, shut, snd, ins, Counters>>

\* _bind_channel() on the port of the old channel, or the next free one.  An
\* error (the server was shut down meanwhile, or bind() fails) ends update().
SwapBind ==
    /\ upd.pc = "bind"
    /\ \/ /\ upd' = [upd EXCEPT !.pc = "aim"]
          /\ chan' = Append(chan, [NewChannel(ep) EXCEPT !.target = NoTarget])
          /\ UNCHANGED failed
       \/ upd' = Idle /\ failed' = TRUE /\ UNCHANGED chan
    /\ UNCHANGED <<ep, Attached, workers, refs, shut, snd, ins, leaked, kept, resampled, updates,
                   chunks, shutdowns>>

\* set_target() of the new channel, if there is a target.  If it raises nobody
\* closes the channel, unlike in the constructor.
SwapAim ==
    /\ upd.pc = "aim"
    /\ \/ /\ upd' = [upd EXCEPT !.pc = "put"]
          /\ chan' = [chan EXCEPT ![Len(chan)].target = ep.target]
          /\ UNCHANGED <<failed, leaked>>
       \/ /\ ep.target # NoTarget
          /\ upd' = Idle /\ failed' = TRUE /\ leaked' = leaked \cup {Len(chan)}
          /\ UNCHANGED chan
    /\ UNCHANGED <<ep, Attached, workers, refs, shut, snd, ins, kept, resampled, updates, chunks,
                   shutdowns>>

\* Mistake: the second section does not look again.
SwapPutBlind ==
    /\ upd.pc = "put" /\ Unlocked
    /\ rserv' = Len(chan)
    /\ upd' = [upd EXCEPT !.pc = "close"]
    /\ UNCHANGED <<ep, writer, server, chan, workers, refs, shut, snd, ins, Counters>>

\* The second section: the new channel takes the place of the old one, unless
\* the end point was shut down meanwhile.
SwapPut ==
    /\ upd.pc = "put" /\ Unlocked
    /\ IF Swappable
       THEN /\ rserv' = Len(chan) /\ UNCHANGED chan
            /\ upd' = [upd EXCEPT !.pc = "close"]
       ELSE /\ chan' = [chan EXCEPT ![Len(chan)].open = FALSE] /\ UNCHANGED rserv
            /\ upd' = [upd EXCEPT !.pc = "make"]
    /\ UNCHANGED <<ep, writer, server, workers, refs, shut, snd, ins, Counters>>

SwapClose ==
    /\ upd.pc = "close"
    /\ chan' = [chan EXCEPT ![upd.channel].open = FALSE]
    /\ upd' = [upd EXCEPT !.pc = "make"]
    /\ UNCHANGED <<ep, Attached, workers, refs, shut, snd, ins, Counters>>

\* The new worker is made and started.
UpdateMake ==
    /\ upd.pc = "make"
    /\ IF upd.need
       THEN /\ workers' = Append(workers, NewWorker(ep.ptime))
            /\ refs' = [refs EXCEPT !.proc = @ + 1]
            /\ upd' = [upd EXCEPT !.pc = "keep"]
       ELSE UNCHANGED <<workers, refs>> /\ upd' = [upd EXCEPT !.pc = "stream"]
    /\ UNCHANGED <<ep, Attached, chan, shut, snd, ins, Counters>>

\* Mistake: the new worker is kept without looking whether the end point is
\* still there.
UpdateKeepBlind ==
    /\ upd.pc = "keep" /\ Unlocked
    /\ writer' = Len(workers) /\ upd' = [upd EXCEPT !.pc = "stream"]
    /\ UNCHANGED <<ep, rserv, server, chan, workers, refs, shut, snd, ins, Counters>>

\* The last section: the worker is kept, or ended if the end point was shut
\* down meanwhile; state_lock is held over its end() and join().
UpdateKeep ==
    /\ upd.pc = "keep" /\ Unlocked
    /\ IF rserv = 0 \/ ep.target = NoTarget
       THEN /\ workers' = WorkerEnded(Len(workers)) /\ UNCHANGED writer
            /\ upd' = [upd EXCEPT !.pc = "drop"]
       ELSE /\ writer' = Len(workers) /\ UNCHANGED workers
            /\ upd' = [upd EXCEPT !.pc = "stream"]
    /\ UNCHANGED <<ep, rserv, server, chan, refs, shut, snd, ins, Counters>>

UpdateDrop ==
    /\ upd.pc = "drop"
    /\ workers' = Joined(Len(workers)) /\ refs' = OneLess("proc")
    /\ IF workers[Len(workers)].open
       THEN upd' = [upd EXCEPT !.pc = "stream"] /\ UNCHANGED failed
       ELSE upd' = Idle /\ failed' = TRUE
    /\ UNCHANGED <<ep, Attached, chan, shut, snd, ins, leaked, kept, resampled, updates, chunks,
                   shutdowns>>

\* RTPInStream.stream_update(): a new jitter buffer, which expects nothing.
stream_update ==
    /\ upd.pc = "stream"
    /\ ins' = [ins EXCEPT !.jb = -1, !.last = -1]
    /\ upd' = Idle
    /\ UNCHANGED <<ep, Attached, chan, workers, refs, shut, snd, Counters>>

-----------------------------------------------------------------------------
(* shutdown().                                                             *)

\* Mistake: the attributes keep their values.
ShutTakeLeaves ==
    /\ shut = Idle /\ upd.pc # "new" /\ Unlocked /\ shutdowns < MaxShutdowns
    /\ shut' = [pc |-> "end", writer |-> writer, channel |-> rserv, server |-> server]
    /\ shutdowns' = shutdowns + 1
    /\ UNCHANGED <<ep, Attached, chan, workers, refs, upd, snd, ins, Lost, resampled,
                   updates, chunks>>

\* Everything is taken under state_lock, so that a second call has nothing to
\* do.
ShutTake ==
    /\ shut = Idle /\ upd.pc # "new" /\ Unlocked /\ shutdowns < MaxShutdowns
    /\ shut' = [pc |-> "end", writer |-> writer, channel |-> rserv, server |-> server]
    /\ writer' = 0 /\ rserv' = 0 /\ server' = FALSE
    /\ shutdowns' = shutdowns + 1
    /\ UNCHANGED <<ep, chan, workers, refs, upd, snd, ins, Lost, resampled, updates, chunks>>

ShutEnd ==
    /\ shut.pc = "end"
    /\ workers' = IF shut.writer = 0 THEN workers ELSE WorkerEnded(shut.writer)
    /\ shut' = [shut EXCEPT !.pc = IF shut.writer = 0 THEN "close" ELSE "join"]
    /\ UNCHANGED <<ep, Attached, chan, refs, upd, snd, ins, Counters>>

\* If join() raises, the channel stays open and the server is not given back.
ShutJoin ==
    /\ shut.pc = "join"
    /\ workers' = Joined(shut.writer) /\ refs' = OneLess("proc")
    /\ IF workers[shut.writer].open
       THEN shut' = [shut EXCEPT !.pc = "close"] /\ UNCHANGED Lost
       ELSE /\ shut' = Idle /\ failed' = TRUE
            /\ leaked' = leaked \cup ({shut.channel} \ {0}) /\ kept' = (kept \/ shut.server)
    /\ UNCHANGED <<ep, Attached, chan, upd, snd, ins, resampled, updates, chunks, shutdowns>>

\* The channel is closed and the server given back.
ShutClose ==
    /\ shut.pc = "close"
    /\ chan' = IF shut.channel = 0 THEN chan ELSE [chan EXCEPT ![shut.channel].open = FALSE]
    /\ refs' = IF shut.server THEN OneLess("server") ELSE refs
    /\ shut' = Idle
    /\ UNCHANGED <<ep, Attached, workers, upd, snd, ins, Counters>>

-----------------------------------------------------------------------------
(* soundout() and _proc_in().                                              *)

\* soundout() counts the frames and then queues the chunk, under state_lock.
SoundCount(c) ==
    /\ Unlocked /\ writer # 0 /\ chunks < MaxChunks
    /\ chunks' = chunks + 1
    /\ snd' = <<writer, c>>
    /\ workers' = [workers EXCEPT ![writer].rcvd = @ + c.n]
    /\ resampled' = (resampled \/ c.rate # 1)
    /\ UNCHANGED <<ep, Attached, chan, refs, upd, shut, ins, Lost, updates, shutdowns>>

SoundPut ==
    /\ snd # <<>>
    /\ workers' = [workers EXCEPT ![snd[1]].queue = Append(@, snd[2])]
    /\ snd' = <<>>
    /\ UNCHANGED <<ep, Attached, chan, refs, upd, shut, ins, Counters>>

\* Bytes of a chunk: the padding is worked out from its length before it is
\* resampled.
Encoded(o, c) == (c.n \div c.rate) + ((0 - c.n) % o.ptime)

\* One chunk out of the queue, into the buffer and the list of the pending ones.
TakeChunk(o) ==
    LET c == Head(o.queue)
        e == Encoded(o, c)
        taken == [o EXCEPT !.queue = Tail(@), !.buf = @ + e] IN
    IF e > 0 THEN [taken EXCEPT !.pend = Append(@, [rem |-> e, n |-> c.n])]
    ELSE [taken EXCEPT !.prcsd = @ + c.n]

\* As many chunks as a packet needs.
Fill(o) ==
    LET after[k \in 0 .. Len(o.queue)] ==
            IF k = 0 THEN o
            ELSE IF after[k - 1].buf >= o.ptime THEN after[k - 1]
            ELSE TakeChunk(after[k - 1])
    IN after[Len(o.queue)]

\* Mistake: a worker that has nothing to send is not called again.
ProcInStops(w) ==
    LET o == Fill(workers[w]) IN
    /\ workers[w].open /\ ~workers[w].ended /\ workers[w].cb = "idle"
    /\ \/ /\ o.buf < o.ptime
          /\ workers' = [workers EXCEPT ![w] = [o EXCEPT !.cb = "stopped"]]
       \/ /\ o.buf >= o.ptime
          /\ workers' = [workers EXCEPT ![w] = [o EXCEPT !.buf = @ - o.ptime, !.cb = "send"]]
    /\ UNCHANGED <<ep, Attached, chan, refs, upd, shut, snd, ins, Counters>>

\* _proc_in() up to pkt_send_f(): nothing once the worker has ended; the
\* assertion that the buffer holds whole packets ends the call, and the
\* processor may or may not call again.
ProcIn(w) ==
    LET o == Fill(workers[w]) IN
    /\ workers[w].open /\ ~workers[w].ended /\ workers[w].cb = "idle"
    /\ \/ /\ o.buf < o.ptime /\ o # workers[w]
          /\ workers' = [workers EXCEPT ![w] = o]
       \/ /\ o.buf >= o.ptime /\ o.buf % o.ptime = 0
          /\ workers' = [workers EXCEPT ![w] = [o EXCEPT !.buf = @ - o.ptime, !.cb = "send"]]
       \/ /\ o.buf >= o.ptime /\ o.buf % o.ptime # 0
          /\ \E cb \in {"idle", "dead"} : workers' = [workers EXCEPT ![w] = [o EXCEPT !.cb = cb]]
    /\ UNCHANGED <<ep, Attached, chan, refs, upd, shut, snd, ins, Counters>>

\* _mark_processed_bytes(): the chunks that have gone completely are counted,
\* and what has gone of the next one is taken off it.
MarkProcessed(o, nbytes) ==
    LET First(k) == SubSeq(o.pend, 1, k)
        n == Cardinality({k \in 1 .. Len(o.pend) : Bytes(First(k)) <= nbytes})
        rest == SubSeq(o.pend, n + 1, Len(o.pend)) IN
    [o EXCEPT !.pend = IF rest = <<>> THEN <<>>
                       ELSE [rest EXCEPT ![1].rem = @ - (nbytes - Bytes(First(n)))],
              !.prcsd = @ + Frames(First(n))]

\* send_pkt(): the channel is read under state_lock.  There is none once
\* shutdown() has taken it: the assertion fails, and the processor may or may
\* not call again.
send_pkt(w) ==
    /\ workers[w].cb = "send" /\ Unlocked
    /\ \/ /\ rserv # 0
          /\ workers' = [workers EXCEPT ![w] = [MarkProcessed(@, @.ptime) EXCEPT !.cb = "idle"]]
       \/ /\ rserv = 0
          /\ \E cb \in {"idle", "dead"} : workers' = [workers EXCEPT ![w].cb = cb]
    /\ UNCHANGED <<ep, Attached, chan, refs, upd, shut, snd, ins, Counters>>

-----------------------------------------------------------------------------
(* rtp_received().                                                         *)

\* RTPInStream.pkt_proc() of packet n: the jitter buffer gives it out, after
\* an account of the packets that were lost before it; frames go on in chunks
\* of OutChunk.
PktProc(n, frames) ==
    LET gap == IF ins.jb = -1 THEN 0 ELSE n - ins.jb
        last == IF gap > 0 THEN n - 1 ELSE ins.last
        have == ins.obuf + (gap + 1) * frames IN
    [ins EXCEPT !.seq = n + 1, !.jb = n + 1, !.last = n,
                !.asserted = @ /\ (last = -1 \/ n = last + 1),
                !.got = @ + (gap + 1) * frames,
                !.given = @ + (have \div OutChunk) * OutChunk,
                !.obuf = have % OutChunk]

\* A packet of the far end, or of somebody else, which is dropped when the
\* target is known; packets may be lost on the way.
rtp_received ==
    /\ Unlocked /\ rserv # 0 /\ ins.seq < MaxPackets
    /\ \E n \in ins.seq .. MaxPackets - 1, frames \in Packets : ins' = PktProc(n, frames)
    /\ UNCHANGED <<ep, Attached, chan, workers, refs, upd, shut, snd, Counters>>

Update ==
    UpdateEnd \/ UpdateJoin \/ UpdateTarget \/ SwapCheck \/ SwapBind \/ SwapAim \/ SwapPut
    \/ SwapClose \/ UpdateMake \/ UpdateKeep \/ UpdateDrop \/ stream_update

RtpNext ==
    \/ Make \/ MakeFails \/ Update
    \/ \E p \in RtpParams : UpdateBegin(p)
    \/ ShutTake \/ ShutEnd \/ ShutJoin \/ ShutClose
    \/ \E c \in Chunks : SoundCount(c)
    \/ SoundPut
    \/ \E w \in DOMAIN workers : ProcIn(w) \/ send_pkt(w) \/ ProcCloses(w)
    \/ rtp_received

RtpSpec == RtpInit /\ [][RtpNext]_rtpVars

\* Threads are scheduled, and the processor calls the workers it has.
RtpFairness ==
    /\ WF_rtpVars(Update) /\ WF_rtpVars(ShutEnd \/ ShutJoin \/ ShutClose) /\ WF_rtpVars(SoundPut)
    /\ \A w \in 1 .. MaxUpdates + 1 :
          WF_rtpVars(w \in DOMAIN workers /\ (ProcIn(w) \/ send_pkt(w)))

-----------------------------------------------------------------------------
(* Properties.                                                             *)

InHand(w) == IF snd # <<>> /\ snd[1] = w THEN snd[2].n ELSE 0

\* A frame that soundout() has counted is queued, pending or processed, once,
\* and the pending ones are those of the bytes that have not gone yet: the
\* two counters tell how much is still to be played (get_frm_ctrs()).
Accounted ==
    \A w \in DOMAIN workers :
        LET o == workers[w] IN
        /\ o.rcvd = o.prcsd + Frames(o.pend) + Frames(o.queue) + InHand(w)
        /\ o.cb # "dead" /\ ~o.ended /\ rserv # 0 =>
              Bytes(o.pend) = o.buf + (IF o.cb = "send" THEN o.ptime ELSE 0)

\* The buffer holds whole packets and never lets the assertion of _proc_in()
\* fail, as long as chunks come at the codec's rate.
WholePackets ==
    ~resampled => \A w \in DOMAIN workers : workers[w].buf % workers[w].ptime = 0

\* Two workers send at the same time only when there is no channel to send
\* through: the far end never hears two streams (update(), writer_setup()).
OneStream == Cardinality(Live) > 1 => rserv = 0

\* Nothing is released twice and nothing is kept: the references to the
\* server and the processor, which other end points use too, are those of the
\* end point and its workers (Singletons, shutdown() of an end point that is
\* being updated), but for the server after a shutdown() whose join() raised.
RefsExact ==
    /\ refs.server = OtherUsers + (IF server \/ kept \/ (shut # Idle /\ shut.server) THEN 1 ELSE 0)
    /\ refs.proc = Cardinality({w \in DOMAIN workers : workers[w].ref})

\* Once shutdown() and update() have ended no worker is left, and no channel
\* but those of the calls that raised: a new one whose set_target() did, the
\* one of a shutdown() whose join() did.
NothingLeft ==
    /\ kept \/ leaked # {} => failed
    /\ upd = Idle /\ shut = Idle /\ ~server =>
          /\ writer = 0 /\ rserv = 0 /\ Live = {}
          /\ \A c \in DOMAIN chan : chan[c].open => c \in leaked

\* Between two updates the end point has an open channel, and a worker it has
\* is running and has a target.  Until a call has raised what is running is
\* also what was asked for last: a worker exactly if there is a target, with
\* its packet time, and a channel of its protocol that sends to it.
Follows ==
    upd = Idle /\ server =>
        /\ chan[rserv].open
        /\ writer # 0 => workers[writer].open /\ ~workers[writer].ended /\ ep.target # NoTarget
        /\ ~failed =>
              /\ ep.target # NoTarget => writer # 0 /\ chan[rserv].target = ep.target
              /\ writer # 0 => workers[writer].ptime = ep.ptime
              /\ chan[rserv].proto = ep.proto

\* The assertion of pkt_proc() holds, also over lost packets and over
\* stream_update(), and no frame is lost between the jitter buffer and the
\* application.
StreamInOrder == ins.asserted /\ ins.got = ins.given + ins.obuf /\ ins.obuf < OutChunk

\* What soundout() was given is played to its end, unless the worker is ended
\* first or a chunk came at another rate.
Played ==
    \A w \in 1 .. MaxUpdates + 1 :
        LET Pending == w \in DOMAIN workers /\ workers[w].prcsd < workers[w].rcvd
            GivenUp == w \in DOMAIN workers /\ (workers[w].ended \/ workers[w].cb = "dead")
        IN Pending ~> (~Pending \/ GivenUp \/ resampled)

\* Sound and resources of an end point whose threads update it, play, receive and
\* shut it down at the same time.
EndpointSound ==
    Accounted /\ WholePackets /\ OneStream /\ RefsExact /\ NothingLeft /\ Follows /\ StreamInOrder
=============================================================================
