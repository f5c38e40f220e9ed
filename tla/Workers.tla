------------------------------ MODULE Workers ------------------------------
(***************************************************************************)
(* The queues that the program's main thread shares with worker threads:   *)
(*   "command"  External_command: helper processes for RADIUS requests;    *)
(*   "udp"      Udp_server: AsyncSender and AsyncReceiver threads;         *)
(*   "rtpp"     Rtp_proxy_client_stream: RTPPLWorker threads;              *)
(*   "log"      SipLogger: the AsyncLogger thread.                         *)
(* All of them take work items from a list under a condition variable      *)
(* (queue.Queue is the same thing) and end at a marker (None, or the       *)
(* log's 'shutdown'), which a pool's workers hand on to each other.  A     *)
(* behaviour is one such pool; kind says which.  Results go back to the    *)
(* main thread with ED2.callFromThread().                                  *)
(***************************************************************************)
EXTENDS Integers, Sequences, FiniteSets, SequencesExt

CONSTANTS
    Kinds,          \* the pools that are checked
    Pool,           \* the worker threads of each kind
    Receivers,      \* the AsyncReceiver threads
    MaxItems,       \* bound: work items handed in
    MaxQueue,       \* SipLogger keeps this many items (1000 in the code)
    MaxReopens,     \* bound: log reopen requests
    MaxRecurse,     \* _MAX_RECURSE
    MaxEmpty,       \* empty reads after which a receiver ends (100)
    MaxReads,       \* bound: datagrams received
    MaxDeaths       \* bound: helper processes that die

ASSUME BoundsAssumption ==
    /\ {MaxItems, MaxReopens, MaxRecurse, MaxReads, MaxDeaths} \subseteq Nat
    /\ {MaxQueue, MaxEmpty} \subseteq Nat \ {0}
    /\ \A k \in Kinds : IsFiniteSet(Pool[k])
    /\ "log" \in Kinds => Cardinality(Pool["log"]) = 1    \* one AsyncLogger

VARIABLES
    kind,           \* which pool this is
    main,           \* the main thread: "up", in shutdown(), or "down"
    queue,          \* work / sendqueue / wi
    pc,             \* where each worker thread is
    hand,           \* the item each worker has taken
    tries,          \* _recurse of send_raw()
    child,          \* the workers whose helper process lives
    cancelled,      \* the items that were cancelled
    ran,            \* the items given to a helper process
    posted,         \* what callFromThread() has queued for the main thread
    ended,          \* history: the items that are finished with, and how
    next,           \* the id of the next item
    reopens, reads, deaths,
    skt,            \* the UDP socket: "open", "shut" or "closed"
    rx              \* empty reads each receiver still allows, 0 when it ended

vars == <<kind, main, queue, pc, hand, tries, child, cancelled, ran, posted,
          ended, next, reopens, reads, deaths, skt, rx>>

Threads == Pool[kind]
Ids     == 1 .. MaxItems
Marker  == [op |-> "none", id |-> 0, cb |-> FALSE]
Reopen  == [op |-> "reopen", id |-> 0, cb |-> FALSE]
Item(i, cb) == [op |-> "work", id |-> i, cb |-> cb]
Nothing == Marker

States  == {"ready", "waiting", "taken", "writing", "reading", "relaying", "gone"}
In(s)   == {w \in Threads : pc[w] = s}
Gone(p) == \A w \in Threads : p[w] = "gone"

Init ==
    /\ kind \in Kinds
    /\ main = "up"
    /\ queue = <<>>
    /\ pc = [w \in Pool[kind] |-> "ready"]
    /\ hand = [w \in Pool[kind] |-> Nothing]
    /\ tries = [w \in Pool[kind] |-> 0]
    /\ child = Pool[kind]
    /\ cancelled = {} /\ ran = {}
    /\ posted = <<>> /\ ended = {}
    /\ next = 1
    /\ reopens = 0 /\ reads = 0 /\ deaths = 0
    /\ skt = "open"
    /\ rx = [r \in Receivers |-> IF kind = "udp" THEN MaxEmpty ELSE 0]

-----------------------------------------------------------------------------
(* The condition variable.                                                 *)

\* Condition.notify(): one of the waiting threads goes on, if there is one.
Notified(p) ==
    LET asleep == {w \in Threads : p[w] = "waiting"} IN
    IF asleep = {} THEN {p} ELSE {[p EXCEPT ![w] = "ready"] : w \in asleep}
\* Mistake: the notify() is left out.
PutSilently(q, p, item) == queue' = Append(q, item) /\ pc' = p

\* append() or put(): the item goes last and a waiting thread is notified.
PutOn(q, p, item) == queue' = Append(q, item) /\ pc' \in Notified(p)

\* while len(work) == 0: wait()
Wait(w) ==
    /\ pc[w] = "ready" /\ queue = <<>>
    /\ pc' = [pc EXCEPT ![w] = "waiting"]
    /\ UNCHANGED <<kind, main, queue, hand, tries, child, cancelled, ran,
                   posted, ended, next, reopens, reads, deaths, skt, rx>>

-----------------------------------------------------------------------------
(* The main thread.                                                        *)

\* What write_logfile() throws away before it appends: the oldest items
\* beyond MaxQueue.
Excess == IF kind = "log" /\ Len(queue) > MaxQueue THEN Len(queue) - MaxQueue
                                                   ELSE 0
Discarded == {<<queue[k].id, "discarded">> :
              k \in {n \in 1 .. Excess : queue[n].op = "work"}}

\* process_command(), send_to(), send_command(), write_logfile().  Only an
\* RTP proxy command may come without a callback; a log line never has one.
Submit ==
    /\ main = "up" /\ next <= MaxItems
    /\ \E cb \in CASE kind = "command" -> {TRUE}
                   [] kind = "rtpp"    -> BOOLEAN
                   [] OTHER            -> {FALSE} :
          PutOn(SubSeq(queue, Excess + 1, Len(queue)), pc, Item(next, cb))
    /\ ended' = ended \cup Discarded
    /\ next' = next + 1
    /\ UNCHANGED <<kind, main, hand, tries, child, cancelled, ran, posted,
                   reopens, reads, deaths, skt, rx>>

\* SipLogger.reopen(), on SIGUSR1.
reopen ==
    /\ kind = "log" /\ main = "up" /\ reopens < MaxReopens
    /\ PutOn(queue, pc, Reopen)
    /\ reopens' = reopens + 1
    /\ UNCHANGED <<kind, main, hand, tries, child, cancelled, ran, posted,
                   ended, next, reads, deaths, skt, rx>>

\* Work_item.cancel()
cancel(i) ==
    /\ kind = "command" /\ i < next /\ i \notin cancelled
    /\ cancelled' = cancelled \cup {i}
    /\ UNCHANGED <<kind, main, queue, pc, hand, tries, child, ran, posted,
                   ended, next, reopens, reads, deaths, skt, rx>>

\* Udp_server.shutdown() first shuts the socket; threads run on meanwhile.
ShutSocket ==
    /\ kind = "udp" /\ main = "up"
    /\ main' = "closing" /\ skt' = "shut"
    /\ UNCHANGED <<kind, queue, pc, hand, tries, child, cancelled, ran,
                   posted, ended, next, reopens, reads, deaths, rx>>

\* shutdown(): the marker goes last.  External_command returns at once and
\* takes further commands; the others wait for their threads.
Shutdown ==
    /\ main = (IF kind = "udp" THEN "closing" ELSE "up")
    /\ \A k \in DOMAIN queue : queue[k] # Marker
    /\ PutOn(queue, pc, Marker)
    /\ main' = IF kind = "command" THEN "up" ELSE "joining"
    /\ UNCHANGED <<kind, hand, tries, child, cancelled, ran, posted, ended,
                   next, reopens, reads, deaths, skt, rx>>

\* join() returns; Udp_server.join() then closes the socket.
Join ==
    /\ main = "joining" /\ Gone(pc) /\ \A r \in Receivers : rx[r] = 0
    /\ main' = "down"
    /\ skt' = IF kind = "udp" THEN "closed" ELSE skt
    /\ UNCHANGED <<kind, queue, pc, hand, tries, child, cancelled, ran,
                   posted, ended, next, reopens, reads, deaths, rx>>

\* The main loop runs what the threads have queued for it: process_result(),
\* dispatch() or handle_read(), which ignores data once shutdown() is over.
RunPosted ==
    /\ main \in {"up", "down"} /\ posted # <<>>
    /\ posted' = Tail(posted)
    /\ ended' = IF Head(posted) = 0 THEN ended
                ELSE ended \cup {<<Head(posted), "called">>}
    /\ UNCHANGED <<kind, main, queue, pc, hand, tries, child, cancelled, ran,
                   next, reopens, reads, deaths, skt, rx>>

-----------------------------------------------------------------------------
(* The worker threads.                                                     *)
\* Mistake: the first thread that sees the marker keeps it.
TakeMarker(w) ==
    /\ pc[w] = "ready" /\ queue # <<>>
    /\ queue' = Tail(queue)
    /\ IF Head(queue) = Marker
       THEN pc' = [pc EXCEPT ![w] = "gone"] /\ hand' = hand
       ELSE /\ pc' = [pc EXCEPT ![w] = "taken"]
            /\ hand' = [hand EXCEPT ![w] = Head(queue)]
    /\ UNCHANGED <<kind, main, tries, child, cancelled, ran, posted, ended,
                   next, reopens, reads, deaths, skt, rx>>

\* Taking an item.  External_command puts the marker back before it lets go
\* of the lock; a Queue's worker does so in a second step; the log's one
\* thread keeps it.
Take(w) ==
    /\ pc[w] = "ready" /\ queue # <<>>
    /\ IF Head(queue) # Marker
       THEN /\ pc' = [pc EXCEPT ![w] = "taken"]
            /\ hand' = [hand EXCEPT ![w] = Head(queue)]
            /\ queue' = Tail(queue)
       ELSE /\ hand' = hand
            /\ CASE kind = "command" ->
                      PutOn(Tail(queue), [pc EXCEPT ![w] = "gone"], Marker)
                 [] kind = "log" ->
                      /\ queue' = Tail(queue)
                      /\ pc' = [pc EXCEPT ![w] = "gone"]
                 [] OTHER ->
                      /\ queue' = Tail(queue)
                      /\ pc' = [pc EXCEPT ![w] = "relaying"]
    /\ UNCHANGED <<kind, main, tries, child, cancelled, ran, posted, ended,
                   next, reopens, reads, deaths, skt, rx>>

\* sendqueue.put(None), wi.put(None): relay the shutdown request.
Relay(w) ==
    /\ pc[w] = "relaying"
    /\ PutOn(queue, [pc EXCEPT ![w] = "gone"], Marker)
    /\ UNCHANGED <<kind, main, hand, tries, child, cancelled, ran, posted,
                   ended, next, reopens, reads, deaths, skt, rx>>

\* The worker is done with its item, goes to state s and, where the item is
\* answered, queues the callback for the main thread.
Finish(w, s, how) ==
    /\ pc' = [pc EXCEPT ![w] = s]
    /\ hand' = [hand EXCEPT ![w] = Nothing]
    /\ tries' = [tries EXCEPT ![w] = 0]
    /\ IF how = "answer" /\ hand[w].cb
       THEN posted' = Append(posted, hand[w].id) /\ ended' = ended
       ELSE /\ posted' = posted
            /\ ended' = IF hand[w].op = "work"
                        THEN ended \cup {<<hand[w].id, how>>} ELSE ended

\* _Worker.run() asks whether the item was cancelled: then it is dropped,
\* otherwise the thread goes on to write it, whoever cancels it from now on.
CheckCancelled(w) ==
    /\ kind = "command" /\ pc[w] = "taken"
    /\ \/ /\ hand[w].id \in cancelled
          /\ Finish(w, "ready", "cancelled")
       \/ /\ hand[w].id \notin cancelled
          /\ pc' = [pc EXCEPT ![w] = "writing"]
          /\ UNCHANGED <<hand, tries, posted, ended>>
    /\ UNCHANGED <<kind, main, queue, child, cancelled, ran, next, reopens, reads,
                   deaths, skt, rx>>

\* The item is written to the helper.  If the helper has died the write raises
\* and the thread ends.
Execute(w) ==
    /\ kind = "command" /\ pc[w] = "writing"
    /\ \/ /\ w \notin child
          /\ Finish(w, "gone", "lost")
          /\ UNCHANGED ran
       \/ /\ w \in child
          /\ pc' = [pc EXCEPT ![w] = "reading"]
          /\ ran' = ran \cup {hand[w].id}
          /\ UNCHANGED <<hand, tries, posted, ended>>
    /\ UNCHANGED <<kind, main, queue, child, cancelled, next, reopens, reads,
                   deaths, skt, rx>>

\* The helper's answer, which is empty when the helper died over it.
ReadResult(w) ==
    /\ kind = "command" /\ pc[w] = "reading"
    /\ Finish(w, "ready", "answer")
    /\ UNCHANGED <<kind, main, queue, child, cancelled, ran, next, reopens,
                   reads, deaths, skt, rx>>

\* A helper process dies.
ChildDies(w) ==
    /\ kind = "command" /\ w \in child /\ deaths < MaxDeaths
    /\ child' = child \ {w} /\ deaths' = deaths + 1
    /\ UNCHANGED <<kind, main, queue, pc, hand, tries, cancelled, ran, posted,
                   ended, next, reopens, reads, skt, rx>>

\* AsyncSender.run(): the datagram is sent, or dropped for a name that does
\* not resolve or after 20 tries; on a socket that was shut sendto() raises
\* BrokenPipeError and the thread ends without handing on the marker.
SendData(w) ==
    /\ kind = "udp" /\ pc[w] = "taken"
    /\ \/ skt = "open" /\ Finish(w, "ready", "sent")
       \/ Finish(w, "ready", "lost")
       \/ skt = "shut" /\ Finish(w, "gone", "lost")
    /\ UNCHANGED <<kind, main, queue, child, cancelled, ran, next, reopens,
                   reads, deaths, skt, rx>>

\* RTPPLWorker.send_raw(): an answer; another failure, which the callback is
\* told of; or a connection found closed, after which the command is sent
\* again over a new one, at most _MAX_RECURSE times.
SendRaw(w) ==
    /\ kind = "rtpp" /\ pc[w] = "taken"
    /\ \/ Finish(w, "ready", "answer")
       \/ /\ tries[w] < MaxRecurse
          /\ tries' = [tries EXCEPT ![w] = @ + 1]
          /\ UNCHANGED <<pc, hand, posted, ended>>
    /\ UNCHANGED <<kind, main, queue, child, cancelled, ran, next, reopens,
                   reads, deaths, skt, rx>>

\* AsyncLogger.run(): reopen the file, or write the line; on an error the
\* file is reopened and the line dropped.
WriteLog(w) ==
    /\ kind = "log" /\ pc[w] = "taken"
    /\ \E how \in {"written", "lost"} : Finish(w, "ready", how)
    /\ UNCHANGED <<kind, main, queue, child, cancelled, ran, next, reopens,
                   reads, deaths, skt, rx>>

-----------------------------------------------------------------------------
(* The receivers of Udp_server.                                            *)

\* A datagram, also one that was waiting when the socket was shut, goes to
\* the main thread (item 0) and starts the count of empty reads anew.
Receive(r) ==
    /\ rx[r] > 0 /\ reads < MaxReads
    /\ reads' = reads + 1
    /\ posted' = Append(posted, 0)
    /\ rx' = [rx EXCEPT ![r] = MaxEmpty]
    /\ UNCHANGED <<kind, main, queue, pc, hand, tries, child, cancelled, ran,
                   ended, next, reopens, deaths, skt>>

\* A socket that was shut gives empty reads; after MaxEmpty in a row the
\* thread ends.
EmptyRead(r) ==
    /\ rx[r] > 0 /\ skt = "shut"
    /\ rx' = [rx EXCEPT ![r] = @ - 1]
    /\ UNCHANGED <<kind, main, queue, pc, hand, tries, child, cancelled, ran,
                   posted, ended, next, reopens, reads, deaths, skt>>

\* Another error: the handler itself raises (self.my_pid is not set) and the
\* thread ends.
ReceiveError(r) ==
    /\ rx[r] > 0 /\ skt = "open"
    /\ rx' = [rx EXCEPT ![r] = 0]
    /\ UNCHANGED <<kind, main, queue, pc, hand, tries, child, cancelled, ran,
                   posted, ended, next, reopens, reads, deaths, skt>>

Work(w) == \/ Wait(w) \/ Take(w) \/ Relay(w) \/ CheckCancelled(w) \/ Execute(w)
           \/ ReadResult(w) \/ SendData(w) \/ WriteLog(w) \/ SendRaw(w)

Next ==
    \/ Submit \/ reopen \/ ShutSocket \/ Shutdown \/ Join \/ RunPosted
    \/ \E i \in Ids : cancel(i)
    \/ \E w \in Threads : Work(w) \/ ChildDies(w)
    \/ \E r \in Receivers : Receive(r) \/ EmptyRead(r) \/ ReceiveError(r)

\* Threads are scheduled fairly, a helper answers or dies, the main loop and
\* a shutdown() that has begun go on.
Fairness ==
    /\ \A w \in UNION {Pool[k] : k \in Kinds} : WF_vars(w \in Threads /\ Work(w))
    /\ \A r \in Receivers : WF_vars(EmptyRead(r))
    /\ WF_vars(Join) /\ WF_vars(RunPosted)
    /\ WF_vars(main = "closing" /\ Shutdown)

Spec == Init /\ [][Next]_vars
FairSpec == Spec /\ Fairness

-----------------------------------------------------------------------------
(* Properties.                                                             *)

\* Types, and the limits: a command is sent again at most _MAX_RECURSE times,
\* a log queue holds one item more than it keeps besides reopen requests and
\* the marker.
TypeOK ==
    /\ kind \in Kinds /\ main \in {"up", "closing", "joining", "down"}
    /\ pc \in [Threads -> States]
    /\ \A w \in Threads : tries[w] \in 0 .. MaxRecurse
    /\ child \subseteq Threads /\ cancelled \subseteq Ids /\ ran \subseteq Ids
    /\ next \in 1 .. MaxItems + 1 /\ skt \in {"open", "shut", "closed"}
    /\ rx \in [Receivers -> 0 .. MaxEmpty]
    /\ kind = "log" => Len(queue) <= MaxQueue + 2 + MaxReopens

Queued(i) == \E k \in DOMAIN queue : queue[k].id = i

\* No item is lost on the way or answered twice: from the moment the main
\* thread hands it in, it is in exactly one place - in the queue, in the
\* hands of one worker, in one callback on its way to the main thread, or
\* finished with in one way (work.pop(0), callFromThread(), process_result()).
OnePlace ==
    \A i \in 1 .. next - 1 :
        Cardinality({k \in DOMAIN queue : queue[k].id = i})
          + Cardinality({w \in Threads : hand[w].id = i})
          + Cardinality({k \in DOMAIN posted : posted[k] = i})
          + Cardinality({e \in ended : e[1] = i}) = 1

\* No wake-up is lost: while a thread sleeps in wait(), at least as many
\* threads are awake and about to take an item as there are items.  A relayed
\* marker counts as an item, and so does one put back by a thread that ends.
NoLostWakeup ==
    In("waiting") # {} => Len(queue) <= Cardinality(In("ready"))

\* The marker is never lost while somebody still waits for it: as long as a
\* shutdown() waits for a thread, the marker is in the queue or in the hands of
\* a thread that is about to put it back.
MarkerKept ==
    main = "joining" /\ ~Gone(pc) => Marker \in Range(queue) \/ In("relaying") # {}

\* No worker has come to is_cancelled() of the item yet.
Unseen(i) == Queued(i) \/ \E w \in Threads : pc[w] = "taken" /\ hand[w].id = i

\* A command that was cancelled before the worker that takes it has asked is
\* never given to a helper process, neither by that worker nor, after deaths of
\* helpers and a shutdown, by another (wi.is_cancelled()).  One cancelled later
\* may still be run and its caller called back: process_result() does not ask.
CancelledNotStarted ==
    \A i \in Ids : [](i \in cancelled /\ Unseen(i) => [](i \notin ran))

Stopping == main \in {"closing", "joining"} \/ Marker \in Range(queue)

\* shutdown() comes to an end: every thread of the pool sees the one marker or
\* has ended by itself, whatever is still queued and whichever helpers have
\* died, and join() returns.
Stops == Stopping ~> (Gone(pc) /\ main \in {"up", "down"})

\* Every item is finished with in the end - answered, cancelled, sent, written
\* or dropped - unless all threads have ended and left it in the queue.
Settled ==
    \A i \in Ids :
        (i < next) ~> \/ \E e \in ended : e[1] = i
                      \/ Gone(pc) /\ Queued(i)

\* Threads and queue (and the types): no item is in two places or in none, and no
\* thread sleeps over one or waits for a marker that is gone.
PoolSound == TypeOK /\ OnePlace /\ NoLostWakeup /\ MarkerKept

\* Work and shutdown come to an end, and what was cancelled in time never starts.
PoolSettles == CancelledNotStarted /\ Stops /\ Settled
=============================================================================
