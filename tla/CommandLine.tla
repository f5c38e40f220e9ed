---------------------------- MODULE CommandLine ----------------------------
(***************************************************************************)
(* The command socket of the B2BUA (CLIManager, B2BSimpleAPI): a listening *)
(* socket with its acceptor thread, and one client connection with a       *)
(* reader thread, a writer thread and the main thread between them.  The   *)
(* threads reach the main thread through ED2.callFromThread() only; the    *)
(* main thread reaches the writer through a buffer under a condition       *)
(* variable.  A command is its number, and the reply to it carries that    *)
(* number.                                                                 *)
(***************************************************************************)
EXTENDS Integers, Sequences, SequencesExt

CONSTANTS
    MaxCmds,        \* bound: commands the client sends
    Commands        \* the commands of recvCommand()

ASSUME CommandsAssumption ==
    /\ MaxCmds \in Nat
    /\ Commands \subseteq {"q", "l", "lt", "d", "d*", "r", "unknown"}

VARIABLES
    acceptor,       \* _Acceptor: "poll", "accept" or "gone"
    clis,           \* the connection manager: "up", "joining" or "down"
    peer,           \* the client: "none", "open", "eof" or "reset"
    sock,           \* the connection: "none", "open" or "closed"
    served,         \* CLIManager.command_cb is set
    closedBy,       \* history: whose request closed the connection
    rthr,           \* _CLIManager_r: "none", "recv" or "gone"
    wthr,           \* _CLIManager_w: "none", "ready", "waiting", "send", "gone"
    wbuffer,        \* the replies still to send; Closed stands for None
    wclose,         \* close_pendind
    sending,           \* the bytes the writer is sending
    out,            \* history: the replies send() has accepted
    due,            \* history: how many of them close() found
    wire,           \* the replies that have reached the client
    calls,          \* callFromThread()
    cmds,           \* commands the client has sent
    call            \* a call of the call map that commands may name

cliVars == <<acceptor, clis, peer, sock, served, closedBy, rthr, wthr, wbuffer,
          wclose, sending, out, due, wire, calls, cmds, call>>
Listening == <<acceptor, clis>>
Writer    == <<wthr, wbuffer, wclose, sending>>
History   == <<out, due, closedBy>>

Closed == <<0>>
Post(f, n) == Append(calls, [do |-> f, n |-> n])
CallStates == {"ARComplete", "Connected", "Disconnecting", "none"}

CliInit ==
    /\ acceptor = "poll" /\ clis = "up"
    /\ peer = "none" /\ sock = "none" /\ served = TRUE /\ closedBy = "none"
    /\ rthr = "none" /\ wthr = "none"
    /\ wbuffer = <<>> /\ wclose = FALSE /\ sending = <<>>
    /\ out = <<>> /\ due = 0 /\ wire = <<>>
    /\ calls = <<>> /\ cmds = 0
    /\ call \in {"ARComplete", "Connected", "none"}

-----------------------------------------------------------------------------
(* The listening socket.                                                   *)

\* A client connects: the acceptor's poll() returns.
Connect ==
    /\ peer = "none" /\ clis = "up" /\ acceptor = "poll"
    /\ peer' = "open" /\ acceptor' = "accept"
    /\ UNCHANGED <<clis, sock, served, rthr, Writer, History, wire, calls,
                   cmds, call>>

\* accept() and callFromThread(handle_accept), or an error such as
\* ECONNABORTED that sends the thread back to poll(), or EBADF, which ends it.
Accept ==
    /\ acceptor = "accept"
    /\ \/ acceptor' = "poll" /\ calls' = Post("accept", 0)
       \/ peer = "reset" /\ acceptor' = "poll" /\ UNCHANGED calls
       \/ clis = "joining" /\ acceptor' = "gone" /\ UNCHANGED calls
    /\ UNCHANGED <<clis, peer, sock, served, rthr, Writer, History, wire, cmds,
                   call>>

\* CLIConnectionManager.shutdown(): wake the acceptor, close the socket,
\* forget command_cb and wait for the thread.
ShutdownListener ==
    /\ clis = "up"
    /\ clis' = "joining" /\ served' = (served /\ sock # "none")
    /\ UNCHANGED <<acceptor, peer, sock, rthr, Writer, History, wire, calls,
                   cmds, call>>

\* The acceptor sees the wake-up byte.
Wakeup ==
    /\ acceptor = "poll" /\ clis = "joining"
    /\ acceptor' = "gone"
    /\ UNCHANGED <<clis, peer, sock, served, rthr, Writer, History, wire,
                   calls, cmds, call>>

JoinAcceptor ==
    /\ clis = "joining" /\ acceptor = "gone"
    /\ clis' = "down"
    /\ UNCHANGED <<acceptor, peer, sock, served, rthr, Writer, History, wire,
                   calls, cmds, call>>

-----------------------------------------------------------------------------
(* The main thread.                                                        *)

\* notify() of the writer's condition variable.
Awoken(w) == IF w = "waiting" THEN "ready" ELSE w

\* CLIManager.send(n) and then, if cl, close(): both do nothing once
\* shutdown() has run; the writer takes no data after its last buffer.
SendAndClose(n, cl) ==
    LET open == sock = "open"
        takes == open /\ n # 0 /\ wbuffer # Closed IN
    /\ wbuffer' = IF takes THEN Append(wbuffer, n) ELSE wbuffer
    /\ out' = IF takes THEN Append(out, n) ELSE out
    /\ wclose' = (wclose \/ (open /\ cl))
    /\ due' = IF open /\ cl /\ ~wclose THEN Len(out') ELSE due
    /\ wthr' = IF open /\ (n # 0 \/ cl) THEN Awoken(wthr) ELSE wthr
    /\ UNCHANGED sending

\* CLIManager(): the two threads start.  Once the listener was shut down the
\* connection has no command_cb.
handle_accept ==
    /\ sock' = "open" /\ rthr' = "recv" /\ wthr' = "ready"
    /\ UNCHANGED <<served, wbuffer, wclose, sending, History, call>>

\* CLIManager.handle_cmd() and B2BSimpleAPI.recvCommand() for command n.  A
\* command that raises (there is no command_cb; 'lt' uses iteritems(); 'd *'
\* calls a method that is not there; a number that does not parse) closes the
\* connection; 'q' closes it; every other one is answered.  'd' disconnects
\* the call, 'r' (media timeout) the call or its outgoing leg.
handle_cmd(n) ==
    /\ \E c \in Commands :
          \/ /\ ~served \/ c \in {"q", "lt", "d*", "r"}
             /\ SendAndClose(0, TRUE)
             /\ UNCHANGED call
          \/ /\ served /\ c \notin {"q", "lt", "d*"}
             /\ SendAndClose(n, FALSE)
             /\ call' = IF (c = "d" /\ call # "none") \/ (c = "r" /\ call = "Connected")
                        THEN "Disconnecting" ELSE call
    /\ UNCHANGED <<sock, served, rthr, closedBy>>

\* CLIManager.shutdown(): the writer's buffer is thrown away and the socket is
\* closed; a second call returns at once.
shutdown(by) ==
    /\ IF sock = "open"
       THEN /\ sock' = "closed" /\ closedBy' = by
            /\ wbuffer' = Closed /\ wthr' = Awoken(wthr)
       ELSE UNCHANGED <<sock, closedBy, wbuffer, wthr>>
    /\ UNCHANGED <<served, rthr, wclose, sending, out, due, call>>

\* The main loop runs what the threads have queued, unless it waits for the
\* acceptor.
RunMain ==
    /\ clis # "joining" /\ calls # <<>>
    /\ calls' = Tail(calls)
    /\ LET p == Head(calls) IN
       \/ p.do = "accept" /\ handle_accept
       \/ p.do \in {"reader", "writer"} /\ shutdown(p.do)
       \/ p.do = "cmd" /\ handle_cmd(p.n)
    /\ UNCHANGED <<Listening, peer, wire, cmds>>

-----------------------------------------------------------------------------
(* The writer thread.                                                      *)

WriterWait ==
    /\ wthr = "ready" /\ wbuffer = <<>> /\ ~wclose
    /\ wthr' = "waiting"
    /\ UNCHANGED <<Listening, peer, sock, served, rthr, wbuffer, wclose, sending,
                   History, wire, calls, cmds, call>>

\* Mistake: the thread asks for the connection to be closed when it takes the
\* last buffer, before it has sent it.
WriterTakeAsksFirst ==
    /\ wthr = "ready" /\ wbuffer # Closed /\ (wbuffer # <<>> \/ wclose)
    /\ wthr' = "send" /\ sending' = wbuffer
    /\ wbuffer' = IF wclose THEN Closed ELSE <<>>
    /\ calls' = IF wclose THEN Post("writer", 0) ELSE calls
    /\ UNCHANGED <<Listening, peer, sock, served, rthr, wclose, History, wire,
                   cmds, call>>

\* The buffer is taken; with a close pending it was the last one.
WriterTake ==
    /\ wthr = "ready" /\ wbuffer # Closed /\ (wbuffer # <<>> \/ wclose)
    /\ wthr' = "send" /\ sending' = wbuffer
    /\ wbuffer' = IF wclose THEN Closed ELSE <<>>
    /\ UNCHANGED <<Listening, peer, sock, served, rthr, wclose, History, wire,
                   calls, cmds, call>>

\* send() takes some of the bytes, and the rest is sent next.
WriterSend ==
    /\ wthr = "send" /\ sock = "open" /\ peer # "reset"
    /\ \E k \in (IF sending = <<>> THEN {0} ELSE 1 .. Len(sending)) :
          /\ wire' = wire \o SubSeq(sending, 1, k)
          /\ sending' = SubSeq(sending, k + 1, Len(sending))
          /\ wthr' = IF k = Len(sending) THEN "ready" ELSE "send"
    /\ UNCHANGED <<Listening, peer, sock, served, rthr, wbuffer, wclose,
                   History, calls, cmds, call>>

\* send() fails, on a connection that was reset or a socket that the main
\* thread has closed: the thread ends and tells nobody.
WriterFails ==
    /\ wthr = "send" /\ (sock = "closed" \/ peer = "reset")
    /\ wthr' = "gone" /\ sending' = <<>>
    /\ UNCHANGED <<Listening, peer, sock, served, rthr, wbuffer, wclose,
                   History, wire, calls, cmds, call>>

\* No buffer is left: the thread ends, and asks for the connection to be
\* closed if close() was called.
WriterEnds ==
    /\ wthr = "ready" /\ wbuffer = Closed
    /\ wthr' = "gone"
    /\ calls' = IF wclose THEN Post("writer", 0) ELSE calls
    /\ UNCHANGED <<Listening, peer, sock, served, rthr, wbuffer, wclose, sending,
                   History, wire, cmds, call>>

-----------------------------------------------------------------------------
(* The reader thread and the client.                                       *)

\* A line arrives, or something that is not ASCII, which ends the thread.
ReadCommand ==
    /\ rthr = "recv" /\ sock = "open" /\ peer = "open" /\ cmds < MaxCmds
    /\ cmds' = cmds + 1
    /\ \/ calls' = Post("cmd", cmds') /\ UNCHANGED rthr
       \/ calls' = Post("reader", 0) /\ rthr' = "gone"
    /\ UNCHANGED <<Listening, peer, sock, served, Writer, History, wire, call>>

\* Mistake: end of file ends the thread only.
ReadEofQuietly ==
    /\ rthr = "recv" /\ (peer = "eof" \/ sock = "closed")
    /\ rthr' = "gone"
    /\ UNCHANGED <<Listening, peer, sock, served, Writer, History, wire,
                   calls, cmds, call>>

\* recv() returns nothing: the client has finished, or the main thread has
\* shut the socket (then recv() may also fail with EBADF).
ReadEof ==
    /\ rthr = "recv" /\ (peer = "eof" \/ sock = "closed")
    /\ rthr' = "gone"
    /\ \/ calls' = Post("reader", 0)
       \/ sock = "closed" /\ UNCHANGED calls
    /\ UNCHANGED <<Listening, peer, sock, served, Writer, History, wire, cmds,
                   call>>

\* recv() raises ECONNRESET: the thread ends and tells nobody.
ReadReset ==
    /\ rthr = "recv" /\ sock = "open" /\ peer = "reset"
    /\ rthr' = "gone"
    /\ UNCHANGED <<Listening, peer, sock, served, Writer, History, wire,
                   calls, cmds, call>>

\* The client closes its side, or the connection is reset.
PeerEnds ==
    /\ \/ peer = "open" /\ peer' = "eof"
       \/ peer \in {"open", "eof"} /\ peer' = "reset"
    /\ UNCHANGED <<Listening, sock, served, rthr, Writer, History, wire,
                   calls, cmds, call>>

Acceptor == Accept \/ Wakeup
Write    == WriterWait \/ WriterTake \/ WriterSend \/ WriterFails \/ WriterEnds
Read     == ReadEof \/ ReadReset

CliNext ==
    \/ Connect \/ Acceptor \/ ShutdownListener \/ JoinAcceptor
    \/ RunMain \/ Write \/ ReadCommand \/ Read \/ PeerEnds

\* Threads and the main loop are scheduled; a client that is there reads what
\* is sent to it.
CliFairness ==
    /\ WF_cliVars(Acceptor) /\ WF_cliVars(JoinAcceptor) /\ WF_cliVars(RunMain)
    /\ WF_cliVars(Write) /\ WF_cliVars(Read)

CliSpec == CliInit /\ [][CliNext]_cliVars

-----------------------------------------------------------------------------
(* Properties.                                                             *)

CliTypeOK ==
    /\ acceptor \in {"poll", "accept", "gone"}
    /\ clis \in {"up", "joining", "down"}
    /\ peer \in {"none", "open", "eof", "reset"}
    /\ sock \in {"none", "open", "closed"}
    /\ rthr \in {"none", "recv", "gone"}
    /\ wthr \in {"none", "ready", "waiting", "send", "gone"}
    /\ wbuffer \in Seq(0 .. MaxCmds) /\ sending \in Seq(1 .. MaxCmds)
    /\ wclose \in BOOLEAN /\ served \in BOOLEAN
    /\ cmds \in 0 .. MaxCmds /\ call \in CallStates
    /\ Len(calls) <= MaxCmds + 3

\* No reply that send() has taken is lost, doubled or overtaken, however the
\* socket splits it and wherever the buffer changes hands: the client has a
\* prefix of the replies, in the order of its commands, and while the writer
\* lives the rest is in its hands and its buffer (_CLIManager_w.run()).
RepliesInOrder ==
    /\ IsPrefix(wire, out)
    /\ \A i, j \in DOMAIN out : i < j => out[i] < out[j]
    /\ sock = "open" /\ wthr # "gone" =>
          out = wire \o sending \o (IF wbuffer = Closed THEN <<>> ELSE wbuffer)

\* close() is soft: when the connection is closed because of it, every reply
\* given to send() before close() has been sent.
Flushed == closedBy = "writer" => Len(wire) >= due

\* The writer never sleeps while there is something for it to do: data, a
\* pending close, or the end of the connection.
WriterAwake == wthr = "waiting" => wbuffer = <<>> /\ ~wclose

\* A connection whose client has finished, or that close() was called for, is
\* closed and both of its threads end, unless it was reset (then the socket
\* stays open: neither thread reports ECONNRESET).
Released ==
    (sock = "open" /\ (peer = "eof" \/ wclose)) ~>
        \/ sock = "closed" /\ wthr = "gone" /\ rthr = "gone"
        \/ peer = "reset"

\* Shutting the listener down ends, also when a client connects meanwhile.
ListenerStops == (clis = "joining") ~> (clis = "down")

\* The client reads the replies in order, and all of them before a soft close; the
\* writer does not sleep over one (and the types).
CliSound == CliTypeOK /\ RepliesInOrder /\ Flushed /\ WriterAwake

\* Connections and the listener come to an end with their threads.
CliSettles == Released /\ ListenerStops
=============================================================================
