------------------------------ MODULE CallMap -------------------------------
(***************************************************************************)
(* The call map of the B2BUA and its main loop: requests outside a dialog, *)
(* the signals that disconnect all calls, restart and stop the program,    *)
(* the garbage collector's timer and the timer of the stop, on top of the  *)
(* event dispatcher.  A call is its state in the call controller; what     *)
(* goes on inside it is in CallController.                                 *)
(***************************************************************************)
EXTENDS EventDispatcher, SequencesExt

CONSTANTS
    Calls,       \* calls that may come, each once
    UaTimers,    \* timers of the calls
    GcIval,      \* ticks of the garbage collector, 60 s
    StopTries,   \* executeStop() gives up on calls at this try, 5
    DigestOnly,  \* auth_enable, digest_auth and digest_auth_only
    HasProxy     \* there is a stateful proxy for registrations

VARIABLES
    cmap,     \* ccmap, the flags and er_timer of CallMap, and how the program ended
    call,     \* the state of each call controller
    ui,       \* a thread of the web interface in callFromThreadSync()
    scene     \* a bound: there are calls, or there are timers of calls

mapVars == <<timer, loop, inbox, cmap, call, ui, scene>>

ErTimers == {"er1", "er2"}

ASSUME CallMapAssumption ==
    /\ Timers = {"gc"} \cup ErTimers \cup UaTimers /\ IsFiniteSet(UaTimers)
    /\ UaTimers \cap ({"gc"} \cup ErTimers) = {}
    /\ GcIval \in Nat \ {0} /\ StopTries \in Nat \ {0}

State == [timer |-> timer, loop |-> loop, inbox |-> inbox, cmap |-> cmap, call |-> call, ui |-> ui]

Become(r) == \E s \in {r} :
    /\ timer' = s.timer /\ loop' = s.loop /\ inbox' = s.inbox
    /\ cmap' = s.cmap /\ call' = s.call /\ ui' = s.ui /\ UNCHANGED scene

InMap(s, c) == \E i \in DOMAIN s.cmap.ccmap : s.cmap.ccmap[i] = c

\* A leg that cannot be disconnected leaves its call as connected as it was.
getActiveCalls(s) == {c \in Calls : InMap(s, c) /\ s.call[c] \in {"ARComplete", "Connected", "Stuck"}}

\* CallController.disconnect(): the caller's leg is over, and the call with it if
\* there is no other leg.  It stays in the map until a timer of its legs has made
\* them dead (Progress).
Disconnected(st) ==
    CASE st = "WaitRoute" -> "Dead"
      [] st \in {"ARComplete", "Connected"} -> "Disconnecting"
      [] OTHER -> st

Disconnect(s, c) == [s EXCEPT !.call[c] = Disconnected(@)]

AllDisconnected(cl, S) == [c \in Calls |-> IF c \in S THEN Disconnected(cl[c]) ELSE cl[c]]

discAllActive(s) ==
    [s EXCEPT !.call = AllDisconnected(@, getActiveCalls(s)), !.cmap.raised = FALSE]

\* discAll(), over a copy of the map, up to the call that raises: a leg whose
\* re-INVITE is finished already (UasStateUpdating, "Stuck") does.
discAll(s) ==
    LET cc      == s.cmap.ccmap
        stuck   == {i \in DOMAIN cc : s.call[cc[i]] = "Stuck"}
        reached == {cc[i] : i \in {i \in DOMAIN cc : \A j \in stuck : i < j}}
    IN  [s EXCEPT !.call = AllDisconnected(@, reached), !.cmap.raised = (stuck # {})]

safeStop(s) ==
    LET t == discAll(s)
        e == IF s.timer["er1"].in THEN "er2" ELSE "er1"
    IN  IF t.cmap.raised THEN t
        ELSE Timeout([t EXCEPT !.cmap.safe_stop = TRUE, !.cmap.tries = 0, !.cmap.er_timer = e],
                     e, 1, -1)

executeStopPatient(s) ==
    IF ~s.cmap.safe_stop \/ \E c \in Calls : InMap(s, c) THEN s
    ELSE breakLoop(cancel([s EXCEPT !.cmap.er_timer = "none"], s.cmap.er_timer))

\* A second executeStop() would find no er_timer to cancel.
executeStop(s) ==
    IF ~s.cmap.safe_stop THEN s
    ELSE LET t == [s EXCEPT !.cmap.tries = @ + 1] IN
         IF getActiveCalls(s) # {} /\ t.cmap.tries < StopTries THEN t
         ELSE IF t.cmap.er_timer = "none" THEN [t EXCEPT !.cmap.error = TRUE]
         ELSE breakLoop(cancel([t EXCEPT !.cmap.er_timer = "none"], t.cmap.er_timer))

\* The timer of GClector() was put back with the old interval before it runs.
GClector(s) ==
    IF ~s.cmap.safe_restart THEN s
    ELSE IF getActiveCalls(s) = {} THEN [s EXCEPT !.loop.pc = "execv"]
    ELSE [s EXCEPT !.timer["gc"].ival = 1]

-----------------------------------------------------------------------------
(* Requests outside a dialog.                                              *)

Requests ==
    [tag : BOOLEAN, method : {"INVITE", "REGISTER", "NOTIFY", "OTHER"},
     source : {"accepted", "refused"}, auth : BOOLEAN]

\* CallMap.recvRequest(), up to the new call.
recvRequest(s, r) ==
    IF r.tag THEN "481"
    ELSE CASE r.method = "INVITE" ->
                IF s.cmap.safe_restart \/ s.cmap.safe_stop THEN "503"
                ELSE IF r.source = "refused" THEN "403"
                ELSE IF DigestOnly /\ ~r.auth THEN "401" ELSE "call"
           [] r.method = "REGISTER" -> IF HasProxy THEN "proxy" ELSE "501"
           [] r.method = "NOTIFY" -> "200"
           [] OTHER -> "501"

\* A new call: its whole setup runs before it is put into the map, and one that
\* raises (a body that is refused) never is.
NewCall(s, c) ==
    {[s EXCEPT !.call[c] = "WaitRoute", !.cmap.ccmap = Append(@, c)],
     [s EXCEPT !.call[c] = "ARComplete", !.cmap.ccmap = Append(@, c)],
     [s EXCEPT !.call[c] = "Stray"]}

\* The other events of a call.
Progress(s, c) ==
    CASE s.call[c] = "WaitRoute" -> {[s EXCEPT !.call[c] = "ARComplete"], Disconnect(s, c)}
      [] s.call[c] = "ARComplete" -> {[s EXCEPT !.call[c] = "Connected"], Disconnect(s, c)}
      [] s.call[c] = "Connected" -> {[s EXCEPT !.call[c] = "Stuck"], Disconnect(s, c)}
      [] s.call[c] \in {"Disconnecting", "Stuck", "Dead"} ->
            {[s EXCEPT !.call[c] = "Gone", !.cmap.ccmap = RemoveFirst(@, c)]}
      [] OTHER -> {}

\* What a callback of a call does to the timers: start one, cancel one (the one
\* that is running, too), or raise.  No callback of a timer starts one that is due
\* at once: dispatchTimers() would not come to an end.
TimerWork(s) ==
    {s} \cup {cancel(s, t) : t \in UaTimers}
        \cup {Timeout(s, t, d, n) : t \in {t \in UaTimers : ~s.timer[t].in /\ ~s.timer[t].reg},
                                    d \in IF loop.pc = "sleep" THEN {0, 1} ELSE {1}, n \in {1, 2}}

-----------------------------------------------------------------------------
MapInit ==
    /\ timer = [t \in Timers |-> IF t = "gc" THEN Scheduled(GcIval, -1) ELSE NoTimer]
    /\ loop = [pc |-> "timers", twasted |-> 0, endloop |-> FALSE, exception |-> FALSE, lag |-> 0]
    /\ inbox = <<>> /\ call = [c \in Calls |-> "new"] /\ ui = "idle"
    /\ cmap = [ccmap |-> <<>>, safe_stop |-> FALSE, safe_restart |-> FALSE, tries |-> 0,
               er_timer |-> "none", raised |-> FALSE, error |-> FALSE]
    /\ scene \in {"calls", "timers"}

Signals == {"HUP", "TERM", "PROF"}

\* Signal.signal_handler(), and the network threads, hand a call over.  Two SIGTERMs
\* are enough for two timers of executeStop().
callFromThread(x) ==
    /\ loop.pc \in {"timers", "sleep"} /\ inbox = <<>>
    /\ scene = "timers" => x \in {"packet", "exit"}
    /\ x = "packet" => scene = "timers" \/ \E c \in Calls : Progress(State, c) # {}
    /\ x = "TERM" => \E e \in ErTimers : ~timer[e].in
    /\ Become([State EXCEPT !.inbox = Append(@, x)])

\* The web interface does so and waits for the result.
callFromThreadSync ==
    /\ ui = "idle" /\ inbox = <<>> /\ loop.pc \in {"timers", "sleep"}
    /\ Become([State EXCEPT !.inbox = Append(@, "sync"), !.ui = "waits"])

RunSignal(s, x) ==
    CASE x = "HUP"  -> discAll(s)
      [] x = "TERM" -> safeStop(s)
      [] x = "PROF" -> [s EXCEPT !.cmap.safe_restart = TRUE]

\* dispatchThreadCallbackSync(): the thread gets the result, or the exception.
RunSync(s) == {[s EXCEPT !.ui = "idle"]}

\* procrastinate() runs the calls of other threads.
dispatchThreadCallback ==
    /\ loop.pc = "sleep" /\ inbox # <<>>
    /\ LET x == Head(inbox)
           s == [State EXCEPT !.inbox = Tail(@)]
       IN  \/ x \in Signals /\ Become(RunSignal(s, x))
           \/ x = "sync" /\ \E t \in RunSync(s) : Become(t)
           \/ x = "exit" /\ Become([s EXCEPT !.loop.exception = TRUE])
           \/ x = "packet" /\ \E c \in Calls : \E t \in Progress(s, c) : Become(t)
           \/ x = "packet" /\ scene = "timers" /\ \E t \in TimerWork(s) : Become(t)
           \/ /\ x = "request"
              /\ \E r \in Requests :
                    IF recvRequest(s, r) = "call"
                    THEN /\ scene = "calls"
                         /\ \E c \in {c \in Calls : s.call[c] = "new"} :
                               \E t \in NewCall(s, c) : Become(t)
                    ELSE Become(s)

\* One turn of dispatchTimers(): a cancelled timer is skipped, a live one that is
\* due runs its callback.
dispatchTimer(t) ==
    /\ loop.pc = "timers" /\ ~NoneDue(State) /\ Top(State, t)
    /\ IF ~timer[t].live THEN Become(Skip(State, t))
       ELSE LET s == Before(State, t)
                done == ~Periodic(State, t)
            IN  \/ t = "gc" /\ Become(After(GClector(s), t, done))
                \/ t \in ErTimers /\ Become(After(executeStop(s), t, done))
                \/ /\ t \in UaTimers
                   /\ \E u \in TimerWork(s) : Become(After(u, t, done))

LoopTurn ==
    \/ loop.pc = "timers" /\ NoneDue(State) /\ Become(ToSleep(State))
    \/ loop.pc = "sleep" /\ inbox = <<>> /\ Become(Wake(State))

\* Time passes while the loop sleeps; procrastinate() returns so often that no timer
\* is late by more than a tick.
Tick ==
    /\ loop.pc = "sleep" /\ loop.lag = 0 /\ \A t \in Heap(State) : timer[t].left > 0
    /\ Become([State EXCEPT !.loop.lag = 1])

MapNext ==
    \/ \E x \in Signals \cup {"packet", "request", "exit"} : callFromThread(x)
    \/ callFromThreadSync
    \/ dispatchThreadCallback
    \/ \E t \in Timers : dispatchTimer(t)
    \/ LoopTurn \/ Tick

MapSpec == MapInit /\ [][MapNext]_mapVars

\* The loop goes on, and time passes.  procrastinate() returns after it has run the
\* calls it found, even if others come all the time: hence the strong fairness.
MapFairSpec ==
    /\ MapSpec
    /\ WF_mapVars(dispatchThreadCallback) /\ SF_mapVars(LoopTurn) /\ SF_mapVars(Tick)
    /\ \A t \in Timers : WF_mapVars(dispatchTimer(t))

-----------------------------------------------------------------------------
MapTypeOK ==
    /\ \A t \in Timers : timer[t].left \in -1..GcIval /\ timer[t].nticks \in {-1, 1, 2}
    /\ loop.pc \in {"timers", "sleep", "ended", "execv"} /\ loop.twasted \in Nat
    /\ call \in [Calls -> {"new", "Stray", "WaitRoute", "ARComplete", "Connected", "Stuck",
                           "Disconnecting", "Dead", "Gone"}]
    /\ cmap.tries \in 0..StopTries /\ cmap.er_timer \in ErTimers \cup {"none"}
    /\ ui \in {"idle", "waits"}

\* The map holds every call that is going on, once, and no other; only a call whose
\* setup raised is in nobody's books.
MapIsExact ==
    \A c \in Calls :
        Cardinality({i \in DOMAIN cmap.ccmap : cmap.ccmap[i] = c}) =
            (IF call[c] \in {"new", "Stray", "Gone"} THEN 0 ELSE 1)

\* safeStop() reaches every call: once the program is stopping no call is waiting
\* for its route or goes on, except one that could not be disconnected.
StopReachesAll ==
    cmap.safe_stop => \A c \in Calls : call[c] \notin {"WaitRoute", "ARComplete", "Connected"}

\* However many SIGTERMs come, executeStop() runs with a timer to cancel.
StopTimerKnown == ~cmap.error

\* A restart cuts off no call that is set up or connected.
RestartSpares ==
    loop.pc = "execv" => \A c \in Calls : InMap(State, c) => call[c] \notin {"ARComplete", "Connected", "Stuck"}

\* SIGTERM ends the program, whatever the calls do.
Stops == cmap.safe_stop ~> loop.pc \in {"ended", "execv"}

\* A thread that waits in callFromThreadSync() gets its result while the loop runs.
SyncAnswered == ui = "waits" ~> (ui = "idle" \/ loop.pc \in {"ended", "execv"})

\* The map, the stop and the restart agree on which calls there are (and the
\* types): none is missed, cut off or counted twice.
CallsKnown == MapTypeOK /\ MapIsExact /\ StopReachesAll /\ StopTimerKnown /\ RestartSpares

\* The loop goes on serving: it stops when told to, answers threads, and never
\* sleeps over a heap of dead timers.
LoopServes == SleepsHalfLive /\ Stops /\ SyncAnswered
=============================================================================
