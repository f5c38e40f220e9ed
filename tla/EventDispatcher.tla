-------------------------- MODULE EventDispatcher ---------------------------
(***************************************************************************)
(* EventDispatcher2: the one loop that runs every timer and every call     *)
(* another thread or a signal handler has handed over.  What the callbacks *)
(* do is left to the modules that extend this one: here are the operations *)
(* they call and the steps the loop takes between two callbacks.           *)
(*                                                                         *)
(* Times are relative to last_ts, the time the loop goes by.               *)
(***************************************************************************)
EXTENDS Integers, Sequences, FiniteSets

CONSTANT Timers     \* EventListener objects

VARIABLES
    timer,    \* the timers and whether they are in the heap tlisteners
    loop,     \* pc of loop(), twasted, endloop, and the time since last_ts
    inbox     \* calls handed over with callFromThread(), oldest first

edVars == <<timer, loop, inbox>>

\* left: etime less last_ts.  live: cb_func is not None.  reg: ed is not None.
NoTimer == [in |-> FALSE, live |-> FALSE, reg |-> FALSE, left |-> 0, nticks |-> 1, ival |-> 1]

Heap(s) == {t \in Timers : s.timer[t].in}
Dead(s) == {t \in Heap(s) : ~s.timer[t].live}

\* last_ts = MonoTime().
Later(tm, lag) ==
    [t \in Timers |-> IF tm[t].in THEN [tm[t] EXCEPT !.left = @ - lag] ELSE tm[t]]

Stamp(s) == [s EXCEPT !.timer = Later(@, s.loop.lag), !.loop.lag = 0]

\* Timeout(): regTimer() and go().
Scheduled(ival, nticks) ==
    [in |-> TRUE, live |-> TRUE, reg |-> TRUE, left |-> ival, nticks |-> nticks, ival |-> ival]

Timeout(s, t, ival, nticks) == [Stamp(s) EXCEPT !.timer[t] = Scheduled(ival, nticks)]

cleanup(s, t) == [s EXCEPT !.timer[t].live = FALSE, !.timer[t].reg = FALSE]

\* EventListener.cancel(): a cancelled timer stays in the heap, and is counted.  A
\* timer that is cancelled by its own callback is counted without being there.
cancel(s, t) ==
    cleanup([s EXCEPT !.loop.twasted = IF s.timer[t].reg THEN @ + 1 ELSE @], t)

breakLoop(s) == [s EXCEPT !.loop.endloop = TRUE]

\* The timer at the top of the heap, one of them if several are due at once.
Top(s, t) == t \in Heap(s) /\ \A u \in Heap(s) : s.timer[t].left <= s.timer[u].left

\* dispatchTimers() is done with the timers that are due.
NoneDue(s) ==
    \/ Heap(s) = {}
    \/ \E t \in Heap(s) : Top(s, t) /\ s.timer[t].live /\ s.timer[t].left > 0

\* It takes the top of the heap away, and puts a periodic timer back.
Pop(s, t) == [s EXCEPT !.timer[t].in = FALSE]

Skip(s, t) == [Pop(s, t) EXCEPT !.loop.twasted = @ - 1]

Periodic(s, t) == s.timer[t].nticks = -1 \/ s.timer[t].nticks > 1

Reschedule(s, t) ==
    [s EXCEPT !.timer[t].left = @ + s.timer[t].ival,
              !.timer[t].nticks = IF @ > 1 THEN @ - 1 ELSE @]

Before(s, t) == IF Periodic(s, t) THEN Reschedule(s, t) ELSE Pop(s, t)

\* After the callback a timer that has run its course is cleaned up, unless the
\* callback has ended the loop.
After(s, t, done) ==
    IF s.loop.endloop THEN [s EXCEPT !.loop.pc = "ended"]
    ELSE IF done THEN cleanup(s, t) ELSE s

\* Cancelled timers are swept away when they are more than half of the heap.
Swept(tm) == [t \in Timers |-> [tm[t] EXCEPT !.in = @ /\ tm[t].live]]

Compact(s) ==
    IF s.loop.twasted * 2 > Cardinality(Heap(s))
    THEN [s EXCEPT !.timer = Swept(@), !.loop.twasted = 0]
    ELSE s

\* From the timers to procrastinate(), and from there to the next turn.
ToSleep(s) == [Compact(s) EXCEPT !.loop.pc = "sleep"]

Wake(s) ==
    LET t == Stamp(s) IN
    IF t.loop.exception \/ t.loop.endloop THEN [t EXCEPT !.loop.pc = "ended"]
    ELSE [t EXCEPT !.loop.pc = "timers"]

-----------------------------------------------------------------------------
\* Cancelled timers never make up more than half of the heap when the loop goes to
\* sleep, because twasted counts every one of them: cancel() counts, the sweep and
\* the skipping of a timer that has come to the top count back.
SleepsHalfLive ==
    [][loop.pc = "timers" /\ loop'.pc = "sleep"
       => 2 * Cardinality({t \in Timers : timer'[t].in /\ ~timer'[t].live})
          <= Cardinality({t \in Timers : timer'[t].in})]_edVars
=============================================================================
