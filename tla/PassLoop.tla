------------------------------- MODULE PassLoop -------------------------------
(***************************************************************************)
(* The loops that repeat the scheduler's passes on a main, and the         *)
(* scheduler's start and stop around them: Loop, Timeline, Alarm, and      *)
(* createScheduler.                                                        *)
(*                                                                         *)
(* Every instant is kept as its distance from now, negative once it is     *)
(* past, so that a run of any length has finitely many states.  A timer    *)
(* may be served late, up to MaxLate: the event loop stalls.  The wall     *)
(* clock may be set while the timers go on.                                *)
(***************************************************************************)
EXTENDS Integers, FiniteSets

CONSTANTS
    Loops,          \* the loops of one scheduler
    Limit,          \* limit: passes in flight at a time, 1 when sequential
    Interval,       \* intervalMs
    Jitter,         \* jitterRatio of the interval
    MaxDelay,       \* MAX_DELAY_MS, the longest a timer can wait
    Timeout,        \* timeoutMs
    MaxLate,        \* bound on the lateness of a timer
    MaxClockSets,   \* bound on changes of the wall clock
    None            \* undefined

ASSUME LimitAssumption == Limit \in Nat \ {0}
ASSUME TimesAssumption ==
    /\ Interval \in Nat \ {0} /\ MaxDelay \in Nat \ {0} /\ Timeout \in Nat \ {0}
    /\ Jitter \in 0 .. Interval - 1
    /\ MaxLate \in Nat /\ MaxClockSets \in Nat
ASSUME NoneAssumption == None \notin Int

VARIABLES
    sets,        \* how often the wall clock was set
    started,     \* start() has armed the loops
    stopping,    \* stop() was called
    teardown,    \* executor.stop(): "waiting", "running" or "done"
    slot,        \* slot[l]: the timeline's slotAt, or None before start()
    alarm,       \* alarm[l]: [target, timer] or None
    inFlight,    \* inFlight[l]: the passes that hold a slot, [left, aborted]
    abandoned    \* abandoned[l]: a pass that lost its slot still runs

vars == <<sets, started, stopping, teardown, slot, alarm, inFlight, abandoned>>

Places == 1 .. Limit + 1

Init ==
    /\ sets = 0
    /\ started = FALSE
    /\ stopping = FALSE
    /\ teardown = "waiting"
    /\ slot = [l \in Loops |-> None]
    /\ alarm = [l \in Loops |-> None]
    /\ inFlight = [l \in Loops |-> [p \in Places |-> None]]
    /\ abandoned = [l \in Loops |-> FALSE]

Running(l) == {p \in Places : inFlight[l][p] # None}

-----------------------------------------------------------------------------
(* Timeline and alarm.                                                     *)

SmallerOf(x, y) == IF x < y THEN x ELSE y
LargerOf(x, y) == IF x > y THEN x ELSE y

\* An alarm that is set for the instant target away.
Aimed(target) ==
    [target |-> target, timer |-> SmallerOf(LargerOf(0, target), MaxDelay)]

\* A next slot that replays those a stall left in the past.
SlotReplayed(s) == s + Interval

\* nextTickAt: the slot after the one consumed, past those a stall has missed.
NextSlot(s) == s + (LargerOf(0, -s) \div Interval + 1) * Interval

\* The end of any hop is taken for the time.
AnyHop(a) == TRUE

\* The timer callback of an alarm: its time, or only the end of a hop?
Reached(a) == a.target <= 0

-----------------------------------------------------------------------------
(* Loop.                                                                   *)

\* start(): every loop at a random phase of the interval.  A scheduler starts
\* once, and not after stop().
Start ==
    /\ ~started /\ ~stopping
    /\ started' = TRUE
    /\ \E phase \in [Loops -> 0 .. Interval - 1] :
        /\ slot' = phase
        /\ alarm' = [l \in Loops |-> Aimed(phase[l])]
    /\ UNCHANGED <<sets, stopping, teardown, inFlight, abandoned>>

TimerDue(l) == alarm[l] # None /\ alarm[l].timer <= 0

\* The delay was clamped: wait on.
Hop(l) ==
    /\ TimerDue(l)
    /\ ~Reached(alarm[l])
    /\ alarm' = [alarm EXCEPT ![l] = Aimed(@.target)]
    /\ UNCHANGED <<sets, started, stopping, teardown, slot, inFlight, abandoned>>

\* No limit on the passes in flight.
SlotAlways(l) == TRUE

HasFreeSlot(l) == Cardinality(Running(l)) < Limit

\* tick(): arm the next one, then launch a pass or drop the tick.
Tick(l) ==
    /\ TimerDue(l)
    /\ Reached(alarm[l])
    /\ slot' = [slot EXCEPT ![l] = NextSlot(slot[l])]
    /\ \E jitter \in -Jitter .. Jitter :
        alarm' = [alarm EXCEPT ![l] = Aimed(NextSlot(slot[l]) + jitter)]
    /\ IF HasFreeSlot(l) /\ Running(l) # Places
       THEN \E p \in Places \ Running(l) :
                inFlight' = [inFlight EXCEPT ![l][p] =
                               [left |-> Timeout, aborted |-> FALSE]]
       ELSE UNCHANGED inFlight
    /\ UNCHANGED <<sets, started, stopping, teardown, abandoned>>

\* A pass resolves or rejects before its timeout.
Settle(l, p) ==
    /\ inFlight[l][p] # None
    /\ inFlight' = [inFlight EXCEPT ![l][p] = None]
    /\ UNCHANGED <<sets, started, stopping, teardown, slot, alarm, abandoned>>

\* A pass is waited for until it settles.
NeverExpires(pass) == FALSE

Expires(pass) == pass.left <= 0

\* Abandoned: its slot is freed, its signal aborted, and it may run on.
TimeOut(l, p) ==
    /\ inFlight[l][p] # None
    /\ Expires(inFlight[l][p])
    /\ inFlight' = [inFlight EXCEPT ![l][p] = None]
    /\ abandoned' = [abandoned EXCEPT ![l] = TRUE]
    /\ UNCHANGED <<sets, started, stopping, teardown, slot, alarm>>

\* The last abandoned pass of a loop comes to its end.
AbandonedEnds(l) ==
    /\ abandoned[l]
    /\ abandoned' = [abandoned EXCEPT ![l] = FALSE]
    /\ UNCHANGED <<sets, started, stopping, teardown, slot, alarm, inFlight>>

-----------------------------------------------------------------------------
(* The scheduler's stop().                                                 *)

\* Nothing is waited for.
DrainedAtOnce == TRUE

Drained == \A l \in Loops : Running(l) = {}

\* Loop.stop() of every loop, in one turn: no more ticks, every signal aborted.
Stop ==
    /\ ~stopping
    /\ stopping' = TRUE
    /\ alarm' = [l \in Loops |-> None]
    /\ inFlight' = [l \in Loops |-> [p \in Places |->
         IF inFlight[l][p] = None THEN None
         ELSE [inFlight[l][p] EXCEPT !.aborted = TRUE]]]
    /\ UNCHANGED <<sets, started, teardown, slot, abandoned>>

\* The loops have settled: executor.stop() begins.
BeginTeardown ==
    /\ stopping
    /\ teardown = "waiting"
    /\ Drained
    /\ teardown' = "running"
    /\ UNCHANGED <<sets, started, stopping, slot, alarm, inFlight, abandoned>>

EndTeardown ==
    /\ teardown = "running"
    /\ teardown' = "done"
    /\ UNCHANGED <<sets, started, stopping, slot, alarm, inFlight, abandoned>>

-----------------------------------------------------------------------------
(* Time.                                                                   *)

\* Time passes, unless some timer is as late as a stall can make it.
Elapse ==
    /\ \A l \in Loops :
        /\ alarm[l] # None => alarm[l].timer > -MaxLate
        /\ \A p \in Running(l) :
             Expires(inFlight[l][p]) => inFlight[l][p].left > -MaxLate
    /\ slot' = [l \in Loops |-> IF alarm[l] = None THEN slot[l] ELSE slot[l] - 1]
    /\ alarm' = [l \in Loops |->
         IF alarm[l] = None THEN None
         ELSE [target |-> alarm[l].target - 1, timer |-> alarm[l].timer - 1]]
    /\ inFlight' = [l \in Loops |-> [p \in Places |->
         IF inFlight[l][p] = None THEN None
         ELSE [inFlight[l][p] EXCEPT !.left = LargerOf(-MaxLate, @ - 1)]]]
    /\ UNCHANGED <<sets, started, stopping, teardown, abandoned>>

\* The wall clock is set by d; the timers run on.
SetClock(d) ==
    /\ sets < MaxClockSets
    /\ sets' = sets + 1
    /\ slot' = [l \in Loops |-> IF alarm[l] = None THEN slot[l] ELSE slot[l] - d]
    /\ alarm' = [l \in Loops |->
         IF alarm[l] = None THEN None ELSE [alarm[l] EXCEPT !.target = @ - d]]
    /\ UNCHANGED <<started, stopping, teardown, inFlight, abandoned>>

PassEnds(l) ==
    \/ \E p \in Places : Settle(l, p) \/ TimeOut(l, p)
    \/ AbandonedEnds(l)

Next ==
    \/ Start
    \/ \E l \in Loops : Hop(l) \/ Tick(l) \/ PassEnds(l)
    \/ Stop
    \/ BeginTeardown
    \/ EndTeardown
    \/ Elapse
    \/ \E d \in {-Interval - 1, Interval + 1} : SetClock(d)

Spec == Init /\ [][Next]_vars

\* Time passes and timers are served; the executor's stop() ends.  No pass has
\* to end, and nobody has to call start() or stop().
Fairness ==
    /\ \A l \in Loops :
        /\ WF_vars(Hop(l))
        /\ WF_vars(Tick(l))
        /\ \A p \in Places : WF_vars(TimeOut(l, p))
    /\ WF_vars(BeginTeardown)
    /\ WF_vars(EndTeardown)
    /\ WF_vars(Elapse)

FairSpec == Spec /\ Fairness

-----------------------------------------------------------------------------
(* Properties.                                                             *)

\* Instants and phases are what they should be; no more than Limit passes of a
\* loop hold a slot.
TypeOK ==
    /\ sets \in 0 .. MaxClockSets
    /\ {started, stopping} \subseteq BOOLEAN
    /\ teardown \in {"waiting", "running", "done"}
    /\ \A l \in Loops :
        /\ slot[l] \in Int \union {None}
        /\ alarm[l] # None => alarm[l].timer <= MaxDelay
        /\ Cardinality(Running(l)) <= Limit
        /\ \A p \in Running(l) : inFlight[l][p].left <= Timeout

\* A tick consumes the slots that have come and no other, so deviations never
\* accumulate and a stall is not replayed as a burst (Timeline, Alarm): the slot
\* it leaves armed lies ahead, on the timeline of start(), and the last one it
\* consumed is ahead by no more than the jitter, however long the delay and
\* however the clock was set while the alarm waited.
TimelineKept ==
    [][\A l \in Loops : Tick(l) =>
         /\ (slot'[l] - slot[l]) % Interval = 0
         /\ slot'[l] > 0
         /\ slot'[l] - Interval <= Jitter]_vars

\* Once stop() was called no pass starts, not even by a later start().
NoPassAfterStop ==
    [][stopping => \A l \in Loops : Running(l)' \subseteq Running(l)
                                     /\ alarm'[l] = None]_vars

\* executor.stop() begins when no pass holds a slot, and every pass still
\* running has had its signal aborted.
TeardownAfterDrain ==
    /\ teardown # "waiting" => \A l \in Loops : Running(l) = {}
    /\ stopping => \A l \in Loops : \A p \in Running(l) : inFlight[l][p].aborted

\* A hung pass delays stop() for no longer than its timeout: it comes to an end.
StopResolves == stopping ~> teardown = "done"

\* A pass that hangs does not stop its loop: as long as the scheduler runs, a
\* loop launches passes again and again.
Launch(l) == Tick(l) /\ inFlight'[l] # inFlight[l]
LoopGoesOn ==
    \A l \in Loops :
        <>[](started /\ ~stopping) => []<><<Launch(l)>>_vars
=============================================================================
