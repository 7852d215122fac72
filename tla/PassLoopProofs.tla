---------------------------- MODULE PassLoopProofs ----------------------------
(***************************************************************************)
(* Safety of PassLoop for every set of loops, limit, interval and bound.   *)
(***************************************************************************)
EXTENDS PassLoop, FiniteSetTheorems, TLAPS

Alarms == {None} \union [target : Int, timer : {d \in Int : d <= MaxDelay}]
Passes == {None} \union [left : {d \in Int : d <= Timeout}, aborted : BOOLEAN]

\* The types of the state.
Typed ==
    /\ sets \in 0 .. MaxClockSets
    /\ {started, stopping} \subseteq BOOLEAN
    /\ teardown \in {"waiting", "running", "done"}
    /\ slot \in [Loops -> Int \union {None}]
    /\ alarm \in [Loops -> Alarms]
    /\ inFlight \in [Loops -> [Places -> Passes]]
    /\ abandoned \in [Loops -> BOOLEAN]

\* An alarm is only armed on a timeline, and its target is the slot but for the
\* jitter.
ArmedOnTimeline ==
    \A l \in Loops : alarm[l] # None =>
        /\ slot[l] \in Int
        /\ slot[l] - alarm[l].target \in -Jitter .. Jitter

\* No more than Limit passes of a loop hold a slot.
WithinLimit == \A l \in Loops : Cardinality(Running(l)) <= Limit

\* stop() leaves nothing armed, and its signal with every pass.
StoppedClean ==
    /\ stopping => \A l \in Loops :
         /\ alarm[l] = None
         /\ \A p \in Running(l) : inFlight[l][p].aborted
    /\ teardown # "waiting" => stopping /\ Drained

LoopInv == Typed /\ ArmedOnTimeline /\ WithinLimit /\ StoppedClean

-----------------------------------------------------------------------------
\* A next slot is an instant on the timeline, and lies ahead.
LEMMA NextSlotAhead ==
    ASSUME NEW s \in Int
    PROVE  /\ NextSlot(s) \in Int
           /\ NextSlot(s) > 0
           /\ \E k \in Nat : NextSlot(s) = s + (k + 1) * Interval
           /\ NextSlot(s) - Interval <= LargerOf(0, s)
<1> DEFINE late == LargerOf(0, -s)
           k == late \div Interval
<1>1. Interval \in Nat /\ Interval > 0
  BY TimesAssumption
<1>2. late \in Nat
  BY DEF LargerOf
<1>3. k \in Nat /\ k * Interval <= late /\ late < (k + 1) * Interval
  BY <1>1, <1>2
<1>4. NextSlot(s) = s + (k + 1) * Interval
  BY DEF NextSlot
<1>5. (k + 1) * Interval = k * Interval + Interval /\ k * Interval \in Int
  BY <1>1, <1>3
<1>6. CASE s > 0
  <2>1. late = 0
    BY <1>6 DEF LargerOf
  <2>2. k * Interval <= 0
    BY <1>3, <2>1
  <2> HIDE DEF k, late
  <2> QED BY <1>1, <1>3, <1>4, <1>5, <1>6, <2>2 DEF LargerOf
<1>7. CASE ~(s > 0)
  <2>1. late = -s
    BY <1>7 DEF LargerOf
  <2> HIDE DEF k, late
  <2> QED BY <1>1, <1>3, <1>4, <1>5, <1>7, <2>1 DEF LargerOf
<1> QED BY <1>6, <1>7

\* A multiple of the interval is one.
LEMMA MultipleOfInterval ==
    ASSUME NEW k \in Nat
    PROVE  ((k + 1) * Interval) % Interval = 0
BY TimesAssumption

\* Aiming at an instant gives an alarm with that target.
LEMMA AimedIsAlarm ==
    ASSUME NEW target \in Int
    PROVE  /\ Aimed(target) \in Alarms
           /\ Aimed(target).target = target
BY TimesAssumption DEF Aimed, Alarms, SmallerOf, LargerOf

\* The passes of a loop are finitely many.
LEMMA PlacesFinite == IsFiniteSet(Places)
<1>1. 1 \in Int /\ Limit + 1 \in Int
  BY LimitAssumption
<1> QED BY <1>1, FS_Interval DEF Places

\* A launch in a free slot keeps the limit; fewer passes keep it too.
LEMMA LimitKept ==
    ASSUME NEW S \in SUBSET Places, NEW T \in SUBSET Places,
           T \subseteq S \/ \E p \in Places : T \subseteq S \union {p} /\ Cardinality(S) < Limit,
           Cardinality(S) <= Limit
    PROVE  Cardinality(T) <= Limit
<1>1. IsFiniteSet(S) /\ IsFiniteSet(T)
  BY PlacesFinite, FS_Subset
<1>2. Cardinality(S) \in Nat /\ Cardinality(T) \in Nat /\ Limit \in Nat
  BY <1>1, FS_CardinalityType, LimitAssumption
<1>3. CASE T \subseteq S
  <2>1. Cardinality(T) <= Cardinality(S)
    BY <1>1, <1>3, FS_Subset
  <2> QED BY <1>2, <2>1
<1>4. ASSUME NEW p \in Places, T \subseteq S \union {p}, Cardinality(S) < Limit
      PROVE  Cardinality(T) <= Limit
  <2>1. /\ IsFiniteSet(S \union {p})
        /\ Cardinality(S \union {p}) = Cardinality(S) \/ Cardinality(S \union {p}) = Cardinality(S) + 1
    BY <1>1, FS_AddElement
  <2>2. Cardinality(T) <= Cardinality(S \union {p})
    BY <1>4, <2>1, FS_Subset
  <2> QED BY <1>2, <1>4, <2>1, <2>2
<1> QED BY <1>3, <1>4

-----------------------------------------------------------------------------
\* The invariant holds at the start.
LEMMA InitLoopInv == Init => LoopInv
<1> SUFFICES ASSUME Init PROVE LoopInv
  OBVIOUS
<1>1. Typed
  <2>1. None \in Alarms /\ None \in Passes /\ 0 \in 0 .. MaxClockSets
    BY TimesAssumption DEF Alarms, Passes
  <2>2. inFlight \in [Loops -> [Places -> Passes]]
    BY <2>1 DEF Init
  <2> QED BY <2>1, <2>2 DEF Init, Typed
<1>2. ArmedOnTimeline
  BY DEF Init, ArmedOnTimeline
<1>3. \A l \in Loops : Running(l) = {}
  BY DEF Init, Running
<1>4. WithinLimit
  BY <1>3, FS_EmptySet, LimitAssumption DEF WithinLimit
<1>5. StoppedClean
  BY DEF Init, StoppedClean
<1> QED BY <1>1, <1>2, <1>4, <1>5 DEF LoopInv

\* start() arms every loop on its own timeline.
LEMMA StartKeeps == LoopInv /\ Start => LoopInv'
<1> SUFFICES ASSUME LoopInv, Start PROVE LoopInv'
  OBVIOUS
<1> USE DEF LoopInv
<1>1. PICK phase \in [Loops -> 0 .. Interval - 1] :
         slot' = phase /\ alarm' = [l \in Loops |-> Aimed(phase[l])]
  BY DEF Start
<1>2. \A l \in Loops : phase[l] \in Int
  BY TimesAssumption
<1>3. Typed'
  BY <1>1, <1>2, AimedIsAlarm DEF Typed, Start
<1>4. ArmedOnTimeline'
  <2> SUFFICES ASSUME NEW l \in Loops
               PROVE  slot'[l] \in Int /\ slot'[l] - alarm'[l].target \in -Jitter .. Jitter
    BY DEF ArmedOnTimeline
  <2>1. slot'[l] \in Int /\ alarm'[l].target = slot'[l]
    BY <1>1, <1>2, AimedIsAlarm
  <2> QED BY <2>1, TimesAssumption
<1>5. WithinLimit'
  BY DEF WithinLimit, Running, Start
<1>6. StoppedClean'
  BY DEF StoppedClean, Start, Drained, Running
<1> QED BY <1>3, <1>4, <1>5, <1>6

\* The end of a hop aims at the same instant again.
LEMMA HopKeeps == ASSUME NEW l \in Loops PROVE LoopInv /\ Hop(l) => LoopInv'
<1> SUFFICES ASSUME LoopInv, Hop(l) PROVE LoopInv'
  OBVIOUS
<1> USE DEF LoopInv
<1>1. alarm[l] # None /\ alarm[l].target \in Int
  BY DEF Hop, TimerDue, Typed, Alarms
<1>2. alarm' = [alarm EXCEPT ![l] = Aimed(alarm[l].target)]
  BY DEF Hop
<1>3. Typed'
  BY <1>1, <1>2, AimedIsAlarm DEF Typed, Hop
<1>4. ArmedOnTimeline'
  BY <1>1, <1>2, AimedIsAlarm DEF ArmedOnTimeline, Typed, Hop
<1>5. WithinLimit'
  BY DEF WithinLimit, Running, Hop
<1>6. StoppedClean'
  BY <1>1, <1>2 DEF StoppedClean, Hop, Drained, Running
<1> QED BY <1>3, <1>4, <1>5, <1>6

\* A tick arms the next one and launches a pass only in a free slot.
LEMMA TickKeeps == ASSUME NEW l \in Loops PROVE LoopInv /\ Tick(l) => LoopInv'
<1> SUFFICES ASSUME LoopInv, Tick(l) PROVE LoopInv'
  OBVIOUS
<1> USE DEF LoopInv
<1>1. alarm[l] # None /\ slot[l] \in Int
  BY DEF Tick, TimerDue, ArmedOnTimeline
<1> DEFINE next == NextSlot(slot[l])
<1>2. next \in Int /\ slot' = [slot EXCEPT ![l] = next]
  BY <1>1, NextSlotAhead DEF Tick
<1>3. PICK jitter \in -Jitter .. Jitter : alarm' = [alarm EXCEPT ![l] = Aimed(next + jitter)]
  BY DEF Tick
<1>4. Jitter \in Int /\ jitter \in Int /\ next + jitter \in Int
  BY <1>2, TimesAssumption
<1> HIDE DEF next
<1>5. Aimed(next + jitter) \in Alarms /\ Aimed(next + jitter).target = next + jitter
  BY <1>4, AimedIsAlarm
<1>6. \/ inFlight' = inFlight
      \/ /\ HasFreeSlot(l)
         /\ \E p \in Places : inFlight' = [inFlight EXCEPT ![l][p] =
                                           [left |-> Timeout, aborted |-> FALSE]]
  BY DEF Tick
<1>7. ~stopping
  BY <1>1 DEF StoppedClean
<1>8. Typed'
  <2>1. inFlight' \in [Loops -> [Places -> Passes]]
    <3>1. [left |-> Timeout, aborted |-> FALSE] \in Passes
      BY TimesAssumption DEF Passes
    <3>2. inFlight \in [Loops -> [Places -> Passes]]
      BY DEF Typed
    <3>3. ASSUME NEW p \in Places, NEW r \in Passes
          PROVE  [inFlight EXCEPT ![l][p] = r] \in [Loops -> [Places -> Passes]]
      BY <3>2
    <3> DEFINE pass == [left |-> Timeout, aborted |-> FALSE]
    <3> HIDE DEF pass
    <3>4. CASE inFlight' = inFlight
      BY <3>2, <3>4
    <3>5. ASSUME NEW p \in Places, inFlight' = [inFlight EXCEPT ![l][p] = pass]
          PROVE  inFlight' \in [Loops -> [Places -> Passes]]
      <4>1. pass \in Passes
        BY <3>1 DEF pass
      <4> QED BY <3>3, <3>5, <4>1
    <3> QED BY <1>6, <3>4, <3>5 DEF pass
  <2>2. slot' \in [Loops -> Int \union {None}] /\ alarm' \in [Loops -> Alarms]
    BY <1>2, <1>3, <1>5 DEF Typed
  <2> QED BY <2>1, <2>2 DEF Typed, Tick
<1>9. ArmedOnTimeline'
  <2> SUFFICES ASSUME NEW k \in Loops, alarm'[k] # None
               PROVE  slot'[k] \in Int /\ slot'[k] - alarm'[k].target \in -Jitter .. Jitter
    BY DEF ArmedOnTimeline
  <2>1. CASE k = l
    <3>1. slot'[k] = next /\ alarm'[k].target = next + jitter
      BY <1>2, <1>3, <1>5, <2>1 DEF Typed
    <3> QED BY <1>2, <1>4, <3>1
  <2>2. CASE k # l
    BY <1>2, <1>3, <2>2 DEF Typed, ArmedOnTimeline
  <2> QED BY <2>1, <2>2
<1>10. WithinLimit'
  <2> SUFFICES ASSUME NEW k \in Loops PROVE Cardinality(Running(k)') <= Limit
    BY DEF WithinLimit, Running
  <2>1. Running(k) \in SUBSET Places /\ Running(k)' \in SUBSET Places
    BY DEF Running
  <2>2. \/ Running(k)' \subseteq Running(k)
        \/ \E p \in Places : /\ Running(k)' \subseteq Running(k) \union {p}
                              /\ Cardinality(Running(k)) < Limit
    <3>1. CASE inFlight' = inFlight
      BY <3>1 DEF Running
    <3>2. ASSUME HasFreeSlot(l), NEW p \in Places,
                 inFlight' = [inFlight EXCEPT ![l][p] = [left |-> Timeout, aborted |-> FALSE]]
          PROVE  \/ Running(k)' \subseteq Running(k)
                 \/ /\ Running(k)' \subseteq Running(k) \union {p}
                    /\ Cardinality(Running(k)) < Limit
      BY <3>2 DEF Running, HasFreeSlot, Typed
    <3> QED BY <1>6, <3>1, <3>2
  <2>3. Cardinality(Running(k)) <= Limit
    BY DEF WithinLimit
  <2> QED BY <2>1, <2>2, <2>3, LimitKept
<1>11. StoppedClean'
  BY <1>7 DEF StoppedClean, Tick
<1> QED BY <1>8, <1>9, <1>10, <1>11

\* Steps that free slots, or none.
LEMMA FewerPasses ==
    ASSUME WithinLimit, \A k \in Loops : Running(k)' \subseteq Running(k)
    PROVE  WithinLimit'
<1> SUFFICES ASSUME NEW k \in Loops PROVE Cardinality(Running(k)') <= Limit
  BY DEF WithinLimit, Running
<1>1. Running(k) \in SUBSET Places /\ Running(k)' \in SUBSET Places
  BY DEF Running
<1>2. Running(k)' \subseteq Running(k) /\ Cardinality(Running(k)) <= Limit
  BY DEF WithinLimit
<1> QED BY <1>1, <1>2, LimitKept

\* A pass that ends, in time or not, frees its slot and nothing else.
LEMMA PassEndsKeeps == ASSUME NEW l \in Loops PROVE LoopInv /\ PassEnds(l) => LoopInv'
<1> SUFFICES ASSUME LoopInv, PassEnds(l) PROVE LoopInv'
  OBVIOUS
<1> USE DEF LoopInv
<1>1. UNCHANGED <<sets, started, stopping, teardown, slot, alarm>>
  BY DEF PassEnds, Settle, TimeOut, AbandonedEnds
<1>2. inFlight' = inFlight \/ \E p \in Places : inFlight' = [inFlight EXCEPT ![l][p] = None]
  BY DEF PassEnds, Settle, TimeOut, AbandonedEnds
<1>3. abandoned' \in [Loops -> BOOLEAN]
  BY DEF PassEnds, Settle, TimeOut, AbandonedEnds, Typed
<1>4. inFlight \in [Loops -> [Places -> Passes]] /\ None \in Passes
  BY DEF Typed, Passes
<1>5. /\ inFlight' \in [Loops -> [Places -> Passes]]
      /\ \A k \in Loops : \A p \in Places :
           inFlight'[k][p] # None => inFlight'[k][p] = inFlight[k][p]
  <2>1. CASE inFlight' = inFlight
    BY <1>4, <2>1
  <2>2. ASSUME NEW p \in Places, inFlight' = [inFlight EXCEPT ![l][p] = None]
        PROVE  /\ inFlight' \in [Loops -> [Places -> Passes]]
               /\ \A k \in Loops : \A q \in Places :
                    inFlight'[k][q] # None => inFlight'[k][q] = inFlight[k][q]
    BY <1>4, <2>2
  <2> QED BY <1>2, <2>1, <2>2
<1>6. Typed'
  BY <1>1, <1>3, <1>5 DEF Typed
<1>7. ArmedOnTimeline'
  BY <1>1 DEF ArmedOnTimeline
<1>8. \A k \in Loops : Running(k)' \subseteq Running(k)
  BY <1>5 DEF Running
<1>9. WithinLimit'
  BY <1>8, FewerPasses
<1>10. StoppedClean'
  BY <1>1, <1>5, <1>8 DEF StoppedClean, Drained, Running
<1> QED BY <1>6, <1>7, <1>9, <1>10

\* stop() disarms every loop and aborts every signal.
LEMMA StopKeeps == LoopInv /\ Stop => LoopInv'
<1> SUFFICES ASSUME LoopInv, Stop PROVE LoopInv'
  OBVIOUS
<1> USE DEF LoopInv
<1>1. /\ stopping' /\ ~stopping
      /\ UNCHANGED <<sets, started, teardown, slot, abandoned>>
      /\ alarm' = [l \in Loops |-> None]
      /\ inFlight' = [l \in Loops |-> [p \in Places |->
           IF inFlight[l][p] = None THEN None
           ELSE [inFlight[l][p] EXCEPT !.aborted = TRUE]]]
  BY DEF Stop
<1>2. ASSUME NEW l \in Loops, NEW p \in Places
      PROVE  /\ inFlight[l][p] = None => inFlight'[l][p] = None
             /\ inFlight[l][p] # None => inFlight'[l][p].aborted
             /\ inFlight'[l][p] \in Passes
  <2>1. inFlight[l][p] \in Passes
    BY DEF Typed
  <2> QED BY <1>1, <2>1 DEF Passes
<1>3. Typed'
  <2>1. inFlight' \in [Loops -> [Places -> Passes]]
    BY <1>1, <1>2
  <2>2. alarm' \in [Loops -> Alarms] /\ stopping' \in BOOLEAN
    BY <1>1 DEF Alarms, Stop
  <2> QED BY <1>1, <2>1, <2>2 DEF Typed
<1>4. ArmedOnTimeline'
  BY <1>1 DEF ArmedOnTimeline
<1>5. \A k \in Loops : Running(k)' \subseteq Running(k)
  BY <1>2 DEF Running
<1>6. WithinLimit'
  BY <1>5, FewerPasses
<1>7. StoppedClean'
  <2>1. \A l \in Loops : \A p \in Running(l)' : inFlight'[l][p].aborted
    BY <1>2 DEF Running
  <2> QED BY <1>1, <2>1 DEF StoppedClean, Running
<1> QED BY <1>3, <1>4, <1>6, <1>7

\* The executor's stop() begins on drained loops, and touches none.
LEMMA TeardownKeeps == LoopInv /\ (BeginTeardown \/ EndTeardown) => LoopInv'
<1> SUFFICES ASSUME LoopInv, BeginTeardown \/ EndTeardown PROVE LoopInv'
  OBVIOUS
<1>1. /\ UNCHANGED <<sets, started, stopping, slot, alarm, inFlight, abandoned>>
      /\ teardown' \in {"running", "done"}
      /\ stopping /\ Drained
  BY DEF BeginTeardown, EndTeardown, LoopInv, StoppedClean
<1> QED BY <1>1 DEF LoopInv, Typed, ArmedOnTimeline, WithinLimit, StoppedClean, Drained, Running

\* Time moves a slot and its alarm together, and leaves the passes their slots.
LEMMA ElapseKeeps == LoopInv /\ Elapse => LoopInv'
<1> SUFFICES ASSUME LoopInv, Elapse PROVE LoopInv'
  OBVIOUS
<1> USE DEF LoopInv
<1>1. /\ UNCHANGED <<sets, started, stopping, teardown, abandoned>>
      /\ slot' = [l \in Loops |-> IF alarm[l] = None THEN slot[l] ELSE slot[l] - 1]
      /\ alarm' = [l \in Loops |->
           IF alarm[l] = None THEN None
           ELSE [target |-> alarm[l].target - 1, timer |-> alarm[l].timer - 1]]
      /\ inFlight' = [l \in Loops |-> [p \in Places |->
           IF inFlight[l][p] = None THEN None
           ELSE [inFlight[l][p] EXCEPT !.left = LargerOf(-MaxLate, @ - 1)]]]
  BY DEF Elapse
<1>2. ASSUME NEW l \in Loops, NEW p \in Places
      PROVE  /\ inFlight[l][p] = None => inFlight'[l][p] = None
             /\ inFlight[l][p] # None => inFlight'[l][p].aborted = inFlight[l][p].aborted
             /\ inFlight'[l][p] \in Passes
  <2>1. inFlight[l][p] \in Passes
    BY DEF Typed
  <2>2. CASE inFlight[l][p] # None
    <3>1. /\ inFlight[l][p] \in [left : {d \in Int : d <= Timeout}, aborted : BOOLEAN]
          /\ inFlight'[l][p] = [inFlight[l][p] EXCEPT !.left = LargerOf(-MaxLate, @ - 1)]
      BY <1>1, <2>1, <2>2 DEF Passes
    <3>2. LargerOf(-MaxLate, inFlight[l][p].left - 1) \in {d \in Int : d <= Timeout}
      BY <3>1, TimesAssumption DEF LargerOf
    <3> QED BY <2>2, <3>1, <3>2 DEF Passes
  <2> QED BY <1>1, <2>2 DEF Passes
<1>3. ASSUME NEW l \in Loops, alarm[l] # None
      PROVE  /\ slot'[l] = slot[l] - 1 /\ slot[l] \in Int
             /\ alarm'[l].target = alarm[l].target - 1 /\ alarm[l].target \in Int
             /\ alarm'[l] \in Alarms
  <2>1. slot[l] \in Int
    BY <1>3 DEF ArmedOnTimeline
  <2>2. alarm[l] \in [target : Int, timer : {d \in Int : d <= MaxDelay}]
    BY <1>3 DEF Typed, Alarms
  <2>3. alarm'[l] = [target |-> alarm[l].target - 1, timer |-> alarm[l].timer - 1]
    BY <1>1, <1>3
  <2>4. alarm[l].timer - 1 \in {d \in Int : d <= MaxDelay}
    BY <2>2, TimesAssumption
  <2> QED BY <1>1, <1>3, <2>1, <2>2, <2>3, <2>4 DEF Alarms
<1>4. \A l \in Loops : alarm[l] = None => slot'[l] = slot[l] /\ alarm'[l] = None
  BY <1>1
<1>5. Typed'
  <2>1. inFlight' \in [Loops -> [Places -> Passes]]
    BY <1>1, <1>2
  <2>2. \A l \in Loops : slot'[l] \in Int \union {None} /\ alarm'[l] \in Alarms
    BY <1>3, <1>4 DEF Typed, Alarms
  <2>3. slot' \in [Loops -> Int \union {None}] /\ alarm' \in [Loops -> Alarms]
    BY <1>1, <2>2
  <2> QED BY <1>1, <2>1, <2>3 DEF Typed
<1>6. ArmedOnTimeline'
  BY <1>3, <1>4, TimesAssumption DEF ArmedOnTimeline
<1>7. \A k \in Loops : Running(k)' \subseteq Running(k)
  BY <1>2 DEF Running
<1>8. WithinLimit'
  BY <1>7, FewerPasses
<1>9. StoppedClean'
  <2>1. stopping => \A l \in Loops : \A p \in Running(l)' : inFlight'[l][p].aborted
    BY <1>2, <1>7 DEF StoppedClean, Running
  <2> QED BY <1>1, <1>4, <1>7, <2>1 DEF StoppedClean, Drained, Running
<1> QED BY <1>5, <1>6, <1>8, <1>9

\* Setting the clock moves a slot and the instant of its alarm together.
LEMMA SetClockKeeps == ASSUME NEW d \in Int PROVE LoopInv /\ SetClock(d) => LoopInv'
<1> SUFFICES ASSUME LoopInv, SetClock(d) PROVE LoopInv'
  OBVIOUS
<1> USE DEF LoopInv
<1>1. /\ UNCHANGED <<started, stopping, teardown, inFlight, abandoned>>
      /\ sets' \in 0 .. MaxClockSets
      /\ slot' = [l \in Loops |-> IF alarm[l] = None THEN slot[l] ELSE slot[l] - d]
      /\ alarm' = [l \in Loops |->
           IF alarm[l] = None THEN None ELSE [alarm[l] EXCEPT !.target = @ - d]]
  BY TimesAssumption DEF SetClock, Typed
<1>2. ASSUME NEW l \in Loops, alarm[l] # None
      PROVE  /\ slot'[l] = slot[l] - d /\ slot[l] \in Int
             /\ alarm'[l].target = alarm[l].target - d /\ alarm[l].target \in Int
             /\ alarm'[l] \in Alarms
  <2>1. slot[l] \in Int
    BY <1>2 DEF ArmedOnTimeline
  <2>2. alarm[l] \in [target : Int, timer : {e \in Int : e <= MaxDelay}]
    BY <1>2 DEF Typed, Alarms
  <2>3. alarm'[l] = [alarm[l] EXCEPT !.target = @ - d]
    BY <1>1, <1>2
  <2> QED BY <1>1, <1>2, <2>1, <2>2, <2>3 DEF Alarms
<1>3. \A l \in Loops : alarm[l] = None => slot'[l] = slot[l] /\ alarm'[l] = None
  BY <1>1
<1>4. Typed'
  <2>1. \A l \in Loops : slot'[l] \in Int \union {None} /\ alarm'[l] \in Alarms
    BY <1>2, <1>3 DEF Typed, Alarms
  <2>2. slot' \in [Loops -> Int \union {None}] /\ alarm' \in [Loops -> Alarms]
    BY <1>1, <2>1
  <2> QED BY <1>1, <2>2 DEF Typed
<1>5. ArmedOnTimeline'
  BY <1>2, <1>3, TimesAssumption DEF ArmedOnTimeline
<1>6. WithinLimit'
  BY <1>1 DEF WithinLimit, Running
<1>7. StoppedClean'
  BY <1>1, <1>3 DEF StoppedClean, Drained, Running
<1> QED BY <1>4, <1>5, <1>6, <1>7

\* Every step keeps the invariant.
LEMMA NextKeeps == LoopInv /\ [Next]_vars => LoopInv'
<1> SUFFICES ASSUME LoopInv, [Next]_vars PROVE LoopInv'
  OBVIOUS
<1>1. CASE UNCHANGED vars
  BY <1>1 DEF LoopInv, Typed, ArmedOnTimeline, WithinLimit, StoppedClean, Drained, Running, vars
<1>2. ASSUME NEW d \in {-Interval - 1, Interval + 1}, SetClock(d) PROVE LoopInv'
  <2>1. d \in Int
    BY TimesAssumption
  <2> QED BY <1>2, <2>1, SetClockKeeps
<1> QED BY <1>1, <1>2, StartKeeps, HopKeeps, TickKeeps, PassEndsKeeps, StopKeeps,
           TeardownKeeps, ElapseKeeps DEF Next

\* LoopInv is an invariant: every step of a loop, of the scheduler and of time
\* keeps it.
THEOREM SpecLoopInv == Spec => []LoopInv
BY InitLoopInv, NextKeeps, PTL DEF Spec

-----------------------------------------------------------------------------
\* However the passes of a loop start, end, hang and are abandoned, no more than
\* its limit hold a slot (launch).
THEOREM SpecTypeOK == Spec => []TypeOK
<1>1. LoopInv => TypeOK
  <2> SUFFICES ASSUME LoopInv PROVE TypeOK
    OBVIOUS
  <2>1. ASSUME NEW l \in Loops
        PROVE  /\ slot[l] \in Int \union {None}
               /\ alarm[l] # None => alarm[l].timer <= MaxDelay
               /\ Cardinality(Running(l)) <= Limit
               /\ \A p \in Running(l) : inFlight[l][p].left <= Timeout
    BY DEF LoopInv, Typed, WithinLimit, Alarms, Passes, Running
  <2> QED BY <2>1 DEF LoopInv, Typed, TypeOK
<1> QED BY <1>1, SpecLoopInv, PTL

\* The executor's stop() waits for every loop of the scheduler (createScheduler).
THEOREM SpecTeardownAfterDrain == Spec => []TeardownAfterDrain
<1>1. LoopInv => TeardownAfterDrain
  BY DEF LoopInv, StoppedClean, Drained, TeardownAfterDrain
<1> QED BY <1>1, SpecLoopInv, PTL

\* After stop() no loop launches a pass or arms an alarm.
THEOREM SpecNoPassAfterStop == Spec => NoPassAfterStop
<1> DEFINE Stopped == stopping => \A l \in Loops : Running(l)' \subseteq Running(l)
                                                /\ alarm'[l] = None
<1>1. LoopInv /\ LoopInv' /\ [Next]_vars => [Stopped]_vars
  <2> SUFFICES ASSUME LoopInv, LoopInv', [Next]_vars, stopping, NEW l \in Loops
               PROVE  Running(l)' \subseteq Running(l) /\ alarm'[l] = None
    OBVIOUS
  <2>1. stopping'
    BY DEF Next, Start, Hop, Tick, PassEnds, Settle, TimeOut, AbandonedEnds, Stop,
           BeginTeardown, EndTeardown, Elapse, SetClock, vars
  <2>2. alarm'[l] = None
    BY <2>1 DEF LoopInv, StoppedClean
  <2>3. \A k \in Loops : ~TimerDue(k)
    BY DEF LoopInv, StoppedClean, TimerDue
  <2>4. inFlight \in [Loops -> [Places -> Passes]]
    BY DEF LoopInv, Typed
  <2>5. SUFFICES ASSUME NEW p \in Places, inFlight[l][p] = None
                 PROVE  inFlight'[l][p] = None
    BY <2>2 DEF Running
  <2>6. \A k \in Loops : ~Hop(k) /\ ~Tick(k)
    BY <2>3 DEF Hop, Tick
  <2>7. ASSUME NEW k \in Loops, PassEnds(k) PROVE inFlight'[l][p] = None
    <3>1. CASE AbandonedEnds(k)
      BY <2>5, <3>1 DEF AbandonedEnds
    <3>2. ASSUME NEW q \in Places, inFlight' = [inFlight EXCEPT ![k][q] = None]
          PROVE  inFlight'[l][p] = None
      BY <2>4, <2>5, <3>2
    <3> QED BY <2>7, <3>1, <3>2 DEF PassEnds, Settle, TimeOut
  <2>8. CASE Elapse
    BY <2>5, <2>8 DEF Elapse
  <2>9. CASE Start \/ Stop
    BY <2>9 DEF Start, Stop
  <2>10. CASE UNCHANGED inFlight
    BY <2>5, <2>10
  <2> QED BY <2>6, <2>7, <2>8, <2>9, <2>10
          DEF Next, BeginTeardown, EndTeardown, SetClock, vars
<1> QED BY <1>1, SpecLoopInv, PTL DEF Spec, NoPassAfterStop

\* A tick consumes the slots that have come, and none that lies further ahead
\* than the jitter (nextTickAt).
THEOREM SpecTimelineKept == Spec => TimelineKept
<1> DEFINE Kept == \A l \in Loops : Tick(l) =>
                     /\ (slot'[l] - slot[l]) % Interval = 0
                     /\ slot'[l] > 0
                     /\ slot'[l] - Interval <= Jitter
<1>1. LoopInv => Kept
  <2> SUFFICES ASSUME LoopInv, NEW l \in Loops, Tick(l)
               PROVE  /\ (slot'[l] - slot[l]) % Interval = 0
                      /\ slot'[l] > 0
                      /\ slot'[l] - Interval <= Jitter
    OBVIOUS
  <2>1. /\ slot[l] \in Int /\ alarm[l].target \in Int
        /\ slot[l] - alarm[l].target <= Jitter
        /\ alarm[l].target <= 0
    BY TimesAssumption
       DEF LoopInv, ArmedOnTimeline, Typed, Alarms, Tick, TimerDue, Reached
  <2>2. slot'[l] = NextSlot(slot[l])
    BY DEF Tick, LoopInv, Typed
  <2>3. PICK k \in Nat : NextSlot(slot[l]) = slot[l] + (k + 1) * Interval
    BY <2>1, NextSlotAhead
  <2>4. (k + 1) * Interval \in Int
    BY TimesAssumption
  <2>5. slot'[l] - slot[l] = (k + 1) * Interval
    BY <2>1, <2>2, <2>3, <2>4
  <2>6. slot'[l] > 0 /\ slot'[l] - Interval <= LargerOf(0, slot[l]) /\ slot'[l] \in Int
    BY <2>1, <2>2, NextSlotAhead
  <2>7. LargerOf(0, slot[l]) <= Jitter /\ LargerOf(0, slot[l]) \in Int
    BY <2>1, TimesAssumption DEF LargerOf
  <2>8. slot'[l] - Interval <= Jitter
    BY <2>6, <2>7, TimesAssumption
  <2> QED BY <2>5, <2>6, <2>8, MultipleOfInterval
<1> QED BY <1>1, SpecLoopInv, PTL DEF Spec, TimelineKept
=============================================================================
