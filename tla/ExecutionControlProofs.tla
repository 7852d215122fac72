------------------------ MODULE ExecutionControlProofs ------------------------
(***************************************************************************)
(* Safety of ExecutionControl for every number of executions, every limit  *)
(* and every bound on waits, requests and ends of the process.             *)
(***************************************************************************)
EXTENDS ExecutionControl, FiniteSetTheorems, SequenceTheorems, TLAPS

Before == {"arriving", "queued", "admitted"}
Listable == {"registered", "executing", "saved"}
Runs(c) == calls[c].phase \in {"registered", "executing"}
Siblings(c) == {d \in Calls : ExecutionOf(d) = ExecutionOf(c) /\ d # c}

\* The types of the state, without what relates variables.
Typed ==
    /\ limit \in Limits
    /\ status \in [Executions -> Statuses]
    /\ process \in {"up", "stopping", "down"}
    /\ calls \in [Calls -> Call]
    /\ capacity \in Int
    /\ queue \in Seq(Calls)
    /\ active \in [Executions -> [call : Calls \cup {None},
                                  status : {"absent", "running", "waiting"}]]
    /\ timers \in SUBSET Executions
    /\ polled \in SUBSET Executions
    /\ waits \in Nat /\ requests \in Nat /\ ends \in Nat

\* The promise of an entry is that of a call of its execution that was
\* registered and has not ended; only an entry that waits has none.
EntriesLive ==
    \A e \in Executions :
        /\ active[e].status = "absent" => active[e].call = None
        /\ active[e].status = "running" => active[e].call # None
        /\ active[e].call # None =>
              /\ ExecutionOf(active[e].call) = e
              /\ calls[active[e].call].phase \in Listable

\* An entry that waits belongs to a call that waits.
EntriesWait ==
    \A e \in Executions :
        active[e].status = "waiting" /\ active[e].call # None =>
            calls[active[e].call].waiting

\* Each call is in the queue once while it is queued.
QueueExact ==
    /\ \A i, j \in 1..Len(queue) : queue[i] = queue[j] => i = j
    /\ \A c \in Calls :
          calls[c].phase = "queued" <=> \E i \in 1..Len(queue) : queue[i] = c

\* Nothing is left of a process that has ended.
DownIsEmpty ==
    process = "down" =>
        /\ capacity = limit
        /\ queue = <<>> /\ timers = {} /\ polled = {}
        /\ \A e \in Executions : active[e] = NoEntry
        /\ \A c \in Calls : calls[c] = NoCall

\* An execution without a row is known to nobody.
AbsentIsUnknown ==
    \A e \in Executions :
        status[e] = "absent" =>
            /\ e \notin timers \cup polled
            /\ \A c \in Calls : ExecutionOf(c) = e => calls[c].phase = "none"

\* What a call has by the phase it is in.
FlagsByPhase ==
    \A c \in Calls :
        /\ calls[c].phase \in {"none", "arriving", "queued"} => ~ calls[c].reserved
        /\ calls[c].phase \notin {"executing", "saved"} => ~ calls[c].waiting
        /\ calls[c].phase = "executing"
           /\ active[ExecutionOf(c)].call = c => calls[c].attached

\* Until the call that creates an execution is registered, nobody resumes it.
CreationIsAlone ==
    \A c \in Calls :
        calls[c].kind = "create" /\ calls[c].phase \in Before =>
            /\ status[ExecutionOf(c)] # "waiting"
            /\ ExecutionOf(c) \notin timers \cup polled
            /\ \A d \in Siblings(c) : calls[d].phase = "none"

\* An execution whose row says that it waits is not run.
WaitingIsIdle ==
    \A c \in Calls : status[ExecutionOf(c)] = "waiting" => ~ Runs(c)

\* A call that has saved a result other than waiting was the last one: the
\* execution does not wait and is not run.
SavedIsOver ==
    \A c \in Calls :
        calls[c].phase = "saved" /\ ~ calls[c].waiting =>
            /\ status[ExecutionOf(c)] # "waiting"
            /\ \A d \in Siblings(c) : ~ Runs(d)

\* A call whose entry is gone, or belongs to another call, before it gave its
\* capacity back has put its execution to wait.
OrphansWait ==
    process = "up" =>
        \A c \in Calls :
            /\ calls[c].reserved
            /\ calls[c].phase \in Listable
            /\ active[ExecutionOf(c)].call # c
            => calls[c].waiting

\* The calls that hold capacity and have not put their execution to wait.
Working == {c \in Calls : calls[c].reserved /\ ~ calls[c].waiting}

\* What the capacity says of the calls: no unit was given back twice, and all
\* but one for each wait are with a call that works.
CapacityAccounted ==
    process = "up" =>
        /\ capacity + Cardinality(Held) + Len(queue) <= limit
        /\ limit <= capacity + Cardinality(Working) + Len(queue) + waits

\* There is no free slot while somebody queues.
NoSlack == process = "up" /\ queue # <<>> => capacity + Len(queue) <= 0

Registry ==
    /\ Typed
    /\ EntriesLive
    /\ EntriesWait
    /\ QueueExact
    /\ DownIsEmpty
    /\ AbsentIsUnknown
    /\ FlagsByPhase
    /\ CreationIsAlone
    /\ OneRunPerExecution
    /\ WaitingIsIdle
    /\ SavedIsOver
    /\ OrphansWait

ControlInv == Registry /\ CapacityAccounted /\ NoSlack
-----------------------------------------------------------------------------
\* What the proofs use of the constants and of calls.
LEMMA CallFacts ==
    /\ None \notin Calls
    /\ \A c \in Calls : ExecutionOf(c) \in Executions
    /\ \A e \in Executions : <<e, 1>> \in Calls /\ ExecutionOf(<<e, 1>>) = e
    /\ \A S \in SUBSET Calls : IsFiniteSet(S) /\ Cardinality(S) \in Nat
    /\ \A l \in Limits : l \in Nat /\ l > 0
<1>1. MaxExecutions \in Nat /\ Limits \subseteq Nat \ {0} /\ None \notin Calls
  BY ExecutionAssumption
<1>2. IsFiniteSet(Executions)
  BY <1>1, FS_Interval DEF Executions
<1>3. IsFiniteSet({1, 2})
  <2>1. IsFiniteSet({} \cup {1})
    BY FS_EmptySet, FS_AddElement
  <2>2. IsFiniteSet(({} \cup {1}) \cup {2})
    BY <2>1, FS_AddElement
  <2>3. {1, 2} = ({} \cup {1}) \cup {2}
    OBVIOUS
  <2> QED BY <2>2, <2>3
<1>4. IsFiniteSet(Calls)
  BY <1>2, <1>3, FS_Product DEF Calls
<1>5. \A S \in SUBSET Calls : IsFiniteSet(S) /\ Cardinality(S) \in Nat
  BY <1>4, FS_Subset, FS_CardinalityType
<1>6. \A c \in Calls : ExecutionOf(c) \in Executions
  BY DEF Calls, ExecutionOf
<1>7. \A e \in Executions : <<e, 1>> \in Calls /\ ExecutionOf(<<e, 1>>) = e
  BY DEF Calls, ExecutionOf
<1> QED BY <1>1, <1>5, <1>6, <1>7

\* The calls a new process and an idle call start with are calls.
LEMMA CallTypes ==
    /\ NoCall \in Call
    /\ \A kind \in {"create", "resume"} : Arriving(kind) \in Call
BY DEF NoCall, Arriving, Call, Phases

\* A queue without one of its elements.
LEMMA WithoutElement ==
    ASSUME NEW q \in Seq(Calls), NEW i \in 1..Len(q),
           NEW r, r = SubSeq(q, 1, i - 1) \o SubSeq(q, i + 1, Len(q))
    PROVE  /\ r \in Seq(Calls)
           /\ Len(r) = Len(q) - 1
           /\ \A j \in 1..Len(r) : r[j] = IF j < i THEN q[j] ELSE q[j + 1]
<1> DEFINE a == SubSeq(q, 1, i - 1)
           b == SubSeq(q, i + 1, Len(q))
<1>0. Len(q) \in Nat /\ i \in Nat /\ 1 <= i /\ i <= Len(q)
  OBVIOUS
<1>1. /\ a \in Seq(Calls) /\ Len(a) = i - 1
      /\ \A j \in 1..(i - 1) : a[j] = q[j]
  BY <1>0, SubSeqProperties
<1>2. /\ b \in Seq(Calls) /\ Len(b) = Len(q) - i
      /\ \A j \in 1..(Len(q) - i) : b[j] = q[i + j]
  BY <1>0, SubSeqProperties
<1>3. /\ a \o b \in Seq(Calls)
      /\ Len(a \o b) = Len(a) + Len(b)
      /\ \A j \in 1..(Len(a) + Len(b)) :
            (a \o b)[j] = IF j <= Len(a) THEN a[j] ELSE b[j - Len(a)]
  BY <1>1, <1>2, ConcatProperties
<1> HIDE DEF a, b
<1>4. Len(a \o b) = Len(q) - 1
  BY <1>0, <1>1, <1>2, <1>3
<1>5. ASSUME NEW j \in 1..Len(a \o b)
      PROVE  (a \o b)[j] = IF j < i THEN q[j] ELSE q[j + 1]
  <2>1. CASE j < i
    BY <2>1, <1>0, <1>1, <1>3, <1>4, <1>5
  <2>2. CASE ~ (j < i)
    <3>1. j - (i - 1) \in 1..(Len(q) - i) /\ i + (j - (i - 1)) = j + 1
      BY <2>2, <1>0, <1>4, <1>5
    <3>2. (a \o b)[j] = b[j - (i - 1)]
      BY <2>2, <1>0, <1>1, <1>2, <1>3, <1>4, <1>5
    <3> QED BY <2>2, <3>1, <3>2, <1>2
  <2> QED BY <2>1, <2>2
<1> QED BY <1>3, <1>4, <1>5 DEF a, b

-----------------------------------------------------------------------------
(* Steps that give capacity back, and what they leave alone.               *)

\* What the flags and the phase of a call may become when capacity comes back:
\* it goes on, perhaps without its capacity; it is over; or it is let through.
GoesOn(d) ==
    /\ calls'[d].kind = calls[d].kind
    /\ calls'[d].phase = calls[d].phase
    /\ calls'[d].attached = calls[d].attached
    /\ calls'[d].waiting = calls[d].waiting
    /\ calls'[d].reserved => calls[d].reserved
Over(d) == calls'[d] = NoCall
LetThrough(d) ==
    /\ process = "up"
    /\ calls[d].phase = "queued"
    /\ calls'[d] = [calls[d] EXCEPT !.phase = "admitted", !.reserved = TRUE]

\* An entry stays, goes, or goes on without a promise while it waits.
EntryShrinks(e) ==
    \/ active'[e] = active[e]
    \/ active'[e] = NoEntry
    \/ active[e].status = "waiting" /\ active'[e] = [active[e] EXCEPT !.call = None]

\* A row stays as it is, or the execution is canceled.
RowSettles(e) ==
    status'[e] = status[e] \/ (status[e] # "absent" /\ status'[e] = "canceled")

\* The step takes nothing away from calls and entries that others rely on.
GivingBack ==
    /\ process # "down"
    /\ process' = process
    /\ timers' \in SUBSET timers
    /\ polled' = polled
    /\ \A d \in Calls : GoesOn(d) \/ Over(d) \/ LetThrough(d)
    /\ \A e \in Executions : EntryShrinks(e) /\ RowSettles(e)
    /\ \A d \in Calls :
          /\ active'[ExecutionOf(d)].call = d => ~ Over(d)
          /\ /\ process = "up"
             /\ active[ExecutionOf(d)].call = d
             /\ active'[ExecutionOf(d)].call # d
             /\ calls'[d].reserved
             => calls[d].waiting

\* A step that only gives back keeps what calls, entries and rows say of each other.
LEMMA GivingBackKeepsRegistry ==
    ASSUME Registry, GivingBack, Typed', QueueExact'
    PROVE  Registry'
<1> USE CallFacts
<1> DEFINE Gone(d) == /\ calls'[d].phase = "none"
                      /\ ~ calls'[d].reserved
                      /\ ~ calls'[d].waiting
           Through(d) == /\ calls[d].phase = "queued"
                         /\ calls'[d].phase = "admitted"
                         /\ calls'[d].kind = calls[d].kind
                         /\ calls'[d].waiting = calls[d].waiting
           Kept(e) == active'[e] = active[e]
           Left(e) == active'[e].call = None /\ active'[e].status = "absent"
           WaitsOn(e) == /\ active[e].status = "waiting"
                        /\ active'[e].call = None
                        /\ active'[e].status = "waiting"
<1>1. \A d \in Calls : GoesOn(d) \/ Gone(d) \/ Through(d)
  <2> SUFFICES ASSUME NEW d \in Calls
               PROVE  GoesOn(d) \/ Gone(d) \/ Through(d)
    OBVIOUS
  <2>1. CASE Over(d)
    BY <2>1 DEF Over, NoCall, Arriving
  <2>2. CASE LetThrough(d)
    <3>1. calls[d] \in Call
      BY DEF Registry, Typed
    <3> QED BY <2>2, <3>1 DEF LetThrough, Call
  <2> QED BY <2>1, <2>2 DEF GivingBack
<1>2. \A e \in Executions : Kept(e) \/ Left(e) \/ WaitsOn(e)
  <2> SUFFICES ASSUME NEW e \in Executions
               PROVE  Kept(e) \/ Left(e) \/ WaitsOn(e)
    OBVIOUS
  <2>1. EntryShrinks(e)
    BY DEF GivingBack
  <2>2. CASE active'[e] = NoEntry
    BY <2>2 DEF NoEntry
  <2>3. CASE active[e].status = "waiting" /\ active'[e] = [active[e] EXCEPT !.call = None]
    <3>1. active[e] \in [call : Calls \cup {None},
                         status : {"absent", "running", "waiting"}]
      BY DEF Registry, Typed
    <3> QED BY <2>3, <3>1
  <2> QED BY <2>1, <2>2, <2>3 DEF EntryShrinks
<1>3. \A d \in Calls : active'[ExecutionOf(d)].call = d =>
          /\ active[ExecutionOf(d)] = active'[ExecutionOf(d)]
          /\ GoesOn(d)
  <2> SUFFICES ASSUME NEW d \in Calls, active'[ExecutionOf(d)].call = d
               PROVE  /\ active[ExecutionOf(d)] = active'[ExecutionOf(d)]
                      /\ GoesOn(d)
    OBVIOUS
  <2>1. active'[ExecutionOf(d)] = active[ExecutionOf(d)]
    BY <1>2
  <2>2. calls[d].phase # "queued"
    BY <2>1 DEF Registry, EntriesLive, Listable
  <2> QED BY <2>1, <2>2 DEF GivingBack, LetThrough
<1>4. \A e \in Executions : RowSettles(e)
  BY DEF GivingBack
<1> HIDE DEF Gone, Through, Kept, Left, WaitsOn
<1>5. EntriesLive'
  <2> SUFFICES ASSUME NEW e \in Executions
               PROVE  /\ active'[e].status = "absent" => active'[e].call = None
                      /\ active'[e].status = "running" => active'[e].call # None
                      /\ active'[e].call # None =>
                            /\ ExecutionOf(active'[e].call) = e
                            /\ calls'[active'[e].call].phase \in Listable
    BY DEF EntriesLive
  <2>1. CASE Kept(e)
    <3>1. active'[e].call \in Calls \cup {None}
      BY DEF Typed
    <3> QED BY <2>1, <3>1, <1>3 DEF Registry, EntriesLive, Kept, GoesOn
  <2> QED BY <2>1, <1>2 DEF Left, WaitsOn
<1>6. EntriesWait'
  <2> SUFFICES ASSUME NEW e \in Executions,
                      active'[e].status = "waiting", active'[e].call # None
               PROVE  calls'[active'[e].call].waiting
    BY DEF EntriesWait
  <2>1. active'[e] = active[e] /\ active'[e].call \in Calls
    BY <1>2 DEF Kept, Left, WaitsOn, Typed
  <2>2. ExecutionOf(active'[e].call) = e
    BY <1>5 DEF EntriesLive
  <2> QED BY <2>1, <2>2, <1>3 DEF Registry, EntriesWait, GoesOn
<1>7. DownIsEmpty'
  BY DEF GivingBack, DownIsEmpty
<1>8. AbsentIsUnknown'
  BY <1>1, <1>4 DEF Registry, GivingBack, AbsentIsUnknown, RowSettles, GoesOn, Gone,
                    Through
<1>9. FlagsByPhase'
  BY <1>1, <1>3 DEF Registry, FlagsByPhase, GoesOn, Gone, Through
<1>10. CreationIsAlone'
  BY <1>1, <1>4 DEF Registry, GivingBack, CreationIsAlone, RowSettles, GoesOn, Gone,
                    Through, Before, Siblings
<1>11. OneRunPerExecution'
  BY <1>1 DEF Registry, OneRunPerExecution, GoesOn, Gone, Through
<1>12. WaitingIsIdle'
  BY <1>1, <1>4 DEF Registry, WaitingIsIdle, RowSettles, GoesOn, Gone, Through, Runs
<1>13. SavedIsOver'
  BY <1>1, <1>4 DEF Registry, SavedIsOver, RowSettles, GoesOn, Gone, Through, Runs,
                    Siblings
<1>14. OrphansWait'
  <2> SUFFICES ASSUME process' = "up", NEW d \in Calls, calls'[d].reserved,
                      calls'[d].phase \in Listable,
                      active'[ExecutionOf(d)].call # d
               PROVE  calls'[d].waiting
    BY DEF OrphansWait
  <2>1. GoesOn(d)
    BY <1>1 DEF Gone, Through, Listable
  <2> QED BY <2>1 DEF Registry, OrphansWait, GivingBack, GoesOn
<1> QED
  BY <1>5, <1>6, <1>7, <1>8, <1>9, <1>10, <1>11, <1>12, <1>13, <1>14 DEF Registry

-----------------------------------------------------------------------------
(* Where capacity goes that comes back.                                    *)

HeldIn(cs) == {c \in Calls : cs[c].reserved}
WorkingIn(cs) == {c \in Calls : cs[c].reserved /\ ~ cs[c].waiting}

\* The queue q holds the calls that cs has as queued, unchanged.
Queues(q, cs) ==
    /\ \A i, j \in 1..Len(q) : q[i] = q[j] => i = j
    /\ \A c \in Calls : cs[c].phase = "queued" <=> \E i \in 1..Len(q) : q[i] = c
    /\ \A c \in Calls : cs[c].phase = "queued" => cs[c] = calls[c]

\* A unit that comes back stays in the capacity or goes to the next in the
\* queue: it is counted once.
LEMMA ResolveNextStep ==
    ASSUME Registry, process = "up",
           NEW q \in Seq(Calls), NEW cs \in [Calls -> Call],
           ResolveNext(q, cs), Queues(q, cs)
    PROVE  /\ capacity' \in Int
           /\ queue' \in Seq(Calls)
           /\ calls' \in [Calls -> Call]
           /\ QueueExact'
           /\ \A c \in Calls : calls'[c] = cs[c] \/ LetThrough(c)
           /\ capacity' + Cardinality(Held') + Len(queue')
                = capacity + 1 + Cardinality(HeldIn(cs)) + Len(q)
           /\ capacity' + Cardinality(Working') + Len(queue')
                = capacity + 1 + Cardinality(WorkingIn(cs)) + Len(q)
           /\ (q # <<>> => capacity + Len(q) <= 0)
                => (queue' # <<>> => capacity' + Len(queue') <= 0)
<1> USE CallFacts
<1>0. capacity \in Int /\ capacity' = capacity + 1
  BY DEF Registry, Typed, ResolveNext
<1>1. CASE q = <<>>
  <2>1. queue' = q /\ calls' = cs
    BY <1>1 DEF ResolveNext
  <2>2. QueueExact'
    BY <2>1 DEF QueueExact, Queues
  <2>3. Held' = HeldIn(cs) /\ Working' = WorkingIn(cs)
    BY <2>1 DEF Held, Working, HeldIn, WorkingIn
  <2>4. Cardinality(Held') \in Nat /\ Cardinality(Working') \in Nat
    BY DEF Held, Working
  <2> QED BY <1>0, <1>1, <2>1, <2>2, <2>3, <2>4
<1>2. CASE q # <<>>
  <2> DEFINE h == Head(q)
  <2>1. /\ queue' = Tail(q)
        /\ calls' = [cs EXCEPT ![h].phase = "admitted", ![h].reserved = TRUE]
    BY <1>2 DEF ResolveNext
  <2>2. /\ Len(q) \in Nat /\ Len(q) >= 1
        /\ h = q[1] /\ h \in Calls
        /\ queue' \in Seq(Calls) /\ Len(queue') = Len(q) - 1
        /\ \A i \in 1..Len(queue') : queue'[i] = q[i + 1]
    BY <1>2, <2>1, HeadTailProperties
  <2>3. cs[h].phase = "queued" /\ cs[h] = calls[h]
    BY <2>2 DEF Queues
  <2>4. ~ cs[h].reserved /\ ~ cs[h].waiting
    BY <2>2, <2>3 DEF Registry, FlagsByPhase
  <2>5. /\ calls' \in [Calls -> Call]
        /\ calls'[h] = [cs[h] EXCEPT !.phase = "admitted", !.reserved = TRUE]
        /\ \A c \in Calls : c # h => calls'[c] = cs[c]
    <3>1. [cs[h] EXCEPT !.phase = "admitted", !.reserved = TRUE] \in Call
      <4>1. cs[h] \in Call
        BY <2>2
      <4> QED BY <4>1 DEF Call, Phases
    <3> QED BY <2>1, <2>2, <3>1
  <2>6. /\ calls'[h].phase = "admitted" /\ calls'[h].reserved
        /\ calls'[h].waiting = cs[h].waiting
    BY <2>2, <2>5 DEF Call
  <2> HIDE DEF h
  <2>7. \A c \in Calls : calls'[c] = cs[c] \/ LetThrough(c)
    BY <2>3, <2>5 DEF LetThrough
  <2>8. QueueExact'
    <3>1. \A i, j \in 1..Len(queue') : queue'[i] = queue'[j] => i = j
      BY <2>2 DEF Queues
    <3>2. ASSUME NEW c \in Calls
          PROVE  calls'[c].phase = "queued"
                   <=> \E i \in 1..Len(queue') : queue'[i] = c
      <4>1. CASE c = h
        <5>1. \A i \in 1..Len(queue') : queue'[i] # h
          BY <2>2 DEF Queues
        <5> QED BY <4>1, <5>1, <2>6
      <4>2. CASE c # h
        <5>1. calls'[c].phase = "queued" <=> \E i \in 1..Len(q) : q[i] = c
          BY <4>2, <2>5 DEF Queues
        <5>2. ASSUME NEW i \in 1..Len(q), q[i] = c
              PROVE  i - 1 \in 1..Len(queue') /\ queue'[i - 1] = c
          BY <4>2, <5>2, <2>2
        <5>3. ASSUME NEW i \in 1..Len(queue'), queue'[i] = c
              PROVE  i + 1 \in 1..Len(q) /\ q[i + 1] = c
          BY <5>3, <2>2
        <5> QED BY <5>1, <5>2, <5>3
      <4> QED BY <4>1, <4>2
    <3> QED BY <3>1, <3>2 DEF QueueExact
  <2>9. /\ Held' = HeldIn(cs) \cup {h} /\ h \notin HeldIn(cs)
        /\ Working' = WorkingIn(cs) \cup {h} /\ h \notin WorkingIn(cs)
    <3>1. \A c \in Calls :
             /\ calls'[c].reserved <=> cs[c].reserved \/ c = h
             /\ calls'[c].reserved /\ ~ calls'[c].waiting
                  <=> (cs[c].reserved /\ ~ cs[c].waiting) \/ c = h
      BY <2>4, <2>5, <2>6
    <3> QED BY <2>2, <2>4, <3>1 DEF Held, Working, HeldIn, WorkingIn
  <2>10. /\ HeldIn(cs) \in SUBSET Calls /\ WorkingIn(cs) \in SUBSET Calls
    BY DEF HeldIn, WorkingIn
  <2>11. /\ Cardinality(Held') = Cardinality(HeldIn(cs)) + 1
         /\ Cardinality(Working') = Cardinality(WorkingIn(cs)) + 1
         /\ Cardinality(HeldIn(cs)) \in Nat /\ Cardinality(WorkingIn(cs)) \in Nat
    BY <2>9, <2>10, FS_AddElement
  <2>12. capacity' + Len(queue') = capacity + Len(q)
    BY <1>0, <2>2
  <2>13. capacity' + Cardinality(Held') + Len(queue')
               = capacity + 1 + Cardinality(HeldIn(cs)) + Len(q)
    BY <1>0, <2>2, <2>11
  <2>14. capacity' + Cardinality(Working') + Len(queue')
               = capacity + 1 + Cardinality(WorkingIn(cs)) + Len(q)
    BY <1>0, <2>2, <2>11
  <2> QED BY <1>0, <1>2, <2>2, <2>5, <2>7, <2>8, <2>12, <2>13, <2>14
<1> QED BY <1>1, <1>2

\* What a step makes of a call before its capacity comes back.
EndsIn(c, cs) == calls[c].phase # "queued" /\ cs[c] = NoCall
StaysIn(c, cs) ==
    /\ cs[c].kind = calls[c].kind
    /\ cs[c].phase = calls[c].phase
    /\ cs[c].attached = calls[c].attached
    /\ cs[c].waiting = calls[c].waiting
    /\ cs[c].reserved = calls[c].reserved
    /\ calls[c].phase = "queued" => cs[c] = calls[c]

\* Capacity is given back by the one call that holds a promise.  Others that end
\* with it hold none, or have put their execution to wait.
LEMMA ReleaseStep ==
    ASSUME Registry, CapacityAccounted, NoSlack,
           limit' = limit, waits' = waits, process' = process,
           NEW holder \in SUBSET Calls, NEW cs \in [Calls -> Call],
           Release(holder, cs),
           \A c, d \in holder : c = d,
           \A c \in holder : calls[c].phase # "queued",
           \A c \in Calls : EndsIn(c, cs) \/ StaysIn(c, cs),
           process = "up" =>
               \A c \in Working : ~ cs[c].reserved => c \in holder
    PROVE  /\ capacity' \in Int
           /\ queue' \in Seq(Calls)
           /\ calls' \in [Calls -> Call]
           /\ QueueExact'
           /\ \A c \in Calls : GoesOn(c) \/ Over(c) \/ LetThrough(c)
           /\ \A c \in Calls : Over(c) => cs[c].phase = "none"
           /\ \A c \in holder : ~ calls'[c].reserved
           /\ CapacityAccounted'
           /\ NoSlack'
<1> USE CallFacts
<1> DEFINE rest == [c \in Calls |->
                      IF c \in holder THEN [cs[c] EXCEPT !.reserved = FALSE]
                                      ELSE cs[c]]
           returned == {c \in holder : calls[c].reserved}
<1>1. IF process = "up" /\ returned # {}
      THEN ResolveNext(queue, rest)
      ELSE calls' = rest /\ UNCHANGED <<capacity, queue>>
  BY DEF Release
<1>2. /\ rest \in [Calls -> Call]
      /\ \A c \in Calls :
            /\ rest[c].kind = cs[c].kind
            /\ rest[c].phase = cs[c].phase
            /\ rest[c].attached = cs[c].attached
            /\ rest[c].waiting = cs[c].waiting
            /\ rest[c].reserved <=> cs[c].reserved /\ c \notin holder
            /\ c \notin holder => rest[c] = cs[c]
  <2> SUFFICES ASSUME NEW c \in Calls
               PROVE  /\ rest[c] \in Call
                      /\ rest[c].kind = cs[c].kind
                      /\ rest[c].phase = cs[c].phase
                      /\ rest[c].attached = cs[c].attached
                      /\ rest[c].waiting = cs[c].waiting
                      /\ rest[c].reserved <=> cs[c].reserved /\ c \notin holder
                      /\ c \notin holder => rest[c] = cs[c]
    OBVIOUS
  <2>1. cs[c] \in Call
    OBVIOUS
  <2> QED BY <2>1 DEF Call
<1>3. \A c \in Calls : cs[c] = NoCall => rest[c] = NoCall
  BY DEF NoCall, Arriving
<1> HIDE DEF rest
<1>4. \A c \in Calls :
         /\ rest[c].phase = "queued" <=> calls[c].phase = "queued"
         /\ calls[c].phase = "queued" => rest[c] = calls[c]
         /\ rest[c].reserved => calls[c].reserved /\ c \notin holder
         /\ rest[c].reserved => rest[c].waiting = calls[c].waiting
         /\ rest[c] = NoCall \/ StaysIn(c, cs)
  <2> SUFFICES ASSUME NEW c \in Calls
               PROVE  /\ rest[c].phase = "queued" <=> calls[c].phase = "queued"
                      /\ calls[c].phase = "queued" => rest[c] = calls[c]
                      /\ rest[c].reserved => calls[c].reserved /\ c \notin holder
                      /\ rest[c].reserved => rest[c].waiting = calls[c].waiting
                      /\ rest[c] = NoCall \/ StaysIn(c, cs)
    OBVIOUS
  <2>1. CASE EndsIn(c, cs)
    <3>1. rest[c] = NoCall
      BY <2>1, <1>3 DEF EndsIn
    <3> QED BY <2>1, <3>1 DEF EndsIn, NoCall, Arriving
  <2>2. CASE StaysIn(c, cs)
    BY <2>2, <1>2 DEF StaysIn
  <2> QED BY <2>1, <2>2
<1>5. \A c \in Calls : rest[c] = NoCall
         \/ /\ rest[c].kind = calls[c].kind
            /\ rest[c].phase = calls[c].phase
            /\ rest[c].attached = calls[c].attached
            /\ rest[c].waiting = calls[c].waiting
            /\ rest[c].reserved => calls[c].reserved
  BY <1>2, <1>4 DEF StaysIn
<1>6. Queues(queue, rest)
  BY <1>4 DEF Registry, QueueExact, Queues
<1>7. queue \in Seq(Calls) /\ capacity \in Int /\ waits \in Nat /\ limit \in Nat
  BY DEF Registry, Typed
<1>8. /\ HeldIn(rest) \in SUBSET Held
      /\ WorkingIn(rest) \in SUBSET Working
      /\ Held \in SUBSET Calls /\ Working \in SUBSET Calls
      /\ HeldIn(rest) \cap holder = {} /\ WorkingIn(rest) \cap holder = {}
  BY <1>4 DEF HeldIn, WorkingIn, Held, Working
<1>9. process = "up" => Working \subseteq WorkingIn(rest) \cup returned
  BY <1>2, <1>4 DEF WorkingIn, Working
<1>10. CASE process = "up" /\ returned # {}
  <2>1. ResolveNext(queue, rest)
    BY <1>1, <1>10
  <2>2. PICK h \in holder : calls[h].reserved
    BY <1>10
  <2>3. h \in Held /\ h \notin HeldIn(rest) /\ returned = {h}
    BY <2>2, <1>8 DEF Held
  <2> HIDE DEF returned
  <2>4. HeldIn(rest) \in SUBSET (Held \ {h})
    BY <2>3, <1>8
  <2>5. Cardinality(HeldIn(rest)) + 1 <= Cardinality(Held)
    <3>1. Cardinality(Held \ {h}) = Cardinality(Held) - 1
      BY <2>3, <1>8, FS_RemoveElement
    <3>2. Cardinality(HeldIn(rest)) <= Cardinality(Held \ {h})
      BY <2>4, <1>8, FS_Subset
    <3>3. /\ Cardinality(Held) \in Nat /\ Cardinality(HeldIn(rest)) \in Nat
      BY <1>8, <2>4
    <3> QED BY <3>1, <3>2, <3>3
  <2>6. Cardinality(Working) <= Cardinality(WorkingIn(rest)) + 1
    <3>1. WorkingIn(rest) \cup {h} \in SUBSET Calls
      BY <2>2, <1>8
    <3>2. Working \in SUBSET (WorkingIn(rest) \cup {h})
      BY <1>9, <1>10, <2>3
    <3>3. Cardinality(WorkingIn(rest) \cup {h}) <= Cardinality(WorkingIn(rest)) + 1
      BY <3>1, <1>8, FS_AddElement
    <3>4. Cardinality(Working) <= Cardinality(WorkingIn(rest) \cup {h})
      BY <3>1, <3>2, FS_Subset
    <3>5. /\ Cardinality(Working) \in Nat /\ Cardinality(WorkingIn(rest)) \in Nat
          /\ Cardinality(WorkingIn(rest) \cup {h}) \in Nat
      BY <3>1, <1>8
    <3> QED BY <3>3, <3>4, <3>5
  <2>7. /\ capacity' \in Int
        /\ queue' \in Seq(Calls)
        /\ calls' \in [Calls -> Call]
        /\ QueueExact'
        /\ \A c \in Calls : calls'[c] = rest[c] \/ LetThrough(c)
        /\ capacity' + Cardinality(Held') + Len(queue')
             = capacity + 1 + Cardinality(HeldIn(rest)) + Len(queue)
        /\ capacity' + Cardinality(Working') + Len(queue')
             = capacity + 1 + Cardinality(WorkingIn(rest)) + Len(queue)
        /\ (queue # <<>> => capacity + Len(queue) <= 0)
             => (queue' # <<>> => capacity' + Len(queue') <= 0)
    BY <2>1, <1>2, <1>6, <1>7, <1>10, ResolveNextStep
  <2>8. \A c \in Calls : GoesOn(c) \/ Over(c) \/ LetThrough(c)
    BY <2>7, <1>5 DEF GoesOn, Over
  <2>9. \A c \in Calls : Over(c) => cs[c].phase = "none"
    <3> SUFFICES ASSUME NEW c \in Calls, Over(c)
                 PROVE  cs[c].phase = "none"
      OBVIOUS
    <3>1. calls'[c].phase = "none"
      BY DEF Over, NoCall, Arriving
    <3>2. ~ LetThrough(c)
      <4>1. calls[c] \in Call
        BY DEF Registry, Typed
      <4> QED BY <3>1, <4>1 DEF LetThrough, Call
    <3> QED BY <3>1, <3>2, <2>7, <1>2
  <2>10. \A c \in holder : ~ calls'[c].reserved
    BY <2>7, <1>2 DEF LetThrough
  <2>11. CapacityAccounted'
    <3>1. /\ capacity + Cardinality(Held) + Len(queue) <= limit
          /\ limit <= capacity + Cardinality(Working) + Len(queue) + waits
      BY <1>10 DEF CapacityAccounted
    <3>2. /\ Cardinality(Held) \in Nat /\ Cardinality(HeldIn(rest)) \in Nat
          /\ Cardinality(Working) \in Nat /\ Cardinality(WorkingIn(rest)) \in Nat
          /\ Len(queue) \in Nat
      BY <1>7, <1>8, <2>4
    <3> HIDE CallFacts
    <3>3. capacity + 1 + Cardinality(HeldIn(rest)) + Len(queue) <= limit
      BY <1>7, <2>5, <3>1, <3>2, SMTT(60)
    <3>4. limit <= capacity + 1 + Cardinality(WorkingIn(rest)) + Len(queue) + waits
      BY <1>7, <2>6, <3>1, <3>2, SMTT(60)
    <3> QED BY <3>3, <3>4, <2>7 DEF CapacityAccounted
  <2>12. NoSlack'
    BY <1>10, <2>7 DEF NoSlack
  <2> QED BY <2>7, <2>8, <2>9, <2>10, <2>11, <2>12
<1>11. CASE ~ (process = "up" /\ returned # {})
  <2>1. calls' = rest /\ capacity' = capacity /\ queue' = queue
    BY <1>1, <1>11
  <2>2. QueueExact'
    BY <2>1, <1>6 DEF QueueExact, Queues
  <2>3. \A c \in Calls : GoesOn(c) \/ Over(c)
    BY <2>1, <1>5 DEF GoesOn, Over
  <2>4. \A c \in Calls : Over(c) => cs[c].phase = "none"
    BY <2>1, <1>2 DEF Over, NoCall, Arriving
  <2>5. \A c \in holder : ~ calls'[c].reserved
    BY <2>1, <1>2
  <2>6. /\ Held' = HeldIn(rest) /\ Working' = WorkingIn(rest)
    BY <2>1 DEF Held, Working, HeldIn, WorkingIn
  <2>7. CapacityAccounted'
    <3> SUFFICES ASSUME process = "up"
                 PROVE  /\ capacity + Cardinality(HeldIn(rest)) + Len(queue) <= limit
                        /\ limit <= capacity + Cardinality(WorkingIn(rest))
                                      + Len(queue) + waits
      BY <2>1, <2>6 DEF CapacityAccounted
    <3>1. /\ capacity + Cardinality(Held) + Len(queue) <= limit
          /\ limit <= capacity + Cardinality(Working) + Len(queue) + waits
      BY DEF CapacityAccounted
    <3>2. returned = {}
      BY <1>11
    <3>3. WorkingIn(rest) = Working
      BY <3>2, <1>8, <1>9
    <3>4. Cardinality(HeldIn(rest)) <= Cardinality(Held)
      BY <1>8, FS_Subset
    <3>5. /\ Cardinality(Held) \in Nat /\ Cardinality(HeldIn(rest)) \in Nat
          /\ Len(queue) \in Nat
      BY <1>7, <1>8
    <3> QED BY <3>1, <3>3, <3>4, <3>5, <1>7
  <2>8. NoSlack'
    BY <2>1 DEF NoSlack
  <2> QED BY <1>2, <1>7, <2>1, <2>2, <2>3, <2>4, <2>5, <2>7, <2>8
<1> QED BY <1>10, <1>11

-----------------------------------------------------------------------------
(* The steps that give capacity back.                                      *)

\* What those steps have in common.
Settling ==
    /\ process # "down" /\ process' = process
    /\ limit' = limit /\ waits' = waits
    /\ requests' \in Nat /\ ends' \in Nat
    /\ timers' \in SUBSET timers /\ polled' = polled
    /\ status' \in [Executions -> Statuses]
    /\ \A e \in Executions : RowSettles(e)

\* The call an entry belongs to has been registered and has not ended.
LEMMA ListedIsLive ==
    ASSUME Registry, NEW c \in Calls, active[ExecutionOf(c)].call = c
    PROVE  calls[c].phase \in Listable
BY CallFacts DEF Registry, EntriesLive

\* When a promise is settled, the call it belongs to gives its capacity back, and no
\* other call that works loses its own (ActiveExecutions.add, stopExecution).
LEMMA SettleKeepsInv ==
    ASSUME ControlInv, Settling,
           NEW e \in Executions, NEW cs \in [Calls -> Call], Settle(e, cs),
           \A c \in Calls : StaysIn(c, cs) \/ (EndsIn(c, cs) /\ ExecutionOf(c) = e),
           process = "up" =>
               \A c \in Working : ~ cs[c].reserved => active[e].call = c
    PROVE  ControlInv'
<1> USE CallFacts
<1> DEFINE holder == {active[e].call} \ {None}
<1>1. active[e] \in [call : Calls \cup {None}, status : {"absent", "running", "waiting"}]
  BY DEF ControlInv, Registry, Typed
<1>2. /\ holder \in SUBSET Calls
      /\ \A c, d \in holder : c = d
      /\ \A c \in holder : calls[c].phase # "queued"
  BY <1>1 DEF ControlInv, Registry, EntriesLive, Listable
<1>3. Release(holder, cs)
  BY DEF Settle
<1>4. process = "up" => \A c \in Working : ~ cs[c].reserved => c \in holder
  BY DEF Working
<1> HIDE DEF holder
<1>5. /\ capacity' \in Int
      /\ queue' \in Seq(Calls)
      /\ calls' \in [Calls -> Call]
      /\ QueueExact'
      /\ \A c \in Calls : GoesOn(c) \/ Over(c) \/ LetThrough(c)
      /\ \A c \in Calls : Over(c) => cs[c].phase = "none"
      /\ \A c \in holder : ~ calls'[c].reserved
      /\ CapacityAccounted'
      /\ NoSlack'
  BY <1>2, <1>3, <1>4, ReleaseStep DEF ControlInv, Settling
<1>6. /\ \A f \in Executions : f # e => active'[f] = active[f]
      /\ active'[e] = IF active[e].status = "waiting"
                      THEN [active[e] EXCEPT !.call = None] ELSE NoEntry
      /\ active' \in [Executions -> [call : Calls \cup {None},
                                     status : {"absent", "running", "waiting"}]]
  <2>1. NoEntry \in [call : Calls \cup {None}, status : {"absent", "running", "waiting"}]
    BY DEF NoEntry
  <2>2. [active[e] EXCEPT !.call = None]
          \in [call : Calls \cup {None}, status : {"absent", "running", "waiting"}]
    BY <1>1
  <2> QED BY <2>1, <2>2 DEF Settle, ControlInv, Registry, Typed
<1>7. active'[e].call = None
  BY <1>1, <1>6 DEF NoEntry
<1>8. Typed'
  BY <1>5, <1>6 DEF Typed, ControlInv, Registry, Settling
<1>9. \A c \in Calls : active'[ExecutionOf(c)].call = c => ~ Over(c)
  <2> SUFFICES ASSUME NEW c \in Calls, active'[ExecutionOf(c)].call = c, Over(c)
               PROVE  FALSE
    OBVIOUS
  <2>1. ExecutionOf(c) # e
    BY <1>7
  <2>2. active[ExecutionOf(c)].call = c
    BY <1>6, <2>1
  <2>3. calls[c].phase \in Listable
    BY <2>2, ListedIsLive DEF ControlInv
  <2>4. cs[c].phase = "none" /\ cs[c].phase = calls[c].phase
    BY <1>5, <2>1 DEF StaysIn
  <2> QED BY <2>3, <2>4 DEF Listable
<1>10. \A c \in Calls :
          active[ExecutionOf(c)].call = c /\ active'[ExecutionOf(c)].call # c
          => ~ calls'[c].reserved
  BY <1>5, <1>6 DEF holder
<1>11. GivingBack
  BY <1>5, <1>6, <1>9, <1>10 DEF GivingBack, Settling, EntryShrinks
<1>12. Registry'
  BY <1>5, <1>8, <1>11, GivingBackKeepsRegistry DEF ControlInv
<1> QED BY <1>5, <1>12 DEF ControlInv

\* A call that ends, as those before the step see it.
LEMMA EndOfCall ==
    ASSUME Registry, NEW c \in Calls, calls[c].phase # "queued"
    PROVE  LET cs == [calls EXCEPT ![c] = NoCall]
           IN  /\ cs \in [Calls -> Call]
               /\ cs[c] = NoCall /\ EndsIn(c, cs)
               /\ \A d \in Calls : d # c => cs[d] = calls[d] /\ StaysIn(d, cs)
BY CallTypes DEF Registry, Typed, StaysIn, EndsIn

\* A refused resumption gives its capacity back (ActiveExecutions.add).
LEMMA RefuseKeepsInv ==
    ASSUME ControlInv, NEW c \in Calls, Refuse(c)
    PROVE  ControlInv'
<1> USE CallFacts
<1> DEFINE cs == [calls EXCEPT ![c] = NoCall]
<1>1. /\ calls[c].phase = "admitted"
      /\ Release({c}, cs)
      /\ UNCHANGED <<status, process, active, timers, polled, frame>>
  BY DEF Refuse, RefuseRelease
<1>2. /\ cs \in [Calls -> Call]
      /\ cs[c] = NoCall /\ EndsIn(c, cs)
      /\ \A d \in Calls : d # c => cs[d] = calls[d] /\ StaysIn(d, cs)
  BY <1>1, EndOfCall DEF ControlInv
<1> HIDE DEF cs
<1>3. \A d \in Calls : EndsIn(d, cs) \/ StaysIn(d, cs)
  BY <1>2
<1>4. \A d \in Working : ~ cs[d].reserved => d \in {c}
  BY <1>2 DEF Working
<1>5. /\ capacity' \in Int
      /\ queue' \in Seq(Calls)
      /\ calls' \in [Calls -> Call]
      /\ QueueExact'
      /\ \A d \in Calls : GoesOn(d) \/ Over(d) \/ LetThrough(d)
      /\ \A d \in Calls : Over(d) => cs[d].phase = "none"
      /\ CapacityAccounted'
      /\ NoSlack'
  <2>1. /\ Release({c}, cs) /\ {c} \in SUBSET Calls
        /\ limit' = limit /\ waits' = waits /\ process' = process
        /\ \A a, b \in {c} : a = b
        /\ \A a \in {c} : calls[a].phase # "queued"
    BY <1>1 DEF frame
  <2> HIDE CallFacts
  <2> QED BY <1>2, <1>3, <1>4, <2>1, ReleaseStep DEF ControlInv
<1>6. Typed'
  BY <1>1, <1>5 DEF Typed, ControlInv, Registry, frame
<1>7. \A d \in Calls : active[ExecutionOf(d)].call = d => ~ Over(d)
  <2> SUFFICES ASSUME NEW d \in Calls, active[ExecutionOf(d)].call = d, Over(d)
               PROVE  FALSE
    OBVIOUS
  <2>1. calls[d].phase \in Listable
    BY ListedIsLive DEF ControlInv
  <2> QED BY <2>1, <1>1, <1>2, <1>5 DEF Listable
<1>8. process # "down"
  BY <1>1 DEF ControlInv, Registry, DownIsEmpty, NoCall, Arriving
<1>9. GivingBack
  <2>1. /\ active' = active /\ status' = status /\ process' = process
        /\ timers' = timers /\ polled' = polled
    BY <1>1
  <2>2. \A d \in Calls : active'[ExecutionOf(d)].call = d => ~ Over(d)
    BY <1>7, <2>1
  <2>3. \A f \in Executions : EntryShrinks(f) /\ RowSettles(f)
    BY <2>1 DEF EntryShrinks, RowSettles
  <2> QED BY <1>5, <1>8, <2>1, <2>2, <2>3 DEF GivingBack
<1>10. Registry'
  BY <1>5, <1>6, <1>9, GivingBackKeepsRegistry DEF ControlInv
<1> QED BY <1>5, <1>10 DEF ControlInv

\* The end of a run settles the promise of the entry, its own or that of the run
\* that came after (finalizeExecution).
LEMMA FinalizeKeepsInv ==
    ASSUME ControlInv, NEW c \in Calls, FinalizeExecution(c)
    PROVE  ControlInv'
<1> USE CallFacts
<1> DEFINE e == ExecutionOf(c)
           cs == [calls EXCEPT ![c] = NoCall]
<1>1. /\ calls[c].phase = "saved"
      /\ UNCHANGED <<status, process, timers, polled, frame>>
      /\ IF active[e] = NoEntry
         THEN calls' = cs /\ UNCHANGED <<capacity, queue, active>>
         ELSE Settle(e, cs)
  BY DEF FinalizeExecution
<1>2. /\ cs \in [Calls -> Call]
      /\ cs[c] = NoCall /\ EndsIn(c, cs)
      /\ \A d \in Calls : d # c => cs[d] = calls[d] /\ StaysIn(d, cs)
  BY <1>1, EndOfCall DEF ControlInv
<1>3. process = "up" => (c \in Working => active[e].call = c)
  BY <1>1 DEF ControlInv, Registry, OrphansWait, Working, Listable
<1>4. e \in Executions
  OBVIOUS
<1>5. process # "down"
  BY <1>1 DEF ControlInv, Registry, DownIsEmpty, NoCall, Arriving
<1>6. Settling
  <2>1. /\ status' = status /\ process' = process
        /\ timers' = timers /\ polled' = polled
        /\ limit' = limit /\ waits' = waits /\ requests' = requests /\ ends' = ends
    BY <1>1 DEF frame
  <2>2. requests \in Nat /\ ends \in Nat /\ status \in [Executions -> Statuses]
    BY DEF ControlInv, Registry, Typed
  <2> QED BY <1>5, <2>1, <2>2 DEF Settling, RowSettles
<1> HIDE DEF cs
<1>7. CASE active[e] # NoEntry
  <2>1. process = "up" => \A d \in Working : ~ cs[d].reserved => active[e].call = d
    BY <1>2, <1>3 DEF Working
  <2>2. ASSUME NEW d \in Calls
        PROVE  StaysIn(d, cs) \/ (EndsIn(d, cs) /\ ExecutionOf(d) = e)
    <3>1. CASE d = c
      BY <1>2, <3>1
    <3>2. CASE d # c
      BY <1>2, <3>2
    <3> QED BY <3>1, <3>2
  <2> HIDE DEF e
  <2> QED BY <1>1, <1>2, <1>4, <1>6, <1>7, <2>1, <2>2, SettleKeepsInv
<1>8. CASE active[e] = NoEntry
  <2>1. /\ calls' = cs /\ active' = active /\ capacity' = capacity /\ queue' = queue
        /\ active[e].call = None
    BY <1>1, <1>8 DEF NoEntry
  <2>2. \A d \in Calls : GoesOn(d) \/ Over(d)
    BY <1>2, <2>1 DEF GoesOn, Over
  <2>3. \A d \in Calls : active[ExecutionOf(d)].call = d => ~ Over(d)
    <3> SUFFICES ASSUME NEW d \in Calls, active[ExecutionOf(d)].call = d, Over(d)
                 PROVE  FALSE
      OBVIOUS
    <3>1. calls[d].phase \in Listable
      BY ListedIsLive DEF ControlInv
    <3>2. d # c
      BY <2>1
    <3>3. calls[d] = NoCall
      BY <1>2, <2>1, <3>2 DEF Over
    <3> QED BY <3>1, <3>3 DEF Listable, NoCall, Arriving
  <2>4. QueueExact' /\ Typed'
    <3>1. Typed'
      BY <1>1, <1>2, <2>1 DEF ControlInv, Registry, Typed, frame
    <3>2. \A d \in Calls : calls'[d].phase = "queued" <=> calls[d].phase = "queued"
      BY <1>1, <1>2, <2>1 DEF NoCall, Arriving
    <3> QED BY <3>1, <3>2, <2>1 DEF ControlInv, Registry, QueueExact
  <2>5. GivingBack
    <3>1. /\ status' = status /\ process' = process
          /\ timers' = timers /\ polled' = polled
      BY <1>1
    <3>2. \A d \in Calls : active'[ExecutionOf(d)].call = d => ~ Over(d)
      BY <2>1, <2>3
    <3>3. \A f \in Executions : EntryShrinks(f) /\ RowSettles(f)
      BY <2>1, <3>1 DEF EntryShrinks, RowSettles
    <3> QED BY <1>5, <2>1, <2>2, <3>1, <3>2, <3>3 DEF GivingBack
  <2>6. Registry'
    BY <2>4, <2>5, GivingBackKeepsRegistry DEF ControlInv
  <2>7. /\ Held' \in SUBSET Held
        /\ process = "up" => Working' = Working
    BY <1>2, <1>3, <2>1 DEF Held, Working, NoCall, Arriving
  <2>8. CapacityAccounted' /\ NoSlack'
    <3>1. Cardinality(Held') <= Cardinality(Held)
      BY <2>7, FS_Subset DEF Held
    <3>2. Cardinality(Held) \in Nat /\ Cardinality(Held') \in Nat
      BY DEF Held
    <3>3. capacity \in Int /\ Len(queue) \in Nat /\ limit \in Nat
      BY DEF ControlInv, Registry, Typed
    <3>4. limit' = limit /\ waits' = waits /\ process' = process
      BY <1>1 DEF frame
    <3> QED BY <2>1, <2>7, <3>1, <3>2, <3>3, <3>4
            DEF ControlInv, CapacityAccounted, NoSlack
  <2> QED BY <2>6, <2>8 DEF ControlInv
<1> QED BY <1>7, <1>8

\* What a stop does to the entry of an execution.
LEMMA StopActiveKeepsInv ==
    ASSUME ControlInv, Settling, NEW e \in Executions, StopActive(e)
    PROVE  ControlInv'
<1> USE CallFacts
<1> DEFINE c == active[e].call
           cs == [calls EXCEPT ![c].cancelled = calls[c].attached]
<1>1. /\ active[e].status \in {"absent", "running", "waiting"}
      /\ c \in Calls \cup {None}
      /\ calls \in [Calls -> Call]
  BY DEF ControlInv, Registry, Typed
<1>2. CASE active[e].status = "running"
  <2>1. Settle(e, cs)
    BY <1>2 DEF StopActive
  <2>2. c \in Calls /\ calls[c].phase # "queued"
    BY <1>1, <1>2 DEF ControlInv, Registry, EntriesLive, Listable
  <2> HIDE DEF c
  <2>3. [calls[c] EXCEPT !.cancelled = calls[c].attached] \in Call
    <3>1. calls[c] \in Call
      BY <1>1, <2>2
    <3> QED BY <3>1 DEF Call
  <2>4. /\ cs \in [Calls -> Call]
        /\ cs[c] = [calls[c] EXCEPT !.cancelled = calls[c].attached]
        /\ \A d \in Calls : d # c => cs[d] = calls[d]
    BY <1>1, <2>2, <2>3
  <2> HIDE DEF cs
  <2>5. ASSUME NEW d \in Calls
        PROVE  StaysIn(d, cs)
    <3>1. CASE d # c
      BY <2>4, <3>1 DEF StaysIn
    <3>2. CASE d = c
      <4>1. calls[c] \in Call
        BY <1>1, <2>2
      <4> QED BY <2>2, <2>4, <3>2, <4>1 DEF StaysIn, Call
    <3> QED BY <3>1, <3>2
  <2>6. \A d \in Working : cs[d].reserved
    BY <2>5 DEF Working, StaysIn
  <2> QED BY <2>1, <2>4, <2>5, <2>6, SettleKeepsInv
<1>3. CASE active[e].status # "running"
  <2>1. /\ active' = [active EXCEPT ![e] = NoEntry]
        /\ calls' = calls /\ capacity' = capacity /\ queue' = queue
    BY <1>3 DEF StopActive
  <2>2. /\ \A f \in Executions : f # e => active'[f] = active[f]
        /\ active'[e] = NoEntry
        /\ active' \in [Executions -> [call : Calls \cup {None},
                                       status : {"absent", "running", "waiting"}]]
    <3>1. NoEntry \in [call : Calls \cup {None},
                       status : {"absent", "running", "waiting"}]
      BY DEF NoEntry
    <3> QED BY <2>1, <3>1 DEF ControlInv, Registry, Typed
  <2>3. Typed'
    BY <2>1, <2>2 DEF Typed, ControlInv, Registry, Settling
  <2>4. QueueExact'
    BY <2>1 DEF QueueExact, ControlInv, Registry
  <2>5. ASSUME NEW d \in Calls, active'[ExecutionOf(d)].call = d
        PROVE  ~ Over(d)
    <3>1. active[ExecutionOf(d)].call = d
      BY <2>2, <2>5 DEF NoEntry
    <3>2. calls[d].phase \in Listable
      BY <3>1, ListedIsLive DEF ControlInv
    <3> QED BY <2>1, <3>2 DEF Over, NoCall, Arriving, Listable
  <2>6. ASSUME NEW d \in Calls, active[ExecutionOf(d)].call = d,
               active'[ExecutionOf(d)].call # d
        PROVE  calls[d].waiting
    <3>1. ExecutionOf(d) = e
      BY <2>2, <2>6
    <3>2. active[e].status = "waiting"
      BY <1>1, <1>3, <2>6, <3>1 DEF ControlInv, Registry, EntriesLive
    <3> QED BY <2>6, <3>1, <3>2 DEF ControlInv, Registry, EntriesWait
  <2>7. \A d \in Calls : GoesOn(d)
    BY <2>1 DEF GoesOn
  <2>8. \A f \in Executions : EntryShrinks(f)
    BY <2>2 DEF EntryShrinks
  <2>9. GivingBack
    BY <2>5, <2>6, <2>7, <2>8 DEF GivingBack, Settling
  <2>10. Registry'
    BY <2>3, <2>4, <2>9, GivingBackKeepsRegistry DEF ControlInv
  <2>11. CapacityAccounted' /\ NoSlack'
    BY <2>1 DEF ControlInv, CapacityAccounted, NoSlack, Held, Working, Settling
  <2> QED BY <2>10, <2>11 DEF ControlInv
<1> QED BY <1>2, <1>3

\* A stop of an execution that is not in the queue keeps the invariant
\* (stopInRegularMode).
LEMMA StopDuringRunKeepsInv ==
    ASSUME ControlInv, NEW e \in Executions, Stop(e), StopDuringRun(e)
    PROVE  ControlInv'
<1>1. /\ status[e] \in {"new", "waiting", "running"} /\ process # "down"
      /\ StopActive(e)
      /\ timers' = timers \ {e}
      /\ status' = [status EXCEPT ![e] = "canceled"]
      /\ process' = process /\ polled' = polled
      /\ requests' = requests + 1 /\ limit' = limit /\ waits' = waits /\ ends' = ends
  BY DEF Stop, StopDuringRun, Stoppable, Requested
<1>2. requests \in Nat /\ ends \in Nat /\ status \in [Executions -> Statuses]
  BY DEF ControlInv, Registry, Typed
<1>3. \A f \in Executions : RowSettles(f)
  BY <1>1, <1>2 DEF RowSettles
<1>4. status' \in [Executions -> Statuses]
  BY <1>1, <1>2 DEF Statuses
<1>5. Settling
  BY <1>1, <1>2, <1>3, <1>4 DEF Settling
<1> QED BY <1>1, <1>5, StopActiveKeepsInv

\* A time-out stops whatever call the entry belongs to by now (runMainProcess).
LEMMA TimeOutKeepsInv ==
    ASSUME ControlInv, NEW c \in Calls, TimeOut(c)
    PROVE  ControlInv'
<1> USE CallFacts
<1> DEFINE e == ExecutionOf(c)
<1>1. /\ calls[c].phase \in {"executing", "saved"}
      /\ StopActive(e)
      /\ \/ status' = status
         \/ status' = [status EXCEPT ![e] = "canceled"]
      /\ process' = process /\ timers' = timers /\ polled' = polled
      /\ requests' = requests + 1 /\ limit' = limit /\ waits' = waits /\ ends' = ends
  BY DEF TimeOut, Requested
<1>2. requests \in Nat /\ ends \in Nat /\ status \in [Executions -> Statuses]
  BY DEF ControlInv, Registry, Typed
<1>3. status[e] # "absent" /\ process # "down"
  BY <1>1 DEF ControlInv, Registry, AbsentIsUnknown, DownIsEmpty, NoCall, Arriving
<1>4. \A f \in Executions : RowSettles(f)
  BY <1>1, <1>2, <1>3 DEF RowSettles
<1>5. status' \in [Executions -> Statuses]
  BY <1>1, <1>2 DEF Statuses
<1>6. Settling
  BY <1>1, <1>2, <1>3, <1>4, <1>5 DEF Settling
<1> HIDE DEF e
<1>7. e \in Executions
  BY DEF e
<1> QED BY <1>1, <1>6, <1>7, StopActiveKeepsInv

\* A stop of a queued execution lets another call through in its place
\* (ConcurrencyQueue.remove).
LEMMA StopQueuedKeepsInv ==
    ASSUME ControlInv, NEW e \in Executions, Stop(e), StopQueued(e)
    PROVE  ControlInv'
<1> USE CallFacts
<1>1. PICK i \in 1..Len(queue) : ExecutionOf(queue[i]) = e /\ Remove(i)
  BY DEF StopQueued, QueuedCalls
<1>2. /\ status[e] # "absent" /\ process = "up"
      /\ status' = [status EXCEPT ![e] = "canceled"]
      /\ process' = process /\ active' = active
      /\ timers' = timers /\ polled' = polled
      /\ requests' = requests + 1 /\ limit' = limit /\ waits' = waits /\ ends' = ends
  BY DEF Stop, StopQueued, Stoppable, Requested
<1> DEFINE c == queue[i]
           q == SubSeq(queue, 1, i - 1) \o SubSeq(queue, i + 1, Len(queue))
           cs == [calls EXCEPT ![c] = NoCall]
<1>3. /\ queue \in Seq(Calls) /\ Len(queue) \in Nat /\ c \in Calls
      /\ capacity \in Int /\ calls \in [Calls -> Call]
      /\ limit \in Nat /\ waits \in Nat
  BY DEF ControlInv, Registry, Typed
<1>4. ResolveNext(q, cs)
  BY <1>1 DEF Remove
<1>5. /\ q \in Seq(Calls)
      /\ Len(q) = Len(queue) - 1
      /\ \A j \in 1..Len(q) : q[j] = IF j < i THEN queue[j] ELSE queue[j + 1]
  <2>1. q = SubSeq(queue, 1, i - 1) \o SubSeq(queue, i + 1, Len(queue))
    OBVIOUS
  <2>2. queue \in Seq(Calls)
    BY <1>3
  <2> HIDE DEF q
  <2> HIDE CallFacts
  <2> QED BY <2>1, <2>2, WithoutElement
<1>6. /\ cs \in [Calls -> Call]
      /\ cs[c] = NoCall
      /\ \A d \in Calls : d # c => cs[d] = calls[d]
  BY <1>3, CallTypes
<1>7. calls[c].phase = "queued"
  BY <1>3 DEF ControlInv, Registry, QueueExact
<1>8. \A j, k \in 1..Len(queue) : queue[j] = queue[k] => j = k
  BY DEF ControlInv, Registry, QueueExact
<1> HIDE DEF c, q, cs
<1>9. Queues(q, cs)
  <2>1. ASSUME NEW j \in 1..Len(q), NEW k \in 1..Len(q), q[j] = q[k]
        PROVE  j = k
    <3> DEFINE at(m) == IF m < i THEN m ELSE m + 1
    <3>1. at(j) \in 1..Len(queue) /\ at(k) \in 1..Len(queue)
      BY <1>3, <1>5
    <3>2. queue[at(j)] = queue[at(k)]
      BY <1>5, <2>1
    <3>3. at(j) = at(k)
      BY <1>8, <3>1, <3>2
    <3> QED BY <3>3
  <2>2. ASSUME NEW d \in Calls
        PROVE  cs[d].phase = "queued" <=> \E j \in 1..Len(q) : q[j] = d
    <3>1. CASE d = c
      <4>1. ASSUME NEW j \in 1..Len(q)
            PROVE  q[j] # c
        <5> DEFINE at == IF j < i THEN j ELSE j + 1
        <5>1. at \in 1..Len(queue) /\ at # i /\ q[j] = queue[at]
          BY <1>3, <1>5
        <5> QED BY <5>1, <1>8 DEF c
      <4> QED BY <3>1, <4>1, <1>6 DEF NoCall, Arriving
    <3>2. CASE d # c
      <4>1. cs[d].phase = "queued" <=> \E j \in 1..Len(queue) : queue[j] = d
        BY <3>2, <1>6 DEF ControlInv, Registry, QueueExact
      <4>2. ASSUME NEW j \in 1..Len(queue), queue[j] = d
            PROVE  \E k \in 1..Len(q) : q[k] = d
        <5> DEFINE k == IF j < i THEN j ELSE j - 1
        <5>1. j # i
          BY <3>2, <4>2 DEF c
        <5>2. k \in 1..Len(q) /\ q[k] = d
          BY <5>1, <4>2, <1>3, <1>5
        <5> QED BY <5>2
      <4>3. ASSUME NEW j \in 1..Len(q), q[j] = d
            PROVE  \E k \in 1..Len(queue) : queue[k] = d
        <5> DEFINE k == IF j < i THEN j ELSE j + 1
        <5>1. k \in 1..Len(queue) /\ queue[k] = d
          BY <4>3, <1>3, <1>5
        <5> QED BY <5>1
      <4> QED BY <4>1, <4>2, <4>3
    <3> QED BY <3>1, <3>2
  <2>3. \A d \in Calls : cs[d].phase = "queued" => cs[d] = calls[d]
    BY <1>6 DEF NoCall, Arriving
  <2> QED BY <2>1, <2>2, <2>3 DEF Queues
<1>10. /\ capacity' \in Int
       /\ queue' \in Seq(Calls)
       /\ calls' \in [Calls -> Call]
       /\ QueueExact'
       /\ \A d \in Calls : calls'[d] = cs[d] \/ LetThrough(d)
       /\ capacity' + Cardinality(Held') + Len(queue')
            = capacity + 1 + Cardinality(HeldIn(cs)) + Len(q)
       /\ capacity' + Cardinality(Working') + Len(queue')
            = capacity + 1 + Cardinality(WorkingIn(cs)) + Len(q)
       /\ (q # <<>> => capacity + Len(q) <= 0)
            => (queue' # <<>> => capacity' + Len(queue') <= 0)
  BY <1>2, <1>4, <1>5, <1>6, <1>9, ResolveNextStep DEF ControlInv
<1>11. Typed'
  <2>1. status' \in [Executions -> Statuses]
    BY <1>2 DEF ControlInv, Registry, Typed, Statuses
  <2> QED BY <2>1, <1>2, <1>10 DEF Typed, ControlInv, Registry
<1>12. \A d \in Calls : GoesOn(d) \/ Over(d) \/ LetThrough(d)
  <2> SUFFICES ASSUME NEW d \in Calls, ~ LetThrough(d)
               PROVE  GoesOn(d) \/ Over(d)
    OBVIOUS
  <2>1. calls'[d] = cs[d]
    BY <1>10
  <2> QED BY <2>1, <1>6 DEF GoesOn, Over
<1>13. ASSUME NEW d \in Calls, active'[ExecutionOf(d)].call = d
       PROVE  ~ Over(d)
  <2>1. calls[d].phase \in Listable
    BY <1>2, <1>13, ListedIsLive DEF ControlInv
  <2>2. d # c /\ ~ LetThrough(d)
    BY <1>7, <2>1 DEF Listable, LetThrough
  <2>3. calls'[d] = calls[d]
    BY <1>6, <1>10, <2>2
  <2> QED BY <2>1, <2>3 DEF Over, NoCall, Arriving, Listable
<1>14. \A f \in Executions : EntryShrinks(f) /\ RowSettles(f)
  BY <1>2 DEF EntryShrinks, RowSettles, ControlInv, Registry, Typed
<1>15. GivingBack
  BY <1>2, <1>12, <1>13, <1>14 DEF GivingBack
<1>16. Registry'
  BY <1>10, <1>11, <1>15, GivingBackKeepsRegistry DEF ControlInv
<1>17. HeldIn(cs) = Held /\ WorkingIn(cs) = Working
  <2>1. ~ calls[c].reserved
    BY <1>3, <1>7 DEF ControlInv, Registry, FlagsByPhase, c
  <2>2. \A d \in Calls : /\ cs[d].reserved <=> calls[d].reserved
                         /\ cs[d].reserved => cs[d].waiting = calls[d].waiting
    BY <1>6, <2>1 DEF NoCall, Arriving
  <2> QED BY <2>2 DEF HeldIn, WorkingIn, Held, Working
<1>18. CapacityAccounted'
  <2>1. /\ capacity + Cardinality(Held) + Len(queue) <= limit
        /\ limit <= capacity + Cardinality(Working) + Len(queue) + waits
    BY <1>2 DEF ControlInv, CapacityAccounted
  <2>2. Cardinality(Held) \in Nat /\ Cardinality(Working) \in Nat
    BY DEF Held, Working
  <2>3. /\ capacity \in Int /\ limit \in Nat /\ waits \in Nat
        /\ Len(queue) \in Nat /\ Len(q) = Len(queue) - 1
    BY <1>3, <1>5
  <2> HIDE CallFacts
  <2>4. /\ capacity + 1 + Cardinality(Held) + Len(q) <= limit
        /\ limit <= capacity + 1 + Cardinality(Working) + Len(q) + waits
    BY <2>1, <2>2, <2>3, SMTT(60)
  <2> QED BY <2>4, <1>2, <1>10, <1>17 DEF CapacityAccounted
<1>19. NoSlack'
  <2>1. queue # <<>>
    BY <1>3
  <2>2. capacity + Len(queue) <= 0
    BY <2>1, <1>2 DEF ControlInv, NoSlack
  <2>3. capacity + Len(q) <= 0
    BY <2>2, <1>3, <1>5
  <2> QED BY <2>3, <1>10 DEF NoSlack
<1> QED BY <1>16, <1>18, <1>19 DEF ControlInv

-----------------------------------------------------------------------------
(* Steps of one call that leave capacity and queue alone.                  *)

\* The only call that changes stays out of the queue.  If it stops working with
\* its capacity, it has put its execution to wait, or does so now.
LEMMA CallStepKeepsCounts ==
    ASSUME ControlInv, NEW c \in Calls,
           process' = process, limit' = limit,
           capacity' = capacity, queue' = queue,
           \A d \in Calls : d # c => calls'[d] = calls[d],
           calls[c].phase # "queued", calls'[c].phase # "queued",
           calls'[c].reserved => calls[c].reserved,
           \/ /\ waits' = waits
              /\ process = "up" /\ c \in Working =>
                    calls'[c].reserved /\ ~ calls'[c].waiting
           \/ waits' = waits + 1
    PROVE  QueueExact' /\ CapacityAccounted' /\ NoSlack'
<1> USE CallFacts
<1>1. QueueExact'
  <2>1. \A d \in Calls : calls'[d].phase = "queued" <=> calls[d].phase = "queued"
    OBVIOUS
  <2> QED BY <2>1 DEF ControlInv, Registry, QueueExact
<1>2. NoSlack'
  BY DEF ControlInv, NoSlack
<1>3. Held' \in SUBSET Held /\ Held \in SUBSET Calls
  BY DEF Held
<1>4. Working \in SUBSET Calls /\ Working' \in SUBSET Calls
  BY DEF Working
<1>5. Working \in SUBSET (Working' \cup {c})
  BY DEF Working
<1>6. capacity \in Int /\ Len(queue) \in Nat /\ limit \in Nat /\ waits \in Nat
  BY DEF ControlInv, Registry, Typed
<1>7. CapacityAccounted'
  <2> SUFFICES ASSUME process = "up"
               PROVE  /\ capacity + Cardinality(Held') + Len(queue) <= limit
                      /\ limit <= capacity + Cardinality(Working') + Len(queue) + waits'
    BY DEF CapacityAccounted
  <2>1. /\ capacity + Cardinality(Held) + Len(queue) <= limit
        /\ limit <= capacity + Cardinality(Working) + Len(queue) + waits
    BY DEF ControlInv, CapacityAccounted
  <2>2. Cardinality(Held') <= Cardinality(Held)
    BY <1>3, FS_Subset
  <2>3. /\ Cardinality(Held) \in Nat /\ Cardinality(Held') \in Nat
        /\ Cardinality(Working) \in Nat /\ Cardinality(Working') \in Nat
    BY <1>3, <1>4
  <2>4. CASE waits' = waits + 1
    <3>1. Working' \cup {c} \in SUBSET Calls
      BY <1>4
    <3>2. Cardinality(Working) <= Cardinality(Working' \cup {c})
      BY <1>5, <3>1, FS_Subset
    <3>3. Cardinality(Working' \cup {c}) <= Cardinality(Working') + 1
      BY <1>4, FS_AddElement
    <3>4. Cardinality(Working' \cup {c}) \in Nat
      BY <3>1
    <3> HIDE CallFacts
    <3>5. Cardinality(Working) <= Cardinality(Working') + 1
      BY <2>3, <3>2, <3>3, <3>4
    <3>6. capacity + Cardinality(Held') + Len(queue) <= limit
      BY <1>6, <2>1, <2>2, <2>3, SMTT(60)
    <3>7. limit <= capacity + Cardinality(Working') + Len(queue) + waits'
      BY <1>6, <2>1, <2>3, <2>4, <3>5, SMTT(60)
    <3> QED BY <3>6, <3>7
  <2>5. CASE waits' = waits /\ (c \in Working => calls'[c].reserved /\ ~ calls'[c].waiting)
    <3>1. Working \in SUBSET Working'
      BY <1>5, <2>5 DEF Working
    <3>2. Cardinality(Working) <= Cardinality(Working')
      BY <1>4, <3>1, FS_Subset
    <3> HIDE CallFacts
    <3>3. capacity + Cardinality(Held') + Len(queue) <= limit
      BY <1>6, <2>1, <2>2, <2>3, SMTT(60)
    <3>4. limit <= capacity + Cardinality(Working') + Len(queue) + waits
      BY <1>6, <2>1, <2>3, <3>2, SMTT(60)
    <3>5. waits' = waits
      BY <2>5
    <3> QED BY <3>3, <3>4, <3>5
  <2> QED BY <2>4, <2>5
<1> QED BY <1>1, <1>2, <1>7

\* A call comes into being, or goes on, before it is registered.
Arrival(c) ==
    /\ process # "down"
    /\ process' = process
    /\ active' = active
    /\ timers' \in SUBSET timers
    /\ polled' = polled
    /\ \A d \in Calls : d # c => calls'[d] = calls[d]
    /\ calls[c].phase \in {"none", "arriving"}
    /\ calls'[c].phase \in Before
    /\ ~ calls'[c].waiting
    /\ calls'[c].reserved => calls'[c].phase = "admitted"
    /\ \A f \in Executions :
          \/ status'[f] = status[f]
          \/ status[f] = "absent" /\ status'[f] = "new"
    /\ status'[ExecutionOf(c)] # "absent"
    /\ \/ calls[c].phase = "arriving" /\ calls'[c].kind = calls[c].kind
       \/ status[ExecutionOf(c)] = "absent"
       \/ /\ calls'[c].kind = "resume"
          /\ \/ status[ExecutionOf(c)] = "waiting"
             \/ ExecutionOf(c) \in timers

\* An arrival keeps what calls, entries and rows say of each other.
LEMMA ArrivalKeepsRegistry ==
    ASSUME Registry, NEW c \in Calls, Arrival(c), Typed', QueueExact'
    PROVE  Registry'
<1> USE CallFacts
<1>1. \A d \in Calls : calls[d].phase \notin {"none", "arriving"} => calls'[d] = calls[d]
  BY DEF Arrival
<1>2. \A d \in Calls : calls'[d].phase \notin Before => calls'[d] = calls[d]
  BY DEF Arrival
<1>3. \A f \in Executions : status'[f] = "waiting" => status[f] = "waiting"
  BY DEF Arrival
<1>4. active' = active
  BY DEF Arrival
<1>5. EntriesLive'
  <2> SUFFICES ASSUME NEW e \in Executions, active[e].call # None
               PROVE  calls'[active[e].call].phase \in Listable
    BY <1>4 DEF EntriesLive, Registry
  <2>1. active[e].call \in Calls /\ calls[active[e].call].phase \in Listable
    BY DEF Registry, Typed, EntriesLive
  <2> QED BY <2>1, <1>1 DEF Listable
<1>6. EntriesWait'
  <2> SUFFICES ASSUME NEW e \in Executions,
                      active[e].status = "waiting", active[e].call # None
               PROVE  calls'[active[e].call].waiting
    BY <1>4 DEF EntriesWait
  <2>1. /\ active[e].call \in Calls /\ calls[active[e].call].phase \in Listable
        /\ calls[active[e].call].waiting
    BY DEF Registry, Typed, EntriesLive, EntriesWait
  <2> QED BY <2>1, <1>1 DEF Listable
<1>7. DownIsEmpty'
  BY DEF Arrival, DownIsEmpty
<1>8. AbsentIsUnknown'
  <2> SUFFICES ASSUME NEW e \in Executions, status'[e] = "absent"
               PROVE  /\ e \notin timers' \cup polled'
                      /\ \A d \in Calls : ExecutionOf(d) = e => calls'[d].phase = "none"
    BY DEF AbsentIsUnknown
  <2>1. status[e] = "absent" /\ ExecutionOf(c) # e
    BY DEF Arrival
  <2> QED BY <2>1 DEF Registry, AbsentIsUnknown, Arrival
<1>9. FlagsByPhase'
  BY <1>2, <1>4 DEF Registry, FlagsByPhase, Arrival, Before
<1>10. CreationIsAlone'
  <2> SUFFICES ASSUME NEW d \in Calls,
                      calls'[d].kind = "create", calls'[d].phase \in Before
               PROVE  /\ status'[ExecutionOf(d)] # "waiting"
                      /\ ExecutionOf(d) \notin timers' \cup polled'
                      /\ \A b \in Siblings(d) : calls'[b].phase = "none"
    BY DEF CreationIsAlone, Siblings
  <2>1. CASE d # c
    <3>1. calls'[d] = calls[d]
      BY <2>1 DEF Arrival
    <3>2. /\ status[ExecutionOf(d)] # "waiting"
          /\ ExecutionOf(d) \notin timers \cup polled
          /\ \A b \in Siblings(d) : calls[b].phase = "none"
      BY <3>1 DEF Registry, CreationIsAlone
    <3>3. c \notin Siblings(d)
      BY <3>1, <3>2, <2>1 DEF Registry, AbsentIsUnknown, Arrival, Before, Siblings
    <3> QED BY <3>2, <3>3, <1>3 DEF Arrival, Siblings
  <2>2. CASE d = c /\ calls[c].phase = "arriving" /\ calls'[c].kind = calls[c].kind
    BY <2>2, <1>3 DEF Registry, CreationIsAlone, Arrival, Siblings, Before
  <2>3. CASE d = c /\ status[ExecutionOf(c)] = "absent"
    <3>1. status'[ExecutionOf(c)] # "waiting"
      BY <2>3 DEF Arrival
    <3> QED BY <2>3, <3>1 DEF Registry, AbsentIsUnknown, Arrival, Siblings
  <2> QED BY <2>1, <2>2, <2>3 DEF Arrival
<1>11. OneRunPerExecution'
  <2>1. \A d \in Calls : calls'[d].phase \in {"registered", "executing"}
                         => calls[d].phase \in {"registered", "executing"}
    BY <1>2 DEF Before
  <2> QED BY <2>1 DEF Registry, OneRunPerExecution
<1>12. WaitingIsIdle'
  BY <1>2, <1>3 DEF Registry, WaitingIsIdle, Runs, Before
<1>13. SavedIsOver'
  BY <1>2, <1>3 DEF Registry, SavedIsOver, Runs, Siblings, Before
<1>14. OrphansWait'
  BY <1>2, <1>4 DEF Registry, OrphansWait, Arrival, Before, Listable
<1> QED
  BY <1>5, <1>6, <1>7, <1>8, <1>9, <1>10, <1>11, <1>12, <1>13, <1>14 DEF Registry

\* So it keeps the invariant while capacity and queue stay as they are.
LEMMA ArrivalKeepsInv ==
    ASSUME ControlInv, NEW c \in Calls, Arrival(c), Typed',
           limit' = limit, waits' = waits, capacity' = capacity, queue' = queue,
           calls[c].phase = "none", calls'[c].phase = "arriving"
    PROVE  ControlInv'
<1>1. process' = process /\ \A d \in Calls : d # c => calls'[d] = calls[d]
  BY DEF Arrival
<1>2. ~ calls'[c].reserved /\ c \notin Working
  BY DEF Arrival, Working, ControlInv, Registry, FlagsByPhase
<1>3. QueueExact' /\ CapacityAccounted' /\ NoSlack'
  BY <1>1, <1>2, CallStepKeepsCounts
<1> QED BY <1>3, ArrivalKeepsRegistry DEF ControlInv

\* A new execution is created before it asks for capacity (ActiveExecutions.add).
LEMMA CreateKeepsInv ==
    ASSUME ControlInv, NEW e \in Executions, Create(e)
    PROVE  ControlInv'
<1> USE CallFacts
<1> DEFINE c == <<e, 1>>
<1>1. /\ process = "up" /\ status[e] = "absent"
      /\ status' = [status EXCEPT ![e] = "new"]
      /\ calls' = [calls EXCEPT ![c] = Arriving("create")]
      /\ UNCHANGED <<process, capacity, queue, active, timers, polled, frame>>
  BY DEF Create
<1>2. c \in Calls /\ ExecutionOf(c) = e
  OBVIOUS
<1> HIDE DEF c
<1>3. status \in [Executions -> Statuses] /\ calls \in [Calls -> Call]
  BY DEF ControlInv, Registry, Typed
<1>4. /\ calls' \in [Calls -> Call]
      /\ calls'[c] = Arriving("create")
      /\ \A d \in Calls : d # c => calls'[d] = calls[d]
  BY <1>1, <1>2, <1>3, CallTypes
<1>5. /\ status' \in [Executions -> Statuses] /\ status'[e] = "new"
      /\ \A f \in Executions : f # e => status'[f] = status[f]
  BY <1>1, <1>3 DEF Statuses
<1>6. calls[c].phase = "none"
  BY <1>1, <1>2 DEF ControlInv, Registry, AbsentIsUnknown
<1>7. Arrival(c)
  BY <1>1, <1>2, <1>4, <1>5, <1>6 DEF Arrival, Arriving, Before
<1>8. Typed'
  BY <1>1, <1>4, <1>5 DEF ControlInv, Registry, Typed, frame
<1>9. calls'[c].phase = "arriving"
  BY <1>4 DEF Arriving
<1> QED BY <1>1, <1>2, <1>6, <1>7, <1>8, <1>9, ArrivalKeepsInv DEF frame

\* A timer or a webhook resumes an execution.
LEMMA ResumeKeepsInv ==
    ASSUME ControlInv, NEW e \in Executions, Resume(e), process # "down",
           status[e] = "waiting" \/ e \in timers,
           timers' \in SUBSET timers, requests' \in Nat,
           UNCHANGED <<status, process, capacity, queue, active, polled>>,
           UNCHANGED <<limit, waits, ends>>
    PROVE  ControlInv'
<1> USE CallFacts
<1>1. PICK c \in Calls : /\ ExecutionOf(c) = e /\ calls[c].phase = "none"
                         /\ calls' = [calls EXCEPT ![c] = Arriving("resume")]
  BY DEF Resume, FreeCalls
<1>2. /\ calls' \in [Calls -> Call]
      /\ calls'[c] = Arriving("resume")
      /\ \A d \in Calls : d # c => calls'[d] = calls[d]
  BY <1>1, CallTypes DEF ControlInv, Registry, Typed
<1>3. status[e] # "absent"
  BY DEF ControlInv, Registry, AbsentIsUnknown
<1>4. Arrival(c)
  BY <1>1, <1>2, <1>3 DEF Arrival, Arriving, Before
<1>5. Typed'
  BY <1>2 DEF ControlInv, Registry, Typed
<1>6. calls'[c].phase = "arriving"
  BY <1>2 DEF Arriving
<1> QED BY <1>1, <1>4, <1>5, <1>6, ArrivalKeepsInv

\* A timer resumes its execution, or throws (WaitTracker.startExecution).
LEMMA StartExecutionKeepsInv ==
    ASSUME ControlInv, NEW e \in Executions, StartExecution(e)
    PROVE  ControlInv'
<1>1. /\ e \in timers /\ timers' = timers \ {e}
      /\ UNCHANGED <<status, process, capacity, queue, active, polled, frame>>
  BY DEF StartExecution
<1>2. process # "down" /\ requests \in Nat
  BY <1>1 DEF ControlInv, Registry, DownIsEmpty, Typed
<1>3. CASE Resume(e)
  BY <1>1, <1>2, <1>3, ResumeKeepsInv DEF frame
<1>4. CASE calls' = calls
  <2>1. Typed' /\ QueueExact' /\ CapacityAccounted' /\ NoSlack'
    BY <1>1, <1>4 DEF ControlInv, Registry, Typed, QueueExact, CapacityAccounted,
                      NoSlack, Held, Working, frame
  <2>2. ASSUME NEW d \in Calls, active[ExecutionOf(d)].call = d
        PROVE  ~ Over(d)
    <3>1. calls[d].phase \in Listable
      BY <2>2, ListedIsLive DEF ControlInv
    <3> QED BY <1>4, <3>1 DEF Over, NoCall, Arriving, Listable
  <2>3. /\ \A d \in Calls : GoesOn(d)
        /\ \A f \in Executions : EntryShrinks(f) /\ RowSettles(f)
    BY <1>1, <1>4 DEF GoesOn, EntryShrinks, RowSettles
  <2>4. GivingBack
    BY <1>1, <1>2, <2>2, <2>3 DEF GivingBack
  <2> QED BY <2>1, <2>4, GivingBackKeepsRegistry DEF ControlInv
<1> QED BY <1>3, <1>4 DEF StartExecution

\* A webhook resumes an execution that waits (executeWebhook).
LEMMA WaitingWebhookKeepsInv ==
    ASSUME ControlInv, NEW e \in Executions, WaitingWebhook(e)
    PROVE  ControlInv'
<1>1. requests' \in Nat
  BY DEF WaitingWebhook, Requested, ControlInv, Registry, Typed
<1> QED BY <1>1, ResumeKeepsInv DEF WaitingWebhook

\* A call takes a unit of capacity, queues for one, or passes while the limit is off
\* (ConcurrencyQueue.enqueue).
LEMMA ReserveKeepsInv ==
    ASSUME ControlInv, NEW c \in Calls, Reserve(c)
    PROVE  ControlInv'
<1> USE CallFacts
<1>1. /\ calls[c].phase = "arriving"
      /\ UNCHANGED <<status, process, active, timers, polled, frame>>
  BY DEF Reserve
<1>2. /\ calls \in [Calls -> Call] /\ calls[c] \in Call
      /\ capacity \in Int /\ limit \in Nat /\ waits \in Nat
      /\ queue \in Seq(Calls) /\ Len(queue) \in Nat
  BY DEF ControlInv, Registry, Typed
<1>3. /\ process # "down" /\ status[ExecutionOf(c)] # "absent"
      /\ ~ calls[c].reserved /\ ~ calls[c].waiting
  BY <1>1 DEF ControlInv, Registry, DownIsEmpty, AbsentIsUnknown, FlagsByPhase,
              NoCall, Arriving
<1>4. Cardinality(Held) \in Nat /\ Cardinality(Working) \in Nat
  BY DEF Held, Working
<1>5. CASE process = "up" /\ capacity - 1 < 0
  <2>1. /\ capacity' = capacity - 1 /\ queue' = Append(queue, c)
        /\ calls' = [calls EXCEPT ![c].phase = "queued"]
    BY <1>5 DEF Reserve
  <2>2. /\ calls' \in [Calls -> Call]
        /\ calls'[c] = [calls[c] EXCEPT !.phase = "queued"]
        /\ \A d \in Calls : d # c => calls'[d] = calls[d]
    BY <1>2, <2>1 DEF Call, Phases
  <2>3. /\ calls'[c].phase = "queued" /\ calls'[c].kind = calls[c].kind
        /\ calls'[c].waiting = calls[c].waiting
        /\ calls'[c].reserved = calls[c].reserved
    BY <1>2, <2>2 DEF Call
  <2>4. /\ queue' \in Seq(Calls) /\ Len(queue') = Len(queue) + 1
        /\ queue'[Len(queue) + 1] = c
        /\ \A i \in 1..Len(queue) : queue'[i] = queue[i]
    BY <1>2, <2>1
  <2>5. \A i \in 1..Len(queue) : queue[i] # c
    BY <1>1 DEF ControlInv, Registry, QueueExact
  <2>6. QueueExact'
    <3>1. ASSUME NEW i \in 1..Len(queue'), NEW j \in 1..Len(queue'),
                 queue'[i] = queue'[j]
          PROVE  i = j
      <4>1. /\ i \in 1..Len(queue) \/ i = Len(queue) + 1
            /\ j \in 1..Len(queue) \/ j = Len(queue) + 1
        BY <1>2, <2>4
      <4> QED BY <4>1, <3>1, <2>4, <2>5 DEF ControlInv, Registry, QueueExact
    <3>2. ASSUME NEW d \in Calls
          PROVE  calls'[d].phase = "queued"
                    <=> \E i \in 1..Len(queue') : queue'[i] = d
      <4>1. Len(queue) + 1 \in 1..Len(queue')
        BY <1>2, <2>4
      <4>2. \A i \in 1..Len(queue) : i \in 1..Len(queue')
        BY <1>2, <2>4
      <4>3. \A i \in 1..Len(queue') : i \in 1..Len(queue) \/ i = Len(queue) + 1
        BY <1>2, <2>4
      <4>4. CASE d = c
        BY <4>1, <4>4, <2>3, <2>4
      <4>5. CASE d # c
        <5>1. calls'[d].phase = "queued" <=> \E i \in 1..Len(queue) : queue[i] = d
          BY <2>2, <4>5 DEF ControlInv, Registry, QueueExact
        <5> QED BY <5>1, <4>2, <4>3, <4>5, <2>4
      <4> QED BY <4>4, <4>5
    <3> QED BY <3>1, <3>2 DEF QueueExact
  <2>7. Typed'
    BY <1>1, <1>2, <2>1, <2>2, <2>4 DEF ControlInv, Registry, Typed, frame
  <2>8. Arrival(c)
    BY <1>1, <1>3, <2>2, <2>3 DEF Arrival, Before
  <2>9. Registry'
    BY <2>6, <2>7, <2>8, ArrivalKeepsRegistry DEF ControlInv
  <2>10. Held' = Held /\ Working' = Working
    <3>1. \A d \in Calls : /\ calls'[d].reserved <=> calls[d].reserved
                           /\ calls'[d].waiting <=> calls[d].waiting
      BY <2>2, <2>3
    <3> QED BY <3>1 DEF Held, Working
  <2>11. CapacityAccounted'
    <3>1. /\ capacity + Cardinality(Held) + Len(queue) <= limit
          /\ limit <= capacity + Cardinality(Working) + Len(queue) + waits
      BY <1>5 DEF ControlInv, CapacityAccounted
    <3>2. /\ capacity - 1 + Cardinality(Held) + (Len(queue) + 1) <= limit
          /\ limit <= capacity - 1 + Cardinality(Working) + (Len(queue) + 1) + waits
      BY <1>2, <1>4, <3>1
    <3> QED BY <3>2, <1>1, <2>1, <2>4, <2>10 DEF CapacityAccounted, frame
  <2>12. NoSlack'
    <3>1. capacity - 1 + (Len(queue) + 1) <= 0
      <4>1. CASE queue = <<>>
        BY <4>1, <1>2, <1>5
      <4>2. CASE queue # <<>>
        BY <4>2, <1>2, <1>5 DEF ControlInv, NoSlack
      <4> QED BY <4>1, <4>2
    <3> QED BY <3>1, <2>1, <2>4 DEF NoSlack
  <2> QED BY <2>9, <2>11, <2>12 DEF ControlInv
<1>6. CASE process = "up" /\ ~ (capacity - 1 < 0)
  <2>1. /\ capacity' = capacity - 1 /\ queue' = queue
        /\ calls' = [calls EXCEPT ![c].phase = "admitted", ![c].reserved = TRUE]
    BY <1>6 DEF Reserve
  <2>2. /\ calls' \in [Calls -> Call]
        /\ calls'[c] = [calls[c] EXCEPT !.phase = "admitted", !.reserved = TRUE]
        /\ \A d \in Calls : d # c => calls'[d] = calls[d]
    BY <1>2, <2>1 DEF Call, Phases
  <2>3. /\ calls'[c].phase = "admitted" /\ calls'[c].kind = calls[c].kind
        /\ calls'[c].waiting = calls[c].waiting /\ calls'[c].reserved
    BY <1>2, <2>2 DEF Call
  <2>4. QueueExact'
    <3>1. \A d \in Calls : calls'[d].phase = "queued" <=> calls[d].phase = "queued"
      BY <1>1, <2>2, <2>3
    <3> QED BY <3>1, <2>1 DEF ControlInv, Registry, QueueExact
  <2>5. Typed'
    BY <1>1, <1>2, <2>1, <2>2 DEF ControlInv, Registry, Typed, frame
  <2>6. Arrival(c)
    BY <1>1, <1>3, <2>2, <2>3 DEF Arrival, Before
  <2>7. Registry'
    BY <2>4, <2>5, <2>6, ArrivalKeepsRegistry DEF ControlInv
  <2>8. /\ Held' = Held \cup {c} /\ c \notin Held
        /\ Working' = Working \cup {c} /\ c \notin Working
    <3>1. \A d \in Calls :
             /\ calls'[d].reserved <=> calls[d].reserved \/ d = c
             /\ calls'[d].waiting <=> calls[d].waiting
      BY <2>2, <2>3
    <3> QED BY <3>1, <1>3 DEF Held, Working
  <2>9. /\ Cardinality(Held') = Cardinality(Held) + 1
        /\ Cardinality(Working') = Cardinality(Working) + 1
    <3>1. Held \in SUBSET Calls /\ Working \in SUBSET Calls
      BY DEF Held, Working
    <3> QED BY <3>1, <2>8, FS_AddElement
  <2>10. CapacityAccounted'
    <3>1. /\ capacity + Cardinality(Held) + Len(queue) <= limit
          /\ limit <= capacity + Cardinality(Working) + Len(queue) + waits
      BY <1>6 DEF ControlInv, CapacityAccounted
    <3>2. /\ capacity - 1 + (Cardinality(Held) + 1) + Len(queue) <= limit
          /\ limit <= capacity - 1 + (Cardinality(Working) + 1) + Len(queue) + waits
      BY <1>2, <1>4, <3>1
    <3> QED BY <3>2, <1>1, <2>1, <2>9 DEF CapacityAccounted, frame
  <2>11. NoSlack'
    BY <1>2, <1>6, <2>1 DEF ControlInv, NoSlack
  <2> QED BY <2>7, <2>10, <2>11 DEF ControlInv
<1>7. CASE process # "up"
  <2>1. /\ capacity' = capacity /\ queue' = queue
        /\ calls' = [calls EXCEPT ![c].phase = "admitted"]
    BY <1>7 DEF Reserve
  <2>2. /\ calls' \in [Calls -> Call]
        /\ calls'[c] = [calls[c] EXCEPT !.phase = "admitted"]
        /\ \A d \in Calls : d # c => calls'[d] = calls[d]
    BY <1>2, <2>1 DEF Call, Phases
  <2>3. /\ calls'[c].phase = "admitted" /\ calls'[c].kind = calls[c].kind
        /\ calls'[c].waiting = calls[c].waiting
        /\ calls'[c].reserved = calls[c].reserved
    BY <1>2, <2>2 DEF Call
  <2>4. QueueExact' /\ CapacityAccounted' /\ NoSlack'
    BY <1>1, <1>7, <2>1, <2>2, <2>3, CallStepKeepsCounts DEF frame
  <2>5. Typed'
    BY <1>1, <1>2, <2>1, <2>2 DEF ControlInv, Registry, Typed, frame
  <2>6. Arrival(c)
    BY <1>1, <1>3, <2>2, <2>3 DEF Arrival, Before
  <2> QED BY <2>4, <2>5, <2>6, ArrivalKeepsRegistry DEF ControlInv
<1> QED BY <1>2, <1>5, <1>6, <1>7

-----------------------------------------------------------------------------
(* The steps of a run.                                                     *)

\* The other calls of an execution that is being run have ended, or have put it
\* to wait and are about to end, or ask for capacity to resume it.
LEMMA RunFacts ==
    ASSUME Registry, NEW c \in Calls, Runs(c)
    PROVE  /\ process # "down"
           /\ status[ExecutionOf(c)] \notin {"absent", "waiting"}
           /\ \A d \in Siblings(c) :
                 /\ ~ Runs(d)
                 /\ calls[d].phase = "saved" => calls[d].waiting
                 /\ ~ (calls[d].kind = "create" /\ calls[d].phase \in Before)
<1>1. process # "down"
  BY DEF Registry, DownIsEmpty, Runs, NoCall, Arriving
<1>2. status[ExecutionOf(c)] \notin {"absent", "waiting"}
  BY CallFacts DEF Registry, AbsentIsUnknown, WaitingIsIdle, Runs
<1>3. ASSUME NEW d \in Siblings(c)
      PROVE  /\ ~ Runs(d)
             /\ calls[d].phase = "saved" => calls[d].waiting
             /\ ~ (calls[d].kind = "create" /\ calls[d].phase \in Before)
  <2>1. d \in Calls /\ d # c /\ ExecutionOf(d) = ExecutionOf(c) /\ c \in Siblings(d)
    BY DEF Siblings
  <2>2. ~ Runs(d)
    BY <2>1 DEF Registry, OneRunPerExecution, Runs
  <2>3. calls[d].phase = "saved" => calls[d].waiting
    BY <2>1 DEF Registry, SavedIsOver
  <2>4. ~ (calls[d].kind = "create" /\ calls[d].phase \in Before)
    BY <2>1 DEF Registry, CreationIsAlone, Runs
  <2> QED BY <2>2, <2>3, <2>4
<1> QED BY <1>1, <1>2, <1>3

\* A call takes the entry of its execution over when nobody runs it
\* (ActiveExecutions.add).
LEMMA AddKeepsInv ==
    ASSUME ControlInv, NEW c \in Calls, Add(c)
    PROVE  ControlInv'
<1> USE CallFacts
<1> DEFINE e == ExecutionOf(c)
<1>1. /\ calls[c].phase = "admitted"
      /\ calls[c].kind = "resume" => status[e] = "waiting"
      /\ status' = [status EXCEPT ![e] = "running"]
      /\ calls' = [calls EXCEPT ![c].phase = "registered"]
      /\ active' = [active EXCEPT ![e] = [call |-> c, status |-> "running"]]
      /\ UNCHANGED <<process, capacity, queue, timers, polled, frame>>
  BY DEF Add, MayResume
<1>2. /\ calls \in [Calls -> Call] /\ calls[c] \in Call
      /\ status \in [Executions -> Statuses]
      /\ active \in [Executions -> [call : Calls \cup {None},
                                    status : {"absent", "running", "waiting"}]]
  BY DEF ControlInv, Registry, Typed
<1>3. /\ calls' \in [Calls -> Call]
      /\ calls'[c] = [calls[c] EXCEPT !.phase = "registered"]
      /\ \A d \in Calls : d # c => calls'[d] = calls[d]
  BY <1>1, <1>2 DEF Call, Phases
<1>4. /\ calls'[c].phase = "registered" /\ calls'[c].kind = calls[c].kind
      /\ calls'[c].waiting = calls[c].waiting
      /\ calls'[c].reserved = calls[c].reserved
      /\ calls[c].kind \in {"create", "resume"}
  BY <1>2, <1>3 DEF Call
<1>5. e \in Executions
  OBVIOUS
<1> HIDE DEF e
<1>6. /\ status' \in [Executions -> Statuses] /\ status'[e] = "running"
      /\ \A f \in Executions : f # e => status'[f] = status[f]
  BY <1>1, <1>2, <1>5 DEF Statuses
<1>7. /\ active'[e].call = c /\ active'[e].status = "running"
      /\ \A f \in Executions : f # e => active'[f] = active[f]
      /\ active' \in [Executions -> [call : Calls \cup {None},
                                     status : {"absent", "running", "waiting"}]]
  BY <1>1, <1>2, <1>5
<1>8. ~ calls[c].waiting /\ process # "down"
  BY <1>1 DEF ControlInv, Registry, FlagsByPhase, DownIsEmpty, NoCall, Arriving
<1>9. ASSUME NEW d \in Siblings(c)
      PROVE  /\ ~ Runs(d)
             /\ calls[d].phase = "saved" => calls[d].waiting
             /\ ~ (calls[d].kind = "create" /\ calls[d].phase \in Before)
  <2>1. d \in Calls /\ d # c /\ ExecutionOf(d) = e /\ c \in Siblings(d)
    BY DEF Siblings, e
  <2>2. ~ (calls[d].kind = "create" /\ calls[d].phase \in Before)
    BY <1>1, <2>1 DEF ControlInv, Registry, CreationIsAlone
  <2>3. CASE calls[c].kind = "create"
    <3>1. calls[d].phase = "none"
      BY <1>1, <2>3 DEF ControlInv, Registry, CreationIsAlone, Before
    <3> QED BY <3>1, <2>2 DEF Runs
  <2>4. CASE calls[c].kind = "resume"
    BY <1>1, <2>1, <2>2, <2>4 DEF ControlInv, Registry, WaitingIsIdle, SavedIsOver
  <2> QED BY <1>4, <2>3, <2>4
<1>10. \A d \in Calls : d # c /\ ExecutionOf(d) = e => d \in Siblings(c)
  BY DEF Siblings, e
<1>11. ExecutionOf(c) = e
  BY DEF e
<1>12. QueueExact' /\ CapacityAccounted' /\ NoSlack'
  BY <1>1, <1>3, <1>4, CallStepKeepsCounts DEF Working, frame
<1>13. Typed'
  BY <1>1, <1>3, <1>6, <1>7 DEF ControlInv, Registry, Typed, frame
<1>14. EntriesLive'
  <2> SUFFICES ASSUME NEW f \in Executions
               PROVE  /\ active'[f].status = "absent" => active'[f].call = None
                      /\ active'[f].status = "running" => active'[f].call # None
                      /\ active'[f].call # None =>
                            /\ ExecutionOf(active'[f].call) = f
                            /\ calls'[active'[f].call].phase \in Listable
    BY DEF EntriesLive
  <2>1. CASE f = e
    BY <2>1, <1>4, <1>7, <1>11 DEF Listable
  <2>2. CASE f # e
    <3>1. active'[f] = active[f] /\ active[f].call \in Calls \cup {None}
      BY <1>2, <1>7, <2>2
    <3> QED BY <3>1, <2>2, <1>3, <1>11 DEF ControlInv, Registry, EntriesLive
  <2> QED BY <2>1, <2>2
<1>15. EntriesWait'
  <2> SUFFICES ASSUME NEW f \in Executions,
                      active'[f].status = "waiting", active'[f].call # None
               PROVE  calls'[active'[f].call].waiting
    BY DEF EntriesWait
  <2>1. f # e
    BY <1>7
  <2>2. active'[f] = active[f] /\ active[f].call \in Calls
    BY <1>2, <1>7, <2>1
  <2>3. ExecutionOf(active[f].call) = f /\ calls[active[f].call].waiting
    BY <2>2 DEF ControlInv, Registry, EntriesLive, EntriesWait
  <2> QED BY <2>1, <2>2, <2>3, <1>3, <1>11
<1>16. DownIsEmpty'
  BY <1>1, <1>8 DEF DownIsEmpty
<1>17. AbsentIsUnknown'
  BY <1>1, <1>3, <1>6, <1>11 DEF ControlInv, Registry, AbsentIsUnknown
<1>18. FlagsByPhase'
  <2> SUFFICES ASSUME NEW d \in Calls
               PROVE  /\ calls'[d].phase \in {"none", "arriving", "queued"}
                            => ~ calls'[d].reserved
                      /\ calls'[d].phase \notin {"executing", "saved"}
                            => ~ calls'[d].waiting
                      /\ calls'[d].phase = "executing"
                         /\ active'[ExecutionOf(d)].call = d => calls'[d].attached
    BY DEF FlagsByPhase
  <2>1. CASE d = c
    BY <2>1, <1>4, <1>8
  <2>2. CASE d # c
    <3>1. active'[ExecutionOf(d)].call = d => active[ExecutionOf(d)].call = d
      BY <2>2, <1>7
    <3> QED BY <3>1, <2>2, <1>3 DEF ControlInv, Registry, FlagsByPhase
  <2> QED BY <2>1, <2>2
<1>19. CreationIsAlone'
  <2> SUFFICES ASSUME NEW d \in Calls,
                      calls'[d].kind = "create", calls'[d].phase \in Before
               PROVE  /\ status'[ExecutionOf(d)] # "waiting"
                      /\ ExecutionOf(d) \notin timers' \cup polled'
                      /\ \A b \in Siblings(d) : calls'[b].phase = "none"
    BY DEF CreationIsAlone, Siblings
  <2>1. d # c /\ calls'[d] = calls[d]
    BY <1>3, <1>4 DEF Before
  <2>2. ExecutionOf(d) # e
    BY <2>1, <1>9, <1>10
  <2>3. c \notin Siblings(d)
    BY <2>2, <1>11 DEF Siblings
  <2> QED BY <2>1, <2>2, <2>3, <1>1, <1>3, <1>6
          DEF ControlInv, Registry, CreationIsAlone, Siblings
<1>20. OneRunPerExecution'
  <2>1. \A d \in Calls : d # c => (Runs(d)' <=> Runs(d))
    BY <1>3 DEF Runs
  <2>2. \A d \in Calls : d # c /\ ExecutionOf(d) = e => ~ Runs(d)'
    BY <2>1, <1>9, <1>10
  <2> QED BY <2>1, <2>2, <1>11 DEF ControlInv, Registry, OneRunPerExecution, Runs
<1>21. WaitingIsIdle'
  BY <1>3, <1>6, <1>11 DEF ControlInv, Registry, WaitingIsIdle, Runs
<1>22. SavedIsOver'
  <2> SUFFICES ASSUME NEW d \in Calls, calls'[d].phase = "saved", ~ calls'[d].waiting
               PROVE  /\ status'[ExecutionOf(d)] # "waiting"
                      /\ \A b \in Siblings(d) :
                            calls'[b].phase \notin {"registered", "executing"}
    BY DEF SavedIsOver, Runs, Siblings
  <2>1. d # c /\ calls'[d] = calls[d]
    BY <1>3, <1>4
  <2>2. ExecutionOf(d) # e
    BY <2>1, <1>9, <1>10
  <2>3. c \notin Siblings(d)
    BY <2>2, <1>11 DEF Siblings
  <2> QED BY <2>1, <2>2, <2>3, <1>3, <1>6
          DEF ControlInv, Registry, SavedIsOver, Runs, Siblings
<1>23. OrphansWait'
  <2> SUFFICES ASSUME process' = "up", NEW d \in Calls, calls'[d].reserved,
                      calls'[d].phase \in Listable,
                      active'[ExecutionOf(d)].call # d
               PROVE  calls'[d].waiting
    BY DEF OrphansWait
  <2>1. d # c /\ calls'[d] = calls[d]
    BY <1>3, <1>7, <1>11
  <2>2. CASE ExecutionOf(d) = e
    BY <2>1, <2>2, <1>9, <1>10 DEF Listable, Runs
  <2>3. CASE ExecutionOf(d) # e
    <3>1. active[ExecutionOf(d)].call # d
      BY <2>3, <1>7
    <3> QED BY <2>1, <3>1, <1>1 DEF ControlInv, Registry, OrphansWait
  <2> QED BY <2>2, <2>3
<1> QED
  BY <1>12, <1>13, <1>14, <1>15, <1>16, <1>17, <1>18, <1>19, <1>20, <1>21, <1>22, <1>23
  DEF ControlInv, Registry

\* What the other steps of a run have in common: the call goes on, saves its
\* result or is over, and leaves the promise of the entry where it is.
RunStep(c) ==
    LET e == ExecutionOf(c)
    IN /\ Runs(c)
       /\ process' = process /\ timers' = timers /\ polled' = polled
       /\ \A d \in Calls : d # c => calls'[d] = calls[d]
       /\ \A f \in Executions : f # e => status'[f] = status[f] /\ active'[f] = active[f]
       /\ status'[e] # "absent"
       /\ active'[e].call = active[e].call
       /\ \/ active'[e].status = active[e].status
          \/ active'[e].status = "waiting" /\ calls'[c].waiting
       /\ \/ /\ calls'[c].phase \in {"executing", "saved"}
             /\ calls[c].waiting => calls'[c].waiting
             /\ calls'[c].reserved => calls[c].reserved
          \/ /\ calls'[c].phase = "none" /\ active[e].call # c
             /\ ~ calls'[c].waiting /\ ~ calls'[c].reserved
       /\ calls'[c].phase = "executing" /\ active[e].call = c => calls'[c].attached
       /\ status'[e] = "waiting" =>
             /\ calls'[c].phase # "executing"
             /\ calls'[c].phase = "saved" => calls'[c].waiting

\* A step of a run keeps what calls, entries and rows say of each other.
LEMMA RunStepKeepsRegistry ==
    ASSUME Registry, NEW c \in Calls, RunStep(c), Typed', QueueExact'
    PROVE  Registry'
<1> USE CallFacts
<1> DEFINE e == ExecutionOf(c)
<1>1. /\ process # "down"
      /\ status[e] \notin {"absent", "waiting"}
      /\ \A d \in Siblings(c) :
            /\ ~ Runs(d)
            /\ calls[d].phase = "saved" => calls[d].waiting
            /\ ~ (calls[d].kind = "create" /\ calls[d].phase \in Before)
  BY RunFacts DEF RunStep
<1>2. /\ Runs(c)
      /\ process' = process /\ timers' = timers /\ polled' = polled
      /\ \A d \in Calls : d # c => calls'[d] = calls[d]
      /\ \A f \in Executions : f # e => status'[f] = status[f] /\ active'[f] = active[f]
      /\ status'[e] # "absent"
      /\ active'[e].call = active[e].call
      /\ \/ active'[e].status = active[e].status
         \/ active'[e].status = "waiting" /\ calls'[c].waiting
      /\ calls'[c].phase \in {"executing", "saved", "none"}
      /\ calls'[c].phase = "none" =>
            active[e].call # c /\ ~ calls'[c].waiting /\ ~ calls'[c].reserved
      /\ calls'[c].phase # "none" =>
            /\ calls[c].waiting => calls'[c].waiting
            /\ calls'[c].reserved => calls[c].reserved
      /\ calls'[c].phase = "executing" /\ active[e].call = c => calls'[c].attached
      /\ status'[e] = "waiting" =>
            /\ calls'[c].phase # "executing"
            /\ calls'[c].phase = "saved" => calls'[c].waiting
  BY DEF RunStep
<1>3. /\ e \in Executions /\ ExecutionOf(c) = e
      /\ \A d \in Calls : d # c /\ ExecutionOf(d) = e => d \in Siblings(c)
  BY DEF Siblings
<1>4. /\ active \in [Executions -> [call : Calls \cup {None},
                                    status : {"absent", "running", "waiting"}]]
  BY DEF Registry, Typed
<1> HIDE DEF e
<1>5. \A f \in Executions : active'[f].call = active[f].call
  BY <1>2
<1>6. \A d \in Calls : Runs(d)' => Runs(d)
  BY <1>2 DEF Runs
<1>7. EntriesLive'
  <2> SUFFICES ASSUME NEW f \in Executions
               PROVE  /\ active'[f].status = "absent" => active[f].call = None
                      /\ active'[f].status = "running" => active[f].call # None
                      /\ active[f].call # None =>
                            /\ ExecutionOf(active[f].call) = f
                            /\ calls'[active[f].call].phase \in Listable
    BY <1>5 DEF EntriesLive
  <2>1. /\ active'[f].status = "absent" => active[f].call = None
        /\ active'[f].status = "running" => active[f].call # None
    BY <1>2, <1>4 DEF Registry, EntriesLive
  <2>2. ASSUME active[f].call # None
        PROVE  /\ ExecutionOf(active[f].call) = f
               /\ calls'[active[f].call].phase \in Listable
    <3>1. /\ active[f].call \in Calls /\ ExecutionOf(active[f].call) = f
          /\ calls[active[f].call].phase \in Listable
      BY <1>4, <2>2 DEF Registry, EntriesLive
    <3>2. CASE active[f].call = c
      BY <3>1, <3>2, <1>2, <1>3 DEF Listable
    <3>3. CASE active[f].call # c
      BY <3>1, <3>3, <1>2
    <3> QED BY <3>1, <3>2, <3>3
  <2> QED BY <2>1, <2>2
<1>8. EntriesWait'
  <2> SUFFICES ASSUME NEW f \in Executions,
                      active'[f].status = "waiting", active[f].call # None
               PROVE  calls'[active[f].call].waiting
    BY <1>5 DEF EntriesWait
  <2>1. /\ active[f].call \in Calls /\ ExecutionOf(active[f].call) = f
        /\ calls[active[f].call].phase \in Listable
    BY <1>4 DEF Registry, EntriesLive
  <2>2. CASE active[f].status = "waiting"
    <3>1. calls[active[f].call].waiting
      BY <2>2 DEF Registry, EntriesWait
    <3>2. CASE active[f].call = c
      BY <2>1, <3>1, <3>2, <1>2, <1>3
    <3>3. CASE active[f].call # c
      BY <2>1, <3>1, <3>3, <1>2
    <3> QED BY <3>2, <3>3
  <2>3. CASE active[f].status # "waiting"
    <3>1. f = e /\ calls'[c].waiting
      BY <1>2, <2>3
    <3>2. CASE active[f].call = c
      BY <3>1, <3>2
    <3>3. CASE active[f].call # c
      <4>1. active[f].call \in Siblings(c)
        BY <2>1, <3>1, <3>3, <1>3
      <4>2. calls[active[f].call].waiting
        BY <1>1, <2>1, <4>1 DEF Listable, Runs
      <4> QED BY <2>1, <3>3, <4>2, <1>2
    <3> QED BY <3>2, <3>3
  <2> QED BY <2>2, <2>3
<1>9. DownIsEmpty'
  BY <1>1, <1>2 DEF DownIsEmpty
<1>10. AbsentIsUnknown'
  <2> SUFFICES ASSUME NEW f \in Executions, status'[f] = "absent"
               PROVE  /\ f \notin timers' \cup polled'
                      /\ \A d \in Calls : ExecutionOf(d) = f => calls'[d].phase = "none"
    BY DEF AbsentIsUnknown
  <2>1. f # e /\ status[f] = "absent"
    BY <1>2
  <2> QED BY <2>1, <1>2, <1>3 DEF Registry, AbsentIsUnknown
<1>11. FlagsByPhase'
  BY <1>2, <1>3, <1>5 DEF Registry, FlagsByPhase
<1>12. CreationIsAlone'
  <2> SUFFICES ASSUME NEW d \in Calls,
                      calls'[d].kind = "create", calls'[d].phase \in Before
               PROVE  /\ status'[ExecutionOf(d)] # "waiting"
                      /\ ExecutionOf(d) \notin timers' \cup polled'
                      /\ \A b \in Siblings(d) : calls'[b].phase = "none"
    BY DEF CreationIsAlone, Siblings
  <2>1. d # c /\ calls'[d] = calls[d]
    BY <1>2 DEF Before
  <2>2. ExecutionOf(d) # e
    BY <2>1, <1>1, <1>3
  <2>3. c \notin Siblings(d)
    BY <2>2, <1>3 DEF Siblings
  <2> QED BY <2>1, <2>2, <2>3, <1>2 DEF Registry, CreationIsAlone, Siblings
<1>13. OneRunPerExecution'
  BY <1>6 DEF Registry, OneRunPerExecution, Runs
<1>14. WaitingIsIdle'
  <2> SUFFICES ASSUME NEW d \in Calls, status'[ExecutionOf(d)] = "waiting"
               PROVE  ~ Runs(d)'
    BY DEF WaitingIsIdle
  <2>1. CASE ExecutionOf(d) = e
    BY <2>1, <1>1, <1>2, <1>3, <1>6 DEF Runs
  <2>2. CASE ExecutionOf(d) # e
    BY <2>2, <1>2, <1>6 DEF Registry, WaitingIsIdle
  <2> QED BY <2>1, <2>2
<1>15. SavedIsOver'
  <2> SUFFICES ASSUME NEW d \in Calls, calls'[d].phase = "saved", ~ calls'[d].waiting
               PROVE  /\ status'[ExecutionOf(d)] # "waiting"
                      /\ \A b \in Siblings(d) : ~ Runs(b)'
    BY DEF SavedIsOver, Siblings
  <2>1. CASE d = c
    BY <2>1, <1>1, <1>2, <1>3, <1>6 DEF Siblings
  <2>2. CASE d # c
    <3>1. calls'[d] = calls[d]
      BY <2>2, <1>2
    <3>2. ExecutionOf(d) # e
      BY <2>2, <3>1, <1>1, <1>3
    <3> QED BY <3>1, <3>2, <1>2, <1>6 DEF Registry, SavedIsOver, Siblings
  <2> QED BY <2>1, <2>2
<1>16. OrphansWait'
  <2> SUFFICES ASSUME process' = "up", NEW d \in Calls, calls'[d].reserved,
                      calls'[d].phase \in Listable,
                      active[ExecutionOf(d)].call # d
               PROVE  calls'[d].waiting
    BY <1>5 DEF OrphansWait
  <2>1. calls[d].reserved /\ calls[d].phase \in Listable
    BY <1>2 DEF Listable, Runs
  <2>2. calls[d].waiting
    BY <2>1, <1>2 DEF Registry, OrphansWait
  <2> QED BY <2>2, <1>2 DEF Listable
<1> QED
  BY <1>7, <1>8, <1>9, <1>10, <1>11, <1>12, <1>13, <1>14, <1>15, <1>16 DEF Registry

\* What a step of a run may assume: the types, and that its row exists and does
\* not wait.
LEMMA RunTypes ==
    ASSUME ControlInv, NEW c \in Calls, Runs(c)
    PROVE  /\ calls \in [Calls -> Call] /\ calls[c] \in Call
           /\ status \in [Executions -> Statuses]
           /\ active \in [Executions -> [call : Calls \cup {None},
                                         status : {"absent", "running", "waiting"}]]
           /\ status[ExecutionOf(c)] \notin {"absent", "waiting"}
           /\ calls[c].phase \notin {"executing", "saved"} => ~ calls[c].waiting
BY RunFacts DEF ControlInv, Registry, Typed, FlagsByPhase

\* The run begins, attached to the entry if there is one (runMainProcess).
LEMMA BeginKeepsInv ==
    ASSUME ControlInv, NEW c \in Calls, Begin(c)
    PROVE  ControlInv'
<1> USE CallFacts
<1> DEFINE e == ExecutionOf(c)
<1>1. /\ calls[c].phase = "registered"
      /\ status' = [status EXCEPT ![e] = "running"]
      /\ calls' = [calls EXCEPT ![c].phase = "executing",
                                ![c].attached = active[e] # NoEntry]
      /\ UNCHANGED <<process, capacity, queue, active, timers, polled, frame>>
  BY DEF Begin
<1>2. Runs(c) /\ e \in Executions
  BY <1>1 DEF Runs
<1>3. /\ calls \in [Calls -> Call] /\ calls[c] \in Call
      /\ status \in [Executions -> Statuses] /\ ~ calls[c].waiting
  BY <1>1, <1>2, RunTypes
<1> HIDE DEF e
<1>4. /\ calls' \in [Calls -> Call]
      /\ calls'[c] = [calls[c] EXCEPT !.phase = "executing",
                                      !.attached = active[e] # NoEntry]
      /\ \A d \in Calls : d # c => calls'[d] = calls[d]
  <2>1. [calls[c] EXCEPT !.phase = "executing", !.attached = active[e] # NoEntry] \in Call
    BY <1>3 DEF Call, Phases
  <2> QED BY <1>1, <1>3, <2>1
<1>5. /\ calls'[c].phase = "executing"
      /\ calls'[c].attached <=> active[e] # NoEntry
      /\ calls'[c].waiting = calls[c].waiting
      /\ calls'[c].reserved = calls[c].reserved
  BY <1>3, <1>4 DEF Call
<1>6. /\ status' \in [Executions -> Statuses] /\ status'[e] = "running"
      /\ \A f \in Executions : f # e => status'[f] = status[f]
  BY <1>1, <1>2, <1>3 DEF Statuses
<1>7. active[e].call = c => calls'[c].attached
  BY <1>5 DEF NoEntry
<1>8. QueueExact' /\ CapacityAccounted' /\ NoSlack'
  BY <1>1, <1>4, <1>5, CallStepKeepsCounts DEF Working, frame
<1>9. Typed'
  BY <1>1, <1>4, <1>6 DEF ControlInv, Registry, Typed, frame
<1>10. RunStep(c)
  BY <1>1, <1>2, <1>3, <1>4, <1>5, <1>6, <1>7 DEF RunStep, e
<1> QED BY <1>8, <1>9, <1>10, RunStepKeepsRegistry DEF ControlInv

\* A wait costs the execution at most the unit its call holds (putExecutionToWait).
LEMMA PutToWaitKeepsInv ==
    ASSUME ControlInv, NEW c \in Calls, PutToWait(c)
    PROVE  ControlInv'
<1> USE CallFacts
<1> DEFINE e == ExecutionOf(c)
<1>1. /\ calls[c].phase = "executing"
      /\ waits' = waits + 1
      /\ calls' = [calls EXCEPT ![c].waiting = TRUE]
      /\ active' = [active EXCEPT ![e].status = "waiting"]
      /\ UNCHANGED <<status, process, capacity, queue, timers, polled,
                     limit, requests, ends>>
  BY DEF PutToWait, Waits
<1>2. Runs(c) /\ e \in Executions
  BY <1>1 DEF Runs
<1>3. /\ calls \in [Calls -> Call] /\ calls[c] \in Call
      /\ active \in [Executions -> [call : Calls \cup {None},
                                    status : {"absent", "running", "waiting"}]]
      /\ status[e] \notin {"absent", "waiting"}
  BY <1>2, RunTypes
<1> HIDE DEF e
<1>4. /\ calls' \in [Calls -> Call]
      /\ calls'[c] = [calls[c] EXCEPT !.waiting = TRUE]
      /\ \A d \in Calls : d # c => calls'[d] = calls[d]
  <2>1. [calls[c] EXCEPT !.waiting = TRUE] \in Call
    BY <1>3 DEF Call
  <2> QED BY <1>1, <1>3, <2>1
<1>5. /\ calls'[c].phase = "executing"
      /\ calls'[c].attached = calls[c].attached
      /\ calls'[c].waiting
      /\ calls'[c].reserved = calls[c].reserved
  BY <1>1, <1>3, <1>4 DEF Call
<1>6. /\ active' \in [Executions -> [call : Calls \cup {None},
                                     status : {"absent", "running", "waiting"}]]
      /\ active'[e].call = active[e].call /\ active'[e].status = "waiting"
      /\ \A f \in Executions : f # e => active'[f] = active[f]
  <2>1. active[e] \in [call : Calls \cup {None},
                       status : {"absent", "running", "waiting"}]
    BY <1>2, <1>3 DEF e
  <2>2. [active[e] EXCEPT !.status = "waiting"]
          \in [call : Calls \cup {None}, status : {"absent", "running", "waiting"}]
    BY <2>1
  <2>3. active' = [active EXCEPT ![e] = [active[e] EXCEPT !.status = "waiting"]]
    BY <1>1
  <2>4. active'[e] = [active[e] EXCEPT !.status = "waiting"]
    BY <2>3, <1>2, <1>3 DEF e
  <2>5. active'[e].call = active[e].call /\ active'[e].status = "waiting"
    BY <2>1, <2>4
  <2> QED BY <2>2, <2>3, <2>5, <1>3
<1>7. active[e].call = c => calls'[c].attached
  BY <1>1, <1>5 DEF ControlInv, Registry, FlagsByPhase, e
<1>8. QueueExact' /\ CapacityAccounted' /\ NoSlack'
  BY <1>1, <1>4, <1>5, CallStepKeepsCounts
<1>9. Typed'
  BY <1>1, <1>4, <1>6 DEF ControlInv, Registry, Typed
<1>10. RunStep(c)
  BY <1>1, <1>2, <1>3, <1>4, <1>5, <1>6, <1>7 DEF RunStep, e
<1> QED BY <1>8, <1>9, <1>10, RunStepKeepsRegistry DEF ControlInv

\* A check before the run fails (failExecution).
LEMMA FailExecutionKeepsInv ==
    ASSUME ControlInv, NEW c \in Calls, FailExecution(c)
    PROVE  ControlInv'
<1> USE CallFacts
<1> DEFINE e == ExecutionOf(c)
<1>1. /\ calls[c].phase = "registered"
      /\ status' = Saved(e, "error")
      /\ calls' = [calls EXCEPT ![c].phase = "saved"]
      /\ UNCHANGED <<process, capacity, queue, active, timers, polled, frame>>
  BY DEF FailExecution
<1>2. Runs(c) /\ e \in Executions
  BY <1>1 DEF Runs
<1>3. /\ calls \in [Calls -> Call] /\ calls[c] \in Call
      /\ status \in [Executions -> Statuses] /\ ~ calls[c].waiting
      /\ status[e] \notin {"absent", "waiting"}
  BY <1>1, <1>2, RunTypes
<1> HIDE DEF e
<1>4. /\ calls' \in [Calls -> Call]
      /\ calls'[c] = [calls[c] EXCEPT !.phase = "saved"]
      /\ \A d \in Calls : d # c => calls'[d] = calls[d]
  BY <1>1, <1>3 DEF Call, Phases
<1>5. /\ calls'[c].phase = "saved"
      /\ calls'[c].waiting = calls[c].waiting
      /\ calls'[c].reserved = calls[c].reserved
  BY <1>3, <1>4 DEF Call
<1>6. /\ status' \in [Executions -> Statuses]
      /\ status'[e] \notin {"absent", "waiting"}
      /\ \A f \in Executions : f # e => status'[f] = status[f]
  BY <1>1, <1>2, <1>3 DEF Saved, Statuses
<1>7. QueueExact' /\ CapacityAccounted' /\ NoSlack'
  BY <1>1, <1>4, <1>5, CallStepKeepsCounts DEF Working, frame
<1>8. Typed'
  BY <1>1, <1>4, <1>6 DEF ControlInv, Registry, Typed, frame
<1>9. RunStep(c)
  BY <1>1, <1>2, <1>3, <1>4, <1>5, <1>6 DEF RunStep, e
<1> QED BY <1>7, <1>8, <1>9, RunStepKeepsRegistry DEF ControlInv

\* A run that ends without an entry had put its execution to wait, or held nothing
\* (processSuccessExecution).
LEMMA SaveKeepsInv ==
    ASSUME ControlInv, NEW c \in Calls, Save(c)
    PROVE  ControlInv'
<1> USE CallFacts
<1> DEFINE e == ExecutionOf(c)
<1>1. /\ calls[c].phase = "executing"
      /\ \E result \in IF calls[c].waiting THEN {"waiting"}
                                           ELSE {"success", "error"} :
            status' = IF calls[c].cancelled THEN status ELSE Saved(e, result)
      /\ calls' = IF calls[c].attached THEN [calls EXCEPT ![c].phase = "saved"]
                                       ELSE [calls EXCEPT ![c] = NoCall]
      /\ UNCHANGED <<process, capacity, queue, active, timers, polled, frame>>
  BY DEF Save
<1>2. Runs(c) /\ e \in Executions
  BY <1>1 DEF Runs
<1>3. /\ calls \in [Calls -> Call] /\ calls[c] \in Call
      /\ status \in [Executions -> Statuses]
      /\ status[e] \notin {"absent", "waiting"}
  BY <1>2, RunTypes
<1> HIDE DEF e
<1>4. /\ status' \in [Executions -> Statuses]
      /\ status'[e] # "absent"
      /\ status'[e] = "waiting" => calls[c].waiting
      /\ \A f \in Executions : f # e => status'[f] = status[f]
  BY <1>1, <1>2, <1>3 DEF Saved, Statuses
<1>5. CASE calls[c].attached
  <2>1. /\ calls' \in [Calls -> Call]
        /\ calls'[c] = [calls[c] EXCEPT !.phase = "saved"]
        /\ \A d \in Calls : d # c => calls'[d] = calls[d]
    BY <1>1, <1>3, <1>5 DEF Call, Phases
  <2>2. /\ calls'[c].phase = "saved"
        /\ calls'[c].waiting = calls[c].waiting
        /\ calls'[c].reserved = calls[c].reserved
    BY <1>3, <2>1 DEF Call
  <2>3. QueueExact' /\ CapacityAccounted' /\ NoSlack'
    BY <1>1, <2>1, <2>2, CallStepKeepsCounts DEF Working, frame
  <2>4. Typed'
    BY <1>1, <1>4, <2>1 DEF ControlInv, Registry, Typed, frame
  <2>5. RunStep(c)
    BY <1>1, <1>2, <1>3, <1>4, <2>1, <2>2 DEF RunStep, e
  <2> QED BY <2>3, <2>4, <2>5, RunStepKeepsRegistry DEF ControlInv
<1>6. CASE ~ calls[c].attached
  <2>1. /\ calls' \in [Calls -> Call]
        /\ calls'[c] = NoCall
        /\ \A d \in Calls : d # c => calls'[d] = calls[d]
    BY <1>1, <1>3, <1>6, CallTypes
  <2>2. calls'[c].phase = "none" /\ ~ calls'[c].waiting /\ ~ calls'[c].reserved
    BY <2>1 DEF NoCall, Arriving
  <2>3. active[e].call # c
    BY <1>1, <1>6 DEF ControlInv, Registry, FlagsByPhase, e
  <2>4. process = "up" => c \notin Working
    BY <1>1, <2>3 DEF ControlInv, Registry, OrphansWait, Working, Listable, e
  <2>5. QueueExact' /\ CapacityAccounted' /\ NoSlack'
    BY <1>1, <2>1, <2>2, <2>4, CallStepKeepsCounts DEF frame
  <2>6. Typed'
    BY <1>1, <1>4, <2>1 DEF ControlInv, Registry, Typed, frame
  <2>7. RunStep(c)
    BY <1>1, <1>2, <1>3, <1>4, <2>1, <2>2, <2>3 DEF RunStep, e
  <2> QED BY <2>5, <2>6, <2>7, RunStepKeepsRegistry DEF ControlInv
<1> QED BY <1>5, <1>6

-----------------------------------------------------------------------------
(* Polls and the process.                                                  *)

\* A poll and the timers it sets concern executions that wait.
LEMMA PollKeepsInv ==
    ASSUME ControlInv, GetWaitingExecutions \/ SetTimers
    PROVE  ControlInv'
<1>1. /\ timers' \cup polled' \subseteq timers \cup polled \cup Waiting
      /\ timers' \in SUBSET Executions /\ polled' \in SUBSET Executions
      /\ UNCHANGED <<status, process, calls, capacity, queue, active, frame>>
      /\ process # "down"
  BY DEF GetWaitingExecutions, SetTimers, Waiting, ControlInv, Registry, Typed, DownIsEmpty
<1>2. Typed' /\ QueueExact' /\ CapacityAccounted' /\ NoSlack'
  BY <1>1 DEF ControlInv, Registry, Typed, QueueExact, CapacityAccounted, NoSlack,
              Held, Working, frame
<1>3. EntriesLive' /\ EntriesWait' /\ DownIsEmpty' /\ FlagsByPhase'
  BY <1>1 DEF ControlInv, Registry, EntriesLive, EntriesWait, DownIsEmpty, FlagsByPhase
<1>4. OneRunPerExecution' /\ WaitingIsIdle' /\ SavedIsOver' /\ OrphansWait'
  BY <1>1 DEF ControlInv, Registry, OneRunPerExecution, WaitingIsIdle, SavedIsOver,
              OrphansWait, Runs, Siblings
<1>5. \A e \in Executions :
         e \notin timers \cup polled /\ status[e] # "waiting" => e \notin timers' \cup polled'
  BY <1>1 DEF Waiting
<1>6. AbsentIsUnknown'
  BY <1>1, <1>5 DEF ControlInv, Registry, AbsentIsUnknown
<1>7. CreationIsAlone'
  BY <1>1, <1>5, CallFacts DEF ControlInv, Registry, CreationIsAlone, Siblings
<1> QED BY <1>2, <1>3, <1>4, <1>6, <1>7 DEF ControlInv, Registry

\* While the process stops, capacity is not counted; entries that wait go.
LEMMA ShutdownKeepsInv ==
    ASSUME ControlInv, Shutdown
    PROVE  ControlInv'
<1> USE CallFacts
<1>1. /\ process' = "stopping" /\ timers' = {} /\ ends' = ends + 1
      /\ active' = [e \in Executions |->
                       IF active[e].status = "waiting" THEN NoEntry ELSE active[e]]
      /\ UNCHANGED <<status, calls, capacity, queue, polled, limit, waits, requests>>
  BY DEF Shutdown, Ends
<1>2. NoEntry \in [call : Calls \cup {None}, status : {"absent", "running", "waiting"}]
  BY DEF NoEntry
<1>3. Typed'
  BY <1>1, <1>2 DEF ControlInv, Registry, Typed
<1>4. \A e \in Executions : /\ active'[e] = active[e] \/ active'[e] = NoEntry
                            /\ active'[e].status # "waiting"
  BY <1>1 DEF NoEntry
<1>5. EntriesLive' /\ EntriesWait'
  BY <1>1, <1>4 DEF ControlInv, Registry, EntriesLive, EntriesWait, NoEntry
<1>6. FlagsByPhase'
  BY <1>1, <1>4 DEF ControlInv, Registry, FlagsByPhase, NoEntry
<1>7. QueueExact' /\ CapacityAccounted' /\ NoSlack' /\ DownIsEmpty' /\ OrphansWait'
  BY <1>1 DEF ControlInv, Registry, QueueExact, CapacityAccounted, NoSlack,
              DownIsEmpty, OrphansWait
<1>8. AbsentIsUnknown' /\ CreationIsAlone'
  BY <1>1 DEF ControlInv, Registry, AbsentIsUnknown, CreationIsAlone, Siblings
<1>9. OneRunPerExecution' /\ WaitingIsIdle' /\ SavedIsOver'
  BY <1>1 DEF ControlInv, Registry, OneRunPerExecution, WaitingIsIdle, SavedIsOver,
              Runs, Siblings
<1> QED BY <1>3, <1>5, <1>6, <1>7, <1>8, <1>9 DEF ControlInv, Registry

\* Nothing is left of a process that has ended but the rows.
LEMMA StoppedKeepsInv ==
    ASSUME ControlInv, Stopped, ends' \in Nat
    PROVE  ControlInv'
<1> USE CallFacts
<1>1. /\ process' = "down" /\ capacity' = limit /\ queue' = <<>>
      /\ calls' = [c \in Calls |-> NoCall]
      /\ active' = [e \in Executions |-> NoEntry]
      /\ timers' = {} /\ polled' = {}
      /\ UNCHANGED <<status, limit, waits, requests>>
  BY DEF Stopped, FreshMemory
<1>2. /\ \A c \in Calls : /\ calls'[c] = NoCall
                          /\ calls'[c].phase = "none"
                          /\ ~ calls'[c].reserved /\ ~ calls'[c].waiting
      /\ \A e \in Executions : /\ active'[e] = NoEntry
                               /\ active'[e].call = None
                               /\ active'[e].status = "absent"
  BY <1>1 DEF NoCall, NoEntry, Arriving
<1>3. Typed'
  <2>1. NoEntry \in [call : Calls \cup {None}, status : {"absent", "running", "waiting"}]
    BY DEF NoEntry
  <2>2. limit \in Int
    BY DEF ControlInv, Registry, Typed
  <2> QED BY <1>1, <2>1, <2>2, CallTypes DEF ControlInv, Registry, Typed
<1>4. QueueExact'
  BY <1>1, <1>2 DEF QueueExact
<1>5. EntriesLive' /\ EntriesWait' /\ DownIsEmpty' /\ FlagsByPhase'
  BY <1>1, <1>2 DEF EntriesLive, EntriesWait, DownIsEmpty, FlagsByPhase
<1>6. AbsentIsUnknown' /\ CreationIsAlone'
  BY <1>1, <1>2 DEF AbsentIsUnknown, CreationIsAlone, Before
<1>7. OneRunPerExecution' /\ WaitingIsIdle' /\ SavedIsOver'
  BY <1>2 DEF OneRunPerExecution, WaitingIsIdle, SavedIsOver, Runs
<1>8. OrphansWait' /\ CapacityAccounted' /\ NoSlack'
  BY <1>1 DEF OrphansWait, CapacityAccounted, NoSlack
<1> QED BY <1>3, <1>4, <1>5, <1>6, <1>7, <1>8 DEF ControlInv, Registry

\* Memory in which nobody holds capacity accounts for all of it.
LEMMA NobodyHolds ==
    ASSUME Typed', \A c \in Calls : ~ calls'[c].reserved,
           capacity' = limit', queue' = <<>>
    PROVE  CapacityAccounted' /\ NoSlack'
<1>1. Held' = {} /\ Working' = {}
  BY DEF Held, Working
<1>2. Cardinality({}) = 0
  BY FS_EmptySet
<1>3. limit' \in Nat /\ waits' \in Nat /\ Len(queue') = 0
  BY CallFacts DEF Typed
<1> QED BY <1>1, <1>2, <1>3 DEF CapacityAccounted, NoSlack

\* A new process starts with all of its capacity (runEnqueuedExecutions).
LEMMA RestartKeepsInv ==
    ASSUME ControlInv, Restart
    PROVE  ControlInv'
<1> USE CallFacts
<1>1. /\ process = "down" /\ process' = "up"
      /\ status' = [e \in Executions |->
                       IF status[e] = "running" THEN "crashed" ELSE status[e]]
      /\ calls' = [c \in Calls |->
                      IF status[ExecutionOf(c)] = "new" /\ c[2] = 1
                      THEN Arriving("resume") ELSE NoCall]
      /\ UNCHANGED <<capacity, queue, active, timers, polled, frame>>
  BY DEF Restart
<1>2. /\ capacity = limit /\ queue = <<>> /\ timers = {} /\ polled = {}
      /\ \A e \in Executions : active[e] = NoEntry
  BY <1>1 DEF ControlInv, Registry, DownIsEmpty
<1>3. Typed'
  <2>1. status' \in [Executions -> Statuses]
    BY <1>1 DEF ControlInv, Registry, Typed, Statuses
  <2> QED BY <1>1, <2>1, CallTypes DEF ControlInv, Registry, Typed, frame
<1>4. \A c \in Calls :
         /\ calls'[c].phase \in {"none", "arriving"}
         /\ calls'[c].phase = "arriving" =>
               calls'[c].kind = "resume" /\ status'[ExecutionOf(c)] = "new"
         /\ ~ calls'[c].reserved /\ ~ calls'[c].waiting
  BY <1>1 DEF NoCall, Arriving
<1>5. \A e \in Executions : /\ active'[e].call = None
                            /\ active'[e].status = "absent"
  BY <1>1, <1>2 DEF NoEntry
<1>6. QueueExact'
  BY <1>1, <1>2, <1>4 DEF QueueExact
<1>7. EntriesLive' /\ EntriesWait' /\ DownIsEmpty' /\ FlagsByPhase'
  BY <1>1, <1>4, <1>5 DEF EntriesLive, EntriesWait, DownIsEmpty, FlagsByPhase
<1>8. AbsentIsUnknown' /\ CreationIsAlone'
  BY <1>1, <1>2, <1>4 DEF AbsentIsUnknown, CreationIsAlone, Before
<1>9. OneRunPerExecution' /\ WaitingIsIdle' /\ SavedIsOver'
  BY <1>4 DEF OneRunPerExecution, WaitingIsIdle, SavedIsOver, Runs
<1>10. OrphansWait'
  BY <1>4 DEF OrphansWait
<1>11. CapacityAccounted' /\ NoSlack'
  BY <1>1, <1>2, <1>3, <1>4, NobodyHolds DEF frame
<1> QED BY <1>3, <1>6, <1>7, <1>8, <1>9, <1>10, <1>11 DEF ControlInv, Registry

\* The first process starts with all of its capacity (ConcurrencyControlService).
LEMMA InitControlInv ==
    ASSUME Init
    PROVE  ControlInv
<1> USE CallFacts
<1>1. /\ limit \in Limits /\ capacity = limit /\ queue = <<>> /\ process = "up"
      /\ timers = {} /\ polled = {} /\ waits = 0
      /\ \A c \in Calls : calls[c].phase = "none" /\ ~ calls[c].reserved /\ ~ calls[c].waiting
      /\ \A e \in Executions : active[e].call = None /\ active[e].status = "absent"
  BY DEF Init, NoCall, NoEntry, Arriving
<1>2. Typed
  <2>1. NoEntry \in [call : Calls \cup {None}, status : {"absent", "running", "waiting"}]
    BY DEF NoEntry
  <2>2. \A l \in Limits : l \in Int
    OBVIOUS
  <2> QED BY <2>1, <2>2, CallTypes DEF Init, Typed, Statuses
<1>3. QueueExact /\ EntriesLive /\ EntriesWait /\ DownIsEmpty /\ FlagsByPhase
  BY <1>1 DEF QueueExact, EntriesLive, EntriesWait, DownIsEmpty, FlagsByPhase
<1>4. AbsentIsUnknown /\ CreationIsAlone
  BY <1>1 DEF AbsentIsUnknown, CreationIsAlone, Before
<1>5. OneRunPerExecution /\ WaitingIsIdle /\ SavedIsOver /\ OrphansWait
  BY <1>1 DEF OneRunPerExecution, WaitingIsIdle, SavedIsOver, OrphansWait, Runs
<1>6. CapacityAccounted /\ NoSlack
  <2>1. Held = {} /\ Working = {}
    BY <1>1 DEF Held, Working
  <2>2. Cardinality({}) = 0
    BY FS_EmptySet
  <2> QED BY <1>1, <2>1, <2>2 DEF CapacityAccounted, NoSlack
<1> QED BY <1>2, <1>3, <1>4, <1>5, <1>6 DEF ControlInv, Registry

-----------------------------------------------------------------------------
(* The invariant, and what follows from it.                                *)

\* Every step keeps the invariant.
LEMMA NextControlInv ==
    ASSUME ControlInv, [Next]_vars
    PROVE  ControlInv'
<1>1. ASSUME NEW c \in Calls, CallStep(c) \/ PutToWait(c) \/ TimeOut(c)
      PROVE  ControlInv'
  <2>1. CASE CallStep(c)
    BY <2>1, ReserveKeepsInv, AddKeepsInv, RefuseKeepsInv, BeginKeepsInv,
       FailExecutionKeepsInv, SaveKeepsInv, FinalizeKeepsInv DEF CallStep
  <2> QED BY <1>1, <2>1, PutToWaitKeepsInv, TimeOutKeepsInv
<1>2. ASSUME NEW e \in Executions,
             Create(e) \/ Stop(e) \/ StartExecution(e) \/ WaitingWebhook(e)
      PROVE  ControlInv'
  <2>1. CASE Stop(e)
    BY <2>1, StopQueuedKeepsInv, StopDuringRunKeepsInv DEF Stop
  <2> QED BY <1>2, <2>1, CreateKeepsInv, StartExecutionKeepsInv, WaitingWebhookKeepsInv
<1>3. CASE GetWaitingExecutions \/ SetTimers
  BY <1>3, PollKeepsInv
<1>4. CASE Shutdown
  BY <1>4, ShutdownKeepsInv
<1>5. CASE Exit \/ Crash
  <2>1. ends \in Nat
    BY DEF ControlInv, Registry, Typed
  <2> QED BY <1>5, <2>1, StoppedKeepsInv DEF Exit, Crash, Ends
<1>6. CASE Restart
  BY <1>6, RestartKeepsInv
<1>7. CASE UNCHANGED vars
  <2>1. Typed' /\ QueueExact' /\ CapacityAccounted' /\ NoSlack'
    BY <1>7 DEF ControlInv, Registry, Typed, QueueExact, CapacityAccounted, NoSlack,
                Held, Working, vars, frame
  <2>2. EntriesLive' /\ EntriesWait' /\ DownIsEmpty' /\ FlagsByPhase' /\ AbsentIsUnknown'
    BY <1>7 DEF ControlInv, Registry, EntriesLive, EntriesWait, DownIsEmpty,
                FlagsByPhase, AbsentIsUnknown, vars, frame
  <2>3. /\ OneRunPerExecution' /\ WaitingIsIdle' /\ SavedIsOver' /\ OrphansWait'
        /\ CreationIsAlone'
    BY <1>7 DEF ControlInv, Registry, OneRunPerExecution, WaitingIsIdle, SavedIsOver,
                OrphansWait, CreationIsAlone, Runs, Siblings, vars
  <2> QED BY <2>1, <2>2, <2>3 DEF ControlInv, Registry
<1> QED BY <1>1, <1>2, <1>3, <1>4, <1>5, <1>6, <1>7 DEF Next

\* At every moment, for any number of executions and any limit, the registry is
\* consistent and the capacity is accounted for.
THEOREM SpecControlInv == Spec => []ControlInv
<1>1. Init => ControlInv
  BY InitControlInv
<1>2. ControlInv /\ [Next]_vars => ControlInv'
  BY NextControlInv
<1> QED BY <1>1, <1>2, PTL DEF Spec

\* Every variable keeps its type, and an entry that runs holds the promise of a live
\* call of its execution (ActiveExecutions).
THEOREM TypeCorrect == Spec => []TypeOK
<1>1. ControlInv => TypeOK
  BY DEF ControlInv, Registry, Typed, EntriesLive, Listable, TypeOK
<1> QED BY <1>1, SpecControlInv, PTL

\* The queue holds exactly the calls that wait for capacity, each once
\* (ConcurrencyQueue.enqueue, remove, resolveNext).
THEOREM QueueIsExact == Spec => []QueueHoldsTheQueued
<1>1. ControlInv => QueueHoldsTheQueued
  <2> SUFFICES ASSUME ControlInv
               PROVE  /\ \A i, j \in 1..Len(queue) : queue[i] = queue[j] => i = j
                      /\ {queue[i] : i \in 1..Len(queue)}
                            = {c \in Calls : calls[c].phase = "queued"}
    BY DEF QueueHoldsTheQueued
  <2>1. \A i \in 1..Len(queue) : queue[i] \in Calls
    BY DEF ControlInv, Registry, Typed
  <2> QED BY <2>1 DEF ControlInv, Registry, QueueExact
<1> QED BY <1>1, SpecControlInv, PTL

\* However often an execution is resumed, one call runs it at a time
\* (updateExistingExecution with its condition on the row).
THEOREM OneRun == Spec => []OneRunPerExecution
<1>1. ControlInv => OneRunPerExecution
  BY DEF ControlInv, Registry
<1> QED BY <1>1, SpecControlInv, PTL

\* What the counts are made of, and the capacity nobody has.
LEMMA CountTypes ==
    ASSUME ControlInv
    PROVE  /\ capacity \in Int /\ limit \in Nat /\ waits \in Nat /\ Len(queue) \in Nat
           /\ Cardinality(Held) \in Nat /\ Cardinality(Working) \in Nat
           /\ Cardinality(Working) <= Cardinality(Held)
<1>1. capacity \in Int /\ limit \in Nat /\ waits \in Nat /\ Len(queue) \in Nat
  BY CallFacts DEF ControlInv, Registry, Typed
<1>2. Held \in SUBSET Calls /\ Working \in SUBSET Held
  BY DEF Held, Working
<1>3. Cardinality(Working) <= Cardinality(Held)
  BY <1>2, CallFacts, FS_Subset
<1> QED BY <1>1, <1>2, <1>3, CallFacts

\* No unit of capacity is given back twice, and no more are lost than executions were
\* put to wait (ConcurrencyCapacityReservation.release and its callers).
THEOREM SlotsLost == Spec => []SlotsAreLostOnlyToWaits
<1>1. ControlInv => SlotsAreLostOnlyToWaits
  <2> SUFFICES ASSUME ControlInv, process = "up"
               PROVE  limit - capacity - Cardinality(Held) - Len(queue) \in 0..waits
    BY DEF SlotsAreLostOnlyToWaits, Lost
  <2>1. /\ capacity + Cardinality(Held) + Len(queue) <= limit
        /\ limit <= capacity + Cardinality(Working) + Len(queue) + waits
    BY DEF ControlInv, CapacityAccounted
  <2> QED BY <2>1, CountTypes
<1> QED BY <1>1, SpecControlInv, PTL

\* Nobody is in the queue while there is a free slot (ConcurrencyQueue.resolveNext).
THEOREM NoIdle == Spec => []NoIdleSlot
<1>1. ControlInv => NoIdleSlot
  <2> SUFFICES ASSUME ControlInv, process = "up", queue # <<>>
               PROVE  Cardinality(Held)
                         + (limit - capacity - Cardinality(Held) - Len(queue)) >= limit
    BY DEF NoIdleSlot, Lost
  <2>1. capacity + Len(queue) <= 0
    BY DEF ControlInv, NoSlack
  <2> QED BY <2>1, CountTypes
<1> QED BY <1>1, SpecControlInv, PTL

\* No result overwrites the status a user has canceled (hookFunctionsSave).
THEOREM CancelKept == Spec => CancelIsNotOverwritten
<1> DEFINE Kept == \A e \in Executions :
                      status[e] = "canceled" => status'[e] \in {"canceled", "running"}
<1>1. ControlInv /\ [Next]_vars => [Kept]_vars
  <2> SUFFICES ASSUME ControlInv, Next, NEW e \in Executions, status[e] = "canceled"
               PROVE  status'[e] \in {"canceled", "running"}
    OBVIOUS
  <2>1. status \in [Executions -> Statuses]
    BY DEF ControlInv, Registry, Typed
  <2>2. ASSUME NEW c \in Calls, CallStep(c) \/ PutToWait(c) \/ TimeOut(c)
        PROVE  status'[e] \in {"canceled", "running"}
    <3>1. CASE Save(c) \/ FailExecution(c)
      BY <2>1, <3>1 DEF Save, FailExecution, Saved
    <3>2. CASE Add(c) \/ Begin(c)
      BY <2>1, <3>2 DEF Add, Begin
    <3>3. CASE PutToWait(c) \/ TimeOut(c)
      BY <2>1, <3>3 DEF PutToWait, TimeOut
    <3>4. CASE Reserve(c) \/ Refuse(c) \/ FinalizeExecution(c)
      BY <3>4 DEF Reserve, Refuse, FinalizeExecution
    <3> QED BY <2>2, <3>1, <3>2, <3>3, <3>4 DEF CallStep
  <2>3. ASSUME NEW f \in Executions,
               Create(f) \/ Stop(f) \/ StartExecution(f) \/ WaitingWebhook(f)
        PROVE  status'[e] \in {"canceled", "running"}
    <3>1. CASE Create(f)
      BY <2>1, <3>1 DEF Create
    <3>2. CASE Stop(f)
      BY <2>1, <3>2 DEF Stop, StopQueued, StopDuringRun
    <3>3. CASE StartExecution(f) \/ WaitingWebhook(f)
      BY <3>3 DEF StartExecution, WaitingWebhook
    <3> QED BY <2>3, <3>1, <3>2, <3>3
  <2>4. CASE GetWaitingExecutions \/ SetTimers \/ Shutdown
    BY <2>4 DEF GetWaitingExecutions, SetTimers, Shutdown
  <2>5. CASE Exit \/ Crash
    BY <2>5 DEF Exit, Crash, Stopped
  <2>6. CASE Restart
    BY <2>1, <2>6 DEF Restart
  <2> QED BY <2>2, <2>3, <2>4, <2>5, <2>6 DEF Next
<1> QED BY <1>1, SpecControlInv, PTL DEF Spec, CancelIsNotOverwritten
=============================================================================
