-------------------------- MODULE JobPlanningProofs --------------------------
(***************************************************************************)
(* What holds of JobPlanning for every set of mains, rules and versions,   *)
(* every schedule, and every bound.  First the schedule, then the          *)
(* invariant, then that every action keeps it.                             *)
(***************************************************************************)
EXTENDS JobPlanning, FiniteSetTheorems, NaturalsInduction, WellFoundedInduction, TLAPS

-----------------------------------------------------------------------------
(* The schedule.                                                           *)

\* A set of numbers that is not empty has a least one, which Min yields.
LEMMA MinIsLeast ==
    ASSUME NEW S \in SUBSET Nat, S # {}
    PROVE  /\ Min(S) \in S
           /\ \A y \in S : Min(S) <= y
<1> DEFINE Below == {p \in Nat \X Nat : p[1] < p[2]}
<1>1. IsWellFoundedOn(Below, Nat)
  BY NatLessThanWellFounded DEF OpToRel
<1>2. \E x \in S : \A y \in S : <<y, x>> \notin Below
  <2> HIDE DEF Below
  <2> QED BY <1>1, WFMin
<1>3. ASSUME NEW x \in S, NEW y \in S, <<y, x>> \notin Below
      PROVE  x =< y
  <2>1. <<y, x>> \in Nat \X Nat
    OBVIOUS
  <2>2. ~(y < x)
    BY <1>3, <2>1
  <2> QED BY <2>2
<1>4. \E x \in S : \A y \in S : x =< y
  <2> HIDE DEF Below
  <2> QED BY <1>2, <1>3
<1> QED BY <1>4 DEF Min

\* Nothing that is null is a number.
LEMMA NoneIsNoNumber == None \notin Nat /\ None \notin Job
BY NoneAssumption

\* A least instant, or null.
LEMMA MinOrNoneIs ==
    ASSUME NEW S \in SUBSET Nat
    PROVE  /\ MinOrNone(S) \in Nat \union {None}
           /\ MinOrNone(S) # None <=> S # {}
           /\ MinOrNone(S) # None =>
                MinOrNone(S) \in S /\ \A y \in S : MinOrNone(S) <= y
BY MinIsLeast, NoneIsNoNumber DEF MinOrNone

\* Multiples of a step.
LEMMA Multiples ==
    ASSUME NEW e \in Nat \ {0}, NEW a \in Nat
    PROVE  \E b \in Nat : b > a /\ b <= a + e /\ b % e = 0
<1> DEFINE b == a - (a % e) + e
<1>1. a % e \in 0 .. e - 1
  OBVIOUS
<1>2. a % e <= a
  OBVIOUS
<1>3. b \in Nat /\ b > a /\ b <= a + e
  BY <1>1, <1>2
<1>4. b % e = 0
  OBVIOUS
<1> QED BY <1>3, <1>4

\* What is left of a multiple and a remainder is the remainder.
LEMMA RemainderIs ==
    ASSUME NEW e \in Nat \ {0}, NEW k \in Nat, NEW m \in 0 .. e - 1
    PROVE  (e * k + m) % e = m
<1> DEFINE x == e * k + m
<1> DEFINE d == k - (x \div e)
<1>1. x \in Nat
  OBVIOUS
<1>2. x = e * (x \div e) + (x % e) /\ x \div e \in Nat /\ x % e \in 0 .. e - 1
  <2> HIDE DEF x
  <2> QED BY <1>1
<1>3. e * d = (x % e) - m
  BY <1>2
<1>4. d \in Int /\ (d > 0 => e * d >= e) /\ (d < 0 => e * d <= -e)
  <2>1. d \in Int
    BY <1>2
  <2> HIDE DEF d
  <2> QED BY <2>1
<1>5. e * d < e /\ e * d > -e
  BY <1>2, <1>3
<1>6. d = 0
  <2> HIDE DEF d
  <2> QED BY <1>4, <1>5
<1> QED BY <1>2, <1>6

\* Steps from a multiple are multiples.
LEMMA StepsAdd ==
    ASSUME NEW e \in Nat \ {0}, NEW a \in Nat, NEW b \in Nat, a % e = 0
    PROVE  (a + b) % e = 0 <=> b % e = 0
<1>1. a = e * (a \div e) /\ a \div e \in Nat
  OBVIOUS
<1>2. b = e * (b \div e) + (b % e) /\ b \div e \in Nat /\ b % e \in 0 .. e - 1
  OBVIOUS
<1> DEFINE k == (a \div e) + (b \div e)
<1>3. a + b = e * k + (b % e)
  BY <1>1, <1>2
<1>4. k \in Nat /\ b % e \in 0 .. e - 1
  BY <1>1, <1>2
<1>5. (e * k + (b % e)) % e = b % e
  <2> HIDE DEF k
  <2> QED BY <1>4, RemainderIs
<1>6. (a + b) % e = b % e
  BY <1>3, <1>5
<1> QED BY <1>6

\* The fires after an instant are later instants.
LEMMA FiresAreLater ==
    ASSUME NEW r \in Rules, NEW x \in Nat
    PROVE  /\ FiresAfter(r, x) \subseteq Nat
           /\ \A y \in FiresAfter(r, x) : y > x
<1>1. CASE Schedule[r].kind = "cron"
  <2>1. Schedule[r].at \subseteq Nat
    BY <1>1, ScheduleAssumption
  <2> QED BY <1>1, <2>1 DEF FiresAfter
<1>2. CASE Schedule[r].kind = "interval"
  <2>1. FiresAfter(r, x) = {y \in x + 1 .. Horizon : (y - x) % Schedule[r].every = 0}
    BY <1>2 DEF FiresAfter
  <2> QED BY <2>1, TimesAssumption
<1>3. CASE Schedule[r].kind = "degenerate"
  BY <1>3 DEF FiresAfter
<1> QED BY <1>1, <1>2, <1>3, ScheduleAssumption

\* A schedule goes on past what the clock and its window can reach.
LEMMA FiresGoOn ==
    ASSUME NEW r \in Rules, Schedule[r].kind # "degenerate",
           NEW x \in Nat, x <= MaxTime + Window
    PROVE  \E y \in FiresAfter(r, x) : y > MaxTime + Window
<1> DEFINE end == MaxTime + Window
<1>0. end \in Nat /\ Horizon \in Nat
  BY TimesAssumption
<1>1. CASE Schedule[r].kind = "cron"
  <2>1. PICK y \in Schedule[r].at : y > end
    BY <1>1, HorizonAssumption
  <2>2. y \in Nat
    BY <1>1, ScheduleAssumption
  <2>3. y > x
    <3> HIDE DEF end
    <3>1. x <= end
      BY DEF end
    <3> QED BY <1>0, <2>1, <2>2, <3>1
  <2>4. y \in FiresAfter(r, x)
    BY <1>1, <2>1, <2>3 DEF FiresAfter
  <2> QED BY <2>1, <2>4
<1>2. CASE Schedule[r].kind = "interval"
  <2> DEFINE e == Schedule[r].every
  <2>1. e \in Nat \ {0} /\ end + e <= Horizon
    BY <1>2, ScheduleAssumption, HorizonAssumption
  <2>2. x <= end
    OBVIOUS
  <2> HIDE DEF end, e
  <2>3. PICK b \in Nat : b > end - x /\ b <= end - x + e /\ b % e = 0
    <3>1. end - x \in Nat
      BY <1>0, <2>2
    <3> QED BY <2>1, <3>1, Multiples
  <2>4. x + b \in x + 1 .. Horizon /\ (x + b) - x = b /\ x + b > end
    BY <1>0, <2>1, <2>2, <2>3
  <2>5. x + b \in FiresAfter(r, x)
    <3>1. FiresAfter(r, x) = {y \in x + 1 .. Horizon : (y - x) % e = 0}
      BY <1>2 DEF FiresAfter, e
    <3> QED BY <2>3, <2>4, <3>1
  <2> QED BY <2>4, <2>5 DEF end
<1> QED BY <1>1, <1>2, ScheduleAssumption

\* The occurrences from one of them are those that follow it.
LEMMA FiresOnGrid ==
    ASSUME NEW r \in Rules, NEW first \in Nat,
           NEW n \in OccurrencesFrom(r, first)
    PROVE  /\ n \in Nat /\ n >= first
           /\ OccurrencesFrom(r, n) = {x \in OccurrencesFrom(r, first) : x >= n}
<1>1. first # None
  BY NoneIsNoNumber
<1>2. OccurrencesFrom(r, first) = {first} \union FiresAfter(r, first)
  BY <1>1 DEF OccurrencesFrom
<1>3. n \in Nat /\ n >= first
  BY <1>2, FiresAreLater
<1>4. OccurrencesFrom(r, n) = {n} \union FiresAfter(r, n)
  BY <1>3, NoneIsNoNumber DEF OccurrencesFrom
<1>5. FiresAfter(r, first) \subseteq Nat /\ FiresAfter(r, n) \subseteq Nat
  BY <1>3, FiresAreLater
<1>6. \A x \in Nat : x > n => (x \in FiresAfter(r, n) <=> x \in FiresAfter(r, first))
  <2>1. CASE n = first
    BY <2>1
  <2>2. CASE n # first /\ Schedule[r].kind = "cron"
    BY <1>3, <2>2 DEF FiresAfter
  <2>3. CASE n # first /\ Schedule[r].kind = "interval"
    <3> DEFINE e == Schedule[r].every
    <3>1. e \in Nat \ {0} /\ Horizon \in Nat
      BY <2>3, ScheduleAssumption, TimesAssumption
    <3>2. /\ FiresAfter(r, n) = {y \in n + 1 .. Horizon : (y - n) % e = 0}
          /\ FiresAfter(r, first) = {y \in first + 1 .. Horizon : (y - first) % e = 0}
      BY <2>3 DEF FiresAfter
    <3> HIDE DEF e
    <3>3. (n - first) % e = 0 /\ n - first \in Nat
      BY <1>2, <1>3, <2>3, <3>2
    <3> SUFFICES ASSUME NEW x \in Nat, x > n
                 PROVE  x \in FiresAfter(r, n) <=> x \in FiresAfter(r, first)
      OBVIOUS
    <3>4. x - n \in Nat /\ x - first = (n - first) + (x - n)
      BY <1>3
    <3>5. (x - first) % e = 0 <=> (x - n) % e = 0
      BY <3>1, <3>3, <3>4, StepsAdd
    <3>6. /\ x \in n + 1 .. Horizon <=> x <= Horizon
          /\ x \in first + 1 .. Horizon <=> x <= Horizon
      BY <1>3, <3>1
    <3> QED BY <3>2, <3>5, <3>6
  <2>4. CASE Schedule[r].kind = "degenerate"
    BY <2>4 DEF FiresAfter
  <2> QED BY <2>1, <2>2, <2>3, <2>4, ScheduleAssumption
<1>7. \A x \in FiresAfter(r, n) : x > n
  BY <1>3, FiresAreLater
<1>8. \A x \in OccurrencesFrom(r, first) : x \in Nat
  BY <1>2, <1>5
<1> QED BY <1>2, <1>3, <1>4, <1>5, <1>6, <1>7, <1>8

\* A clock is null exactly for a rule that never fires.
LiveClock(r, clock) == (clock # None) = (Schedule[r].kind # "degenerate")

\* The first run of a rule follows the registration.
LEMMA FirstRunFollows ==
    ASSUME NEW r \in Rules, NEW t \in 0 .. MaxTime
    PROVE  /\ FirstRunAt(r, t) \in Nat \union {None}
           /\ LiveClock(r, FirstRunAt(r, t))
           /\ FirstRunAt(r, t) # None => FirstRunAt(r, t) > t
<1>1. t \in Nat /\ t <= MaxTime + Window
  BY TimesAssumption
<1>2. FiresAfter(r, t) \in SUBSET Nat /\ \A y \in FiresAfter(r, t) : y > t
  BY <1>1, FiresAreLater
<1>3. FiresAfter(r, t) # {} <=> Schedule[r].kind # "degenerate"
  <2>1. ASSUME Schedule[r].kind # "degenerate" PROVE FiresAfter(r, t) # {}
    BY <1>1, <2>1, FiresGoOn
  <2>2. ASSUME Schedule[r].kind = "degenerate" PROVE FiresAfter(r, t) = {}
    BY <2>2 DEF FiresAfter
  <2> QED BY <2>1, <2>2
<1> QED BY <1>2, <1>3, MinOrNoneIs DEF FirstRunAt, LiveClock

\* What a pass records of a job: fires from its clock to the end of the window.
LEMMA RecordedAreFires ==
    ASSUME NEW r \in Rules, NEW job \in Job, job.next # None, NEW t \in 0 .. MaxTime
    PROVE  /\ job.next \in Nat
           /\ OccurrencesFrom(r, job.next) \subseteq Nat
           /\ \A x \in OccurrencesFrom(r, job.next) : x >= job.next
           /\ Recorded(r, job, t) \subseteq OccurrencesFrom(r, job.next)
           /\ \A x \in Recorded(r, job, t) : x <= t + Window
<1>1. job.next \in Nat
  BY DEF Job
<1>2. OccurrencesFrom(r, job.next) = {job.next} \union FiresAfter(r, job.next)
  BY DEF OccurrencesFrom
<1>3. /\ FiresAfter(r, job.next) \subseteq Nat
      /\ \A y \in FiresAfter(r, job.next) : y > job.next
  BY <1>1, FiresAreLater
<1>4. OccurrencesFrom(r, job.next) \subseteq Nat
  BY <1>1, <1>2, <1>3
<1>5. \A x \in OccurrencesFrom(r, job.next) : x >= job.next
  BY <1>1, <1>2, <1>3
<1>6. /\ Recorded(r, job, t) \subseteq OccurrencesFrom(r, job.next)
      /\ \A x \in Recorded(r, job, t) : x <= t + Window
  BY DEF Recorded
<1> QED BY <1>1, <1>4, <1>5, <1>6

\* Where planOccurrences puts the clock of a job: at a fire, and every fire
\* before it is recorded.
LEMMA NextRunIs ==
    ASSUME NEW r \in Rules, NEW job \in Job, job.next # None, NEW t \in 0 .. MaxTime,
           Schedule[r].kind # "degenerate"
    PROVE  /\ NextRunAt(r, job, t) \in OccurrencesFrom(r, job.next)
           /\ NextRunAt(r, job, t) \in Nat
           /\ NextRunAt(r, job, t) >= job.next
           /\ \A x \in OccurrencesFrom(r, job.next) :
                x < NextRunAt(r, job, t) => x \in Recorded(r, job, t)
<1> DEFINE end == MaxTime + Window
<1> DEFINE left == OccurrencesFrom(r, job.next) \ Recorded(r, job, t)
<1>0. end \in Nat /\ t + Window <= end /\ t + Window \in Nat
  BY TimesAssumption
<1>1. /\ job.next \in Nat
      /\ OccurrencesFrom(r, job.next) \subseteq Nat
      /\ \A x \in OccurrencesFrom(r, job.next) : x >= job.next
      /\ \A x \in Recorded(r, job, t) : x <= t + Window
  BY RecordedAreFires
<1>2. OccurrencesFrom(r, job.next) = {job.next} \union FiresAfter(r, job.next)
  BY DEF OccurrencesFrom
<1>3. \E x \in OccurrencesFrom(r, job.next) : x > end
  <2>1. CASE job.next <= end
    <3>1. \E x \in FiresAfter(r, job.next) : x > end
      BY <1>1, <2>1, FiresGoOn
    <3> QED BY <1>2, <3>1
  <2>2. CASE ~(job.next <= end)
    <3>1. job.next > end
      BY <1>0, <1>1, <2>2
    <3> QED BY <1>2, <3>1
  <2> QED BY <2>1, <2>2
<1>4. left # {}
  <2> HIDE DEF end
  <2>1. PICK x \in OccurrencesFrom(r, job.next) : x > end
    BY <1>3
  <2>2. x \notin Recorded(r, job, t)
    BY <1>0, <1>1, <2>1
  <2> QED BY <2>1, <2>2
<1>5. left \in SUBSET Nat
  BY <1>1
<1>6. NextRunAt(r, job, t) = MinOrNone(left)
  BY DEF NextRunAt
<1>7. NextRunAt(r, job, t) \in left /\ \A y \in left : NextRunAt(r, job, t) <= y
  <2> HIDE DEF left
  <2> QED BY <1>4, <1>5, <1>6, MinOrNoneIs
<1>8. ASSUME NEW x \in OccurrencesFrom(r, job.next), x < NextRunAt(r, job, t)
      PROVE  x \in Recorded(r, job, t)
  <2>1. x \in left => NextRunAt(r, job, t) <= x
    BY <1>7
  <2>2. x \in Nat /\ NextRunAt(r, job, t) \in Nat
    BY <1>1, <1>7
  <2> QED BY <1>8, <2>1, <2>2
<1> QED BY <1>1, <1>7, <1>8

\* What becomes of a row that is planned or deferred: only its clock changes,
\* and not back.
LEMMA AdvancedIs ==
    ASSUME NEW r \in Rules, NEW job \in Job, job.next # None, NEW t \in 0 .. MaxTime,
           Schedule[r].kind # "degenerate"
    PROVE  /\ Advanced(r, job, t) \in Job
           /\ Advanced(r, job, t).id = job.id
           /\ Advanced(r, job, t).first = job.first
           /\ Advanced(r, job, t).next \in Nat
           /\ Advanced(r, job, t).next >= job.next \/ Advanced(r, job, t).next > t
           /\ r \notin broken => Advanced(r, job, t).next = NextRunAt(r, job, t)
<1>1. PlanRetry \in Nat \ {0} /\ t \in Nat
  BY TimesAssumption
<1>2. CASE r \in broken
  <2>1. Advanced(r, job, t) = [job EXCEPT !.next = t + PlanRetry]
    BY <1>2 DEF Advanced
  <2>2. t + PlanRetry \in Nat /\ t + PlanRetry > t
    BY <1>1
  <2> QED BY <1>2, <2>1, <2>2 DEF Job
<1>3. CASE r \notin broken
  <2>1. Advanced(r, job, t) = [job EXCEPT !.next = NextRunAt(r, job, t)]
    BY <1>3 DEF Advanced
  <2>2. NextRunAt(r, job, t) \in Nat /\ NextRunAt(r, job, t) >= job.next
    BY NextRunIs
  <2> QED BY <1>3, <2>1, <2>2 DEF Job
<1> QED BY <1>2, <1>3
-----------------------------------------------------------------------------
(* The invariant.                                                          *)

\* Rows, their ids and clocks.
RowsShaped ==
    /\ jobs \in [Rules -> Job \union {None}]
    /\ ids \in [Rules -> Nat]
    /\ \A r \in Stored :
        /\ jobs[r].id \in 1 .. ids[r]
        /\ LiveClock(r, jobs[r].next)
        /\ LiveClock(r, jobs[r].first)

\* A recorded occurrence belongs to the row that is stored.
TasksOwned ==
    /\ tasks \subseteq Occurrence
    /\ ran \subseteq Occurrence
    /\ \A o \in tasks : o.rule \in Stored /\ o.job = jobs[o.rule].id

\* A pass holds rows that are stored, as they are.
PassShaped(h) ==
    /\ pass[h].phase \in {"idle", "claimed"}
    /\ pass[h].phase = "claimed" =>
        /\ pass[h].now \in 0 .. now
        /\ DOMAIN pass[h].claimed \subseteq Stored
        /\ \A r \in DOMAIN pass[h].claimed :
            pass[h].claimed[r] = jobs[r] /\ jobs[r].next # None

\* What an activation wants.
DesiredShaped(a) ==
    /\ DOMAIN a.desired \subseteq Rules
    /\ \A r \in DOMAIN a.desired :
        a.desired[r] \in Nat \union {None} /\ LiveClock(r, a.desired[r])

\* What it found: no row out of date, and removals that it does not want.
FoundShaped(a) ==
    /\ a.inserts \subseteq DOMAIN a.desired
    /\ DOMAIN a.redefined = {}
    /\ DOMAIN a.removed \subseteq Rules \ DOMAIN a.desired

\* What it wrote: rows not stored yet, deletions of rows still stored, and
\* copies of rows that others inserted.
WrittenShaped(a) ==
    /\ a.now \in 0 .. now
    /\ DOMAIN a.own \subseteq DOMAIN a.desired \ Stored
    /\ \A r \in DOMAIN a.own : a.own[r] = FreshJob(ids[r] + 1, a.desired[r])
    /\ DOMAIN a.removed \subseteq Stored \ DOMAIN a.desired
    /\ \A r \in DOMAIN a.removed : a.removed[r] = jobs[r].id
    /\ DOMAIN a.taken \subseteq DOMAIN a.desired \ DOMAIN a.own
    /\ \A r \in DOMAIN a.taken :
        /\ a.taken[r] \in Job
        /\ a.taken[r].id <= ids[r]
        /\ a.taken[r].next # None
        /\ LiveClock(r, a.taken[r].next)
        /\ LiveClock(r, a.taken[r].first)

\* An activation in each of its phases.
ActivationShaped(h) ==
    LET a == activation[h] IN
    /\ a.phase \in {"idle", "collected", "read", "written"}
    /\ a.phase # "idle" => DesiredShaped(a)
    /\ a.phase = "read" => FoundShaped(a)
    /\ a.phase = "written" => WrittenShaped(a)

\* The rules that a transaction writes, as rows it locked or inserts.
Claimed(h) == IF pass[h].phase = "claimed" THEN DOMAIN pass[h].claimed ELSE {}
Inserted(h) == IF activation[h].phase = "written" THEN DOMAIN activation[h].own ELSE {}
Removed(h) == IF activation[h].phase = "written" THEN DOMAIN activation[h].removed ELSE {}

\* No two transactions write the same row.
Exclusive ==
    /\ \A h, g \in Hosts : Claimed(h) \intersect Removed(g) = {}
    /\ \A h, g \in Hosts : h # g =>
        /\ Claimed(h) \intersect Claimed(g) = {}
        /\ Inserted(h) \intersect Inserted(g) = {}
        /\ Removed(h) \intersect Removed(g) = {}

\* The clock, the version that is wanted, and the counts.
WorldShaped ==
    /\ now \in 0 .. MaxTime
    /\ target \in Versions \union {{}}
    /\ applied \in BOOLEAN
    /\ serving \subseteq {h \in Hosts : activation[h].phase # "idle"}
    /\ broken \subseteq Broken
    /\ DOMAIN spent = DOMAIN Budget
    /\ \A k \in DOMAIN Budget : spent[k] \in 0 .. Budget[k]

\* What the variables hold, and who holds what of the table.
TypeInv ==
    /\ RowsShaped
    /\ TasksOwned
    /\ DOMAIN pass = Hosts /\ DOMAIN activation = Hosts
    /\ \A h \in Hosts : PassShaped(h)
    /\ \A h \in Hosts : ActivationShaped(h)
    /\ Exclusive
    /\ WorldShaped

\* How far an activation for the last request has come.
OnItsWay(h) ==
    LET a == activation[h] IN
    /\ DOMAIN a.desired = target
    /\ a.phase = "read" =>
        /\ target \ a.inserts \subseteq Stored
        /\ \A r \in Stored \ target : r \in DOMAIN a.removed /\ a.removed[r] = jobs[r].id
    /\ a.phase = "written" =>
        /\ target \ DOMAIN a.own \subseteq Stored
        /\ Stored \ target \subseteq DOMAIN a.removed

\* Activations at work serve the last request, and one that has committed left
\* exactly its rules.
ConvergeInv ==
    /\ applied \/ serving # {} => \A h \in Hosts : activation[h].phase # "idle" => h \in serving
    /\ applied => Stored = target
    /\ \A h \in serving : OnItsWay(h)

\* The instants that a table of occurrences has for a row.
RecordedIn(table, r, job) == {o.at : o \in {o \in table : o.rule = r /\ o.job = job.id}}

\* The clock of a row, stored or read earlier, is one of its fires, and every
\* earlier fire is in the table.
InStep(table, r, job) ==
    job.next # None =>
        /\ job.next \in OccurrencesFrom(r, job.first)
        /\ \A x \in OccurrencesFrom(r, job.first) :
            x < job.next => x \in RecordedIn(table, r, job)

\* What is recorded of a rule are fires of its row.
OnSchedule(table, r, job) ==
    \A o \in table : o.rule = r => o.at \in OccurrencesFrom(r, job.first)

\* Every row that can be planned is in step with its table, and so is the copy
\* of a row that an activation took and will seed.
ClockInv ==
    /\ \A r \in Stored \ Broken :
        InStep(tasks, r, jobs[r]) /\ OnSchedule(tasks, r, jobs[r])
    /\ \A h \in Hosts : activation[h].phase = "written" =>
        \A r \in TakenStill(activation[h]) \ Broken :
            /\ activation[h].taken[r].first = jobs[r].first
            /\ InStep(tasks, r, activation[h].taken[r])

\* What rule r ran under other jobs than that with this id is older than x.
RanBefore(r, id, x) == \A o \in ran : o.rule = r /\ o.job # id => o.at < x

\* Nothing ran ahead of the clock.
RanInTime == \A o \in ran : o.at <= now

\* The clock of a row and its occurrences are past what earlier rows ran.
RowsFollow ==
    /\ \A r \in Stored : jobs[r].next # None => RanBefore(r, jobs[r].id, jobs[r].next)
    /\ \A o \in tasks : RanBefore(o.rule, o.job, o.at)

\* A pass that defers a row defers it past that too.
PassesFollow ==
    \A h \in Hosts : \A r \in Claimed(h) : RanBefore(r, jobs[r].id, pass[h].now + 1)

\* Activations that overlap are of one version.
SameVersion ==
    \A h, g \in Hosts : activation[h].phase # "idle" /\ activation[g].phase # "idle" =>
        DOMAIN activation[h].desired = DOMAIN activation[g].desired

\* The first run that an activation is about to give a rule without a row is
\* past all that the rule ran.
FirstRunsFollow ==
    \A h \in Hosts : activation[h].phase # "idle" =>
        \A r \in DOMAIN activation[h].desired \ Stored :
            activation[h].desired[r] # None =>
                \A o \in ran : o.rule = r => o.at < activation[h].desired[r]

\* So is the time at which an activation wrote its rows, and the clocks of the
\* rows it took, which are still there.
WrittenFollow ==
    \A h \in Hosts : activation[h].phase = "written" =>
        /\ \A r \in DOMAIN activation[h].own :
            \A o \in ran : o.rule = r => o.at <= activation[h].now
        /\ \A r \in DOMAIN activation[h].taken :
            /\ r \in Stored /\ jobs[r].id = activation[h].taken[r].id
            /\ RanBefore(r, jobs[r].id, activation[h].taken[r].next)
            /\ RanBefore(r, jobs[r].id, activation[h].now + 1)

\* An instant ran under one job, and nothing that is recorded, or about to be,
\* is as old as what another job ran.
FiresInv ==
    /\ RanInTime
    /\ FiresOncePerRule
    /\ RowsFollow
    /\ PassesFollow
    /\ SameVersion
    /\ FirstRunsFollow
    /\ WrittenFollow

-----------------------------------------------------------------------------
(* What the actions do to the rows.                                        *)

\* An occurrence of a set of rows is a recorded fire of one of them.
LEMMA NewOccurrencesAre ==
    ASSUME NEW rows, DOMAIN rows \subseteq Rules, NEW t,
           NEW o \in NewOccurrences(rows, t)
    PROVE  /\ o.rule \in DOMAIN rows \ broken
           /\ o.job = rows[o.rule].id
           /\ o.at \in Recorded(o.rule, rows[o.rule], t)
           /\ o = [rule |-> o.rule, job |-> o.job, at |-> o.at]
<1>1. PICK r \in DOMAIN rows \ broken :
        o \in {[rule |-> r, job |-> rows[r].id, at |-> x] : x \in Recorded(r, rows[r], t)}
  BY DEF NewOccurrences
<1>2. PICK x \in Recorded(r, rows[r], t) : o = [rule |-> r, job |-> rows[r].id, at |-> x]
  BY <1>1
<1> QED BY <1>1, <1>2

\* Every fire that is recorded of a row becomes an occurrence.
LEMMA NewOccurrencesHave ==
    ASSUME NEW rows, NEW t, NEW r \in DOMAIN rows \ broken,
           NEW x \in Recorded(r, rows[r], t)
    PROVE  [rule |-> r, job |-> rows[r].id, at |-> x] \in NewOccurrences(rows, t)
BY DEF NewOccurrences

\* And it is one of the types the table gives it.
LEMMA NewOccurrencesTyped ==
    ASSUME NEW rows, DOMAIN rows \subseteq Rules, NEW t \in 0 .. MaxTime,
           \A r \in DOMAIN rows : rows[r] \in Job
    PROVE  NewOccurrences(rows, t) \subseteq Occurrence
<1> SUFFICES ASSUME NEW o \in NewOccurrences(rows, t)
             PROVE  o \in Occurrence
  OBVIOUS
<1> DEFINE job == rows[o.rule]
<1>1. /\ o.rule \in DOMAIN rows
      /\ o.job = job.id
      /\ o.at \in Recorded(o.rule, job, t)
      /\ o = [rule |-> o.rule, job |-> o.job, at |-> o.at]
  BY NewOccurrencesAre
<1>2. job \in Job /\ o.rule \in Rules
  BY <1>1
<1>3. job.next # None
  BY <1>1 DEF Recorded, OccurrencesFrom
<1>4. o.at \in Nat
  <2> HIDE DEF job
  <2>1. /\ OccurrencesFrom(o.rule, job.next) \subseteq Nat
        /\ Recorded(o.rule, job, t) \subseteq OccurrencesFrom(o.rule, job.next)
    BY <1>2, <1>3, RecordedAreFires
  <2> QED BY <1>1, <2>1
<1>5. o.job \in Nat
  BY <1>1, <1>2 DEF Job
<1> HIDE DEF job
<1> QED BY <1>1, <1>2, <1>4, <1>5 DEF Occurrence

\* The instants that a transaction works with are within the bound of the clock.
LEMMA ClockWithinBound ==
    ASSUME TypeInv, NEW t \in 0 .. now
    PROVE  t \in 0 .. MaxTime /\ t \in Nat /\ t <= now /\ now \in 0 .. MaxTime
BY TimesAssumption DEF TypeInv, WorldShaped

\* A row has a clock exactly if its rule fires.
LEMMA RowsLive ==
    ASSUME TypeInv, NEW r \in Stored
    PROVE  /\ r \in Rules
           /\ jobs[r] \in Job
           /\ jobs[r].id \in 1 .. ids[r] /\ ids[r] \in Nat
           /\ jobs[r].next # None <=> Schedule[r].kind # "degenerate"
           /\ jobs[r].first # None <=> Schedule[r].kind # "degenerate"
BY DEF TypeInv, RowsShaped, Stored, LiveClock

\* A pass moves the clocks of the rows it holds, and nothing else.
LEMMA RowsAfterPass ==
    ASSUME TypeInv, NEW h \in Hosts, CommitPass(h)
    PROVE  /\ jobs' \in [Rules -> Job \union {None}]
           /\ ids' = ids
           /\ Stored' = Stored
           /\ \A r \in Rules \ Claimed(h) : jobs'[r] = jobs[r]
           /\ \A r \in Claimed(h) : jobs'[r] = Advanced(r, jobs[r], pass[h].now)
           /\ \A r \in Stored :
                /\ jobs'[r].id = jobs[r].id
                /\ jobs'[r].first = jobs[r].first
                /\ jobs'[r].next # None <=> jobs[r].next # None
<1> DEFINE p == pass[h]
<1>1. /\ p.phase = "claimed"
      /\ jobs' = [r \in Rules |-> IF r \in DOMAIN p.claimed
                                  THEN Advanced(r, p.claimed[r], p.now) ELSE jobs[r]]
      /\ ids' = ids
  BY DEF CommitPass
<1>2. /\ p.now \in 0 .. now
      /\ DOMAIN p.claimed \subseteq Stored
      /\ \A r \in DOMAIN p.claimed : p.claimed[r] = jobs[r] /\ jobs[r].next # None
  BY <1>1 DEF TypeInv, PassShaped
<1>3. Claimed(h) = DOMAIN p.claimed
  BY <1>1 DEF Claimed
<1> HIDE DEF p
<1>4. p.now \in 0 .. MaxTime
  BY <1>2, ClockWithinBound
<1>5. ASSUME NEW r \in Claimed(h)
      PROVE  /\ r \in Stored /\ r \in Rules
             /\ jobs'[r] = Advanced(r, jobs[r], p.now)
             /\ jobs'[r] \in Job
             /\ jobs'[r].id = jobs[r].id
             /\ jobs'[r].first = jobs[r].first
             /\ jobs'[r].next # None /\ jobs[r].next # None
  <2>1. /\ r \in Stored /\ r \in Rules
        /\ jobs[r] \in Job
        /\ jobs[r].next # None
        /\ Schedule[r].kind # "degenerate"
    BY <1>2, <1>3, RowsLive
  <2>2. jobs'[r] = Advanced(r, jobs[r], p.now)
    BY <1>1, <1>2, <1>3, <2>1
  <2>3. /\ Advanced(r, jobs[r], p.now) \in Job
        /\ Advanced(r, jobs[r], p.now).id = jobs[r].id
        /\ Advanced(r, jobs[r], p.now).first = jobs[r].first
        /\ Advanced(r, jobs[r], p.now).next \in Nat
    BY <1>4, <2>1, AdvancedIs
  <2> QED BY <2>1, <2>2, <2>3, NoneIsNoNumber
<1>6. \A r \in Rules \ Claimed(h) : jobs'[r] = jobs[r]
  BY <1>1, <1>3
<1>7. jobs' \in [Rules -> Job \union {None}]
  <2>1. \A r \in Rules : jobs'[r] \in Job \union {None}
    BY <1>5, <1>6 DEF TypeInv, RowsShaped
  <2> QED BY <1>1, <2>1
<1>8. Stored' = Stored
  <2>1. \A r \in Rules : jobs'[r] # None <=> jobs[r] # None
    BY <1>5, <1>6, NoneIsNoNumber DEF Stored
  <2> QED BY <2>1 DEF Stored
<1>9. Stored \subseteq Rules
  BY DEF Stored
<1> QED BY <1>1, <1>5, <1>6, <1>7, <1>8, <1>9 DEF p

\* What a transaction that is about to commit has written, in full.
Written(a) ==
    /\ a.now \in 0 .. MaxTime
    /\ a.now \in 0 .. now
    /\ DOMAIN a.own \subseteq Rules \ Stored
    /\ DOMAIN a.own \subseteq DOMAIN a.desired
    /\ \A r \in DOMAIN a.own :
         /\ a.own[r] \in Job
         /\ a.own[r].id = ids[r] + 1
         /\ a.own[r].next = a.desired[r]
         /\ a.own[r].first = a.desired[r]
         /\ LiveClock(r, a.own[r].next)
         /\ a.desired[r] \in Nat \union {None}
    /\ DOMAIN a.removed \subseteq Stored \ DOMAIN a.desired
    /\ \A r \in DOMAIN a.removed : a.removed[r] = jobs[r].id
    /\ DOMAIN a.taken \subseteq DOMAIN a.desired \ DOMAIN a.own
    /\ DOMAIN a.desired \subseteq Rules
    /\ \A r \in DOMAIN a.taken :
         /\ a.taken[r] \in Job
         /\ a.taken[r].id <= ids[r]
         /\ a.taken[r].next # None
         /\ Schedule[r].kind # "degenerate"
         /\ LiveClock(r, a.taken[r].first)
    /\ TakenStill(a) \subseteq Stored \intersect DOMAIN a.taken
    /\ \A r \in TakenStill(a) : jobs[r].id = a.taken[r].id

\* That it has written that.
LEMMA WrittenIs ==
    ASSUME TypeInv, NEW h \in Hosts, activation[h].phase = "written",
           NEW a, a = activation[h]
    PROVE  Written(a)
<1>1. WrittenShaped(a) /\ DesiredShaped(a)
  BY DEF TypeInv, ActivationShaped
<1>2. a.now \in 0 .. MaxTime
  BY <1>1, ClockWithinBound DEF WrittenShaped
<1>3. DOMAIN a.own \subseteq Rules \ Stored
  BY <1>1 DEF WrittenShaped, DesiredShaped
<1>4. ASSUME NEW r \in DOMAIN a.own
      PROVE  /\ a.own[r] \in Job
             /\ a.own[r].id = ids[r] + 1
             /\ a.own[r].next = a.desired[r]
             /\ a.own[r].first = a.desired[r]
             /\ LiveClock(r, a.own[r].next)
             /\ a.desired[r] \in Nat \union {None}
  <2>1. /\ r \in DOMAIN a.desired /\ r \in Rules
        /\ a.own[r] = [id |-> ids[r] + 1, next |-> a.desired[r], first |-> a.desired[r]]
    BY <1>1, <1>4 DEF WrittenShaped, DesiredShaped, FreshJob
  <2>2. a.desired[r] \in Nat \union {None} /\ LiveClock(r, a.desired[r])
    BY <1>1, <2>1 DEF DesiredShaped
  <2>3. ids[r] + 1 \in Nat
    BY <2>1 DEF TypeInv, RowsShaped
  <2> QED BY <2>1, <2>2, <2>3 DEF Job
<1>5. ASSUME NEW r \in DOMAIN a.taken
      PROVE  /\ a.taken[r] \in Job
             /\ a.taken[r].id <= ids[r]
             /\ a.taken[r].next # None
             /\ Schedule[r].kind # "degenerate"
             /\ LiveClock(r, a.taken[r].first)
  BY <1>1 DEF WrittenShaped, LiveClock
<1>6. DOMAIN a.taken \subseteq Rules
  BY <1>1 DEF WrittenShaped, DesiredShaped
<1>7. /\ TakenStill(a) \subseteq Stored \intersect DOMAIN a.taken
      /\ \A r \in TakenStill(a) : jobs[r].id = a.taken[r].id
  BY <1>6 DEF TakenStill, Stored
<1> QED BY <1>1, <1>2, <1>3, <1>4, <1>5, <1>7 DEF WrittenShaped, DesiredShaped, Written

\* A commit of an activation inserts its rows, deletes those it removed, and
\* writes the clocks of the rows it took from others.
LEMMA RowsAfterActivation ==
    ASSUME TypeInv, NEW h \in Hosts, CommitActivation(h),
           NEW a, a = activation[h]
    PROVE  /\ a.phase = "written"
           /\ jobs' \in [Rules -> Job \union {None}]
           /\ ids' \in [Rules -> Nat]
           /\ Stored' = (Stored \ DOMAIN a.removed) \union DOMAIN a.own
           /\ \A r \in DOMAIN a.own :
                /\ ids'[r] = ids[r] + 1
                /\ jobs'[r].id = ids[r] + 1
                /\ jobs'[r].first = a.desired[r]
                /\ LiveClock(r, jobs'[r].next)
                /\ a.desired[r] # None => jobs'[r] = Advanced(r, a.own[r], a.now)
           /\ \A r \in Rules \ DOMAIN a.own : ids'[r] = ids[r]
           /\ \A r \in TakenStill(a) :
                /\ r \in Stored'
                /\ jobs'[r] = Advanced(r, a.taken[r], a.now)
                /\ jobs'[r].id = jobs[r].id
                /\ jobs'[r].first = a.taken[r].first
                /\ LiveClock(r, jobs'[r].next)
           /\ \A r \in Stored \ (DOMAIN a.removed \union TakenStill(a)) : jobs'[r] = jobs[r]
<1> DEFINE clocked == {r \in DOMAIN a.own : a.own[r].next # None}
<1>1. /\ a.phase = "written"
      /\ jobs' = [r \in Rules |->
             CASE r \in DOMAIN a.removed -> None
               [] r \in clocked -> Advanced(r, a.own[r], a.now)
               [] r \in DOMAIN a.own \ clocked -> a.own[r]
               [] r \in TakenStill(a) -> Advanced(r, a.taken[r], a.now)
               [] OTHER -> jobs[r]]
      /\ ids' = [r \in Rules |->
             IF r \in DOMAIN a.own /\ a.own[r].id > ids[r] THEN a.own[r].id ELSE ids[r]]
  BY DEF CommitActivation
<1>2. /\ a.now \in 0 .. MaxTime
      /\ DOMAIN a.own \subseteq Rules \ Stored
      /\ DOMAIN a.own \subseteq DOMAIN a.desired
      /\ \A r \in DOMAIN a.own :
           /\ a.own[r] \in Job
           /\ a.own[r].id = ids[r] + 1
           /\ a.own[r].next = a.desired[r]
           /\ a.own[r].first = a.desired[r]
           /\ LiveClock(r, a.own[r].next)
      /\ DOMAIN a.removed \subseteq Stored \ DOMAIN a.desired
      /\ DOMAIN a.taken \subseteq DOMAIN a.desired \ DOMAIN a.own
      /\ \A r \in DOMAIN a.taken :
           /\ a.taken[r] \in Job
           /\ a.taken[r].next # None
           /\ Schedule[r].kind # "degenerate"
      /\ TakenStill(a) \subseteq Stored \intersect DOMAIN a.taken
      /\ \A r \in TakenStill(a) : jobs[r].id = a.taken[r].id
  <2>1. Written(a)
    BY <1>1, WrittenIs
  <2> QED BY <2>1 DEF Written
<1>3. Stored \subseteq Rules
  BY DEF Stored
<1>13. /\ DOMAIN a.own \intersect TakenStill(a) = {}
      /\ DOMAIN a.own \intersect DOMAIN a.removed = {}
      /\ TakenStill(a) \intersect DOMAIN a.removed = {}
  BY <1>2
<1>4. ASSUME NEW r \in DOMAIN a.removed
      PROVE  r \in Rules /\ jobs'[r] = None
  <2>1. /\ r \in Rules
        /\ r \notin DOMAIN a.own /\ r \notin TakenStill(a)
    BY <1>13, <1>2, <1>3
  <2> QED BY <1>1, <2>1
<1>5. ASSUME NEW r \in DOMAIN a.own
      PROVE  /\ r \in Rules
             /\ jobs'[r] \in Job
             /\ jobs'[r].id = ids[r] + 1
             /\ jobs'[r].first = a.desired[r]
             /\ LiveClock(r, jobs'[r].next)
             /\ a.desired[r] # None => jobs'[r] = Advanced(r, a.own[r], a.now)
  <2>1. r \in Rules /\ r \notin DOMAIN a.removed /\ r \notin TakenStill(a)
    BY <1>13, <1>2
  <2>2. CASE a.own[r].next # None
    <3>1. jobs'[r] = Advanced(r, a.own[r], a.now)
      BY <1>1, <2>1, <2>2
    <3>2. Schedule[r].kind # "degenerate"
      BY <1>2, <2>2 DEF LiveClock
    <3>3. /\ Advanced(r, a.own[r], a.now) \in Job
          /\ Advanced(r, a.own[r], a.now).id = a.own[r].id
          /\ Advanced(r, a.own[r], a.now).first = a.own[r].first
          /\ Advanced(r, a.own[r], a.now).next \in Nat
      BY <1>2, <2>1, <2>2, <3>2, AdvancedIs
    <3> QED BY <1>2, <2>1, <3>1, <3>2, <3>3, NoneIsNoNumber DEF LiveClock
  <2>3. CASE a.own[r].next = None
    <3>1. jobs'[r] = a.own[r]
      BY <1>1, <2>1, <2>3
    <3> QED BY <1>2, <2>1, <2>3, <3>1
  <2> QED BY <2>2, <2>3
<1>6. ASSUME NEW r \in TakenStill(a)
      PROVE  /\ r \in Stored /\ r \in Rules
             /\ r \notin DOMAIN a.removed /\ r \notin DOMAIN a.own
             /\ jobs'[r] = Advanced(r, a.taken[r], a.now)
             /\ jobs'[r] \in Job
             /\ jobs'[r].id = jobs[r].id
             /\ jobs'[r].first = a.taken[r].first
             /\ LiveClock(r, jobs'[r].next)
  <2>1. /\ r \in Stored /\ r \in Rules /\ r \in DOMAIN a.taken
        /\ r \notin DOMAIN a.removed /\ r \notin DOMAIN a.own
    BY <1>2, <1>3
  <2>2. jobs'[r] = Advanced(r, a.taken[r], a.now)
    BY <1>1, <2>1
  <2>3. /\ Advanced(r, a.taken[r], a.now) \in Job
        /\ Advanced(r, a.taken[r], a.now).id = a.taken[r].id
        /\ Advanced(r, a.taken[r], a.now).first = a.taken[r].first
        /\ Advanced(r, a.taken[r], a.now).next \in Nat
    BY <1>2, <2>1, AdvancedIs
  <2>4. Schedule[r].kind # "degenerate"
    BY <1>2, <2>1
  <2> QED BY <1>2, <2>1, <2>2, <2>3, <2>4, NoneIsNoNumber DEF LiveClock
<1>7. ASSUME NEW r \in Rules, r \notin DOMAIN a.removed, r \notin DOMAIN a.own, r \notin TakenStill(a)
      PROVE  jobs'[r] = jobs[r]
  BY <1>1, <1>7
<1>8. jobs \in [Rules -> Job \union {None}] /\ ids \in [Rules -> Nat]
  BY DEF TypeInv, RowsShaped
<1>9. jobs' \in [Rules -> Job \union {None}]
  <2>1. \A r \in Rules : jobs'[r] \in Job \union {None}
    BY <1>4, <1>5, <1>6, <1>7, <1>8
  <2>2. jobs' = [r \in Rules |-> jobs'[r]]
    BY <1>1
  <2> HIDE <1>1
  <2> QED BY <2>1, <2>2
<1>10. /\ \A r \in DOMAIN a.own : ids'[r] = ids[r] + 1
       /\ \A r \in Rules \ DOMAIN a.own : ids'[r] = ids[r]
       /\ ids' \in [Rules -> Nat]
  <2>1. ASSUME NEW r \in DOMAIN a.own PROVE ids'[r] = ids[r] + 1
    <3>1. r \in Rules /\ ids[r] \in Nat /\ a.own[r].id = ids[r] + 1
      BY <1>2, <1>8
    <3> QED BY <1>1, <3>1
  <2>2. ASSUME NEW r \in Rules \ DOMAIN a.own PROVE ids'[r] = ids[r]
    BY <1>1
  <2>3. \A r \in Rules : ids'[r] \in Nat
    BY <1>8, <2>1, <2>2
  <2> QED BY <1>1, <2>1, <2>2, <2>3
<1>11. Stored' = (Stored \ DOMAIN a.removed) \union DOMAIN a.own
  <2>1. \A r \in Rules : jobs'[r] # None <=> r \in (Stored \ DOMAIN a.removed) \union DOMAIN a.own
    <3> SUFFICES ASSUME NEW r \in Rules
                 PROVE  jobs'[r] # None <=> r \in (Stored \ DOMAIN a.removed) \union DOMAIN a.own
      OBVIOUS
    <3>1. CASE r \in DOMAIN a.removed
      BY <1>2, <1>4, <3>1
    <3>2. CASE r \in DOMAIN a.own
      BY <1>5, <3>2, NoneIsNoNumber
    <3>3. CASE r \in TakenStill(a)
      BY <1>6, <3>3, NoneIsNoNumber
    <3>4. CASE r \notin DOMAIN a.removed /\ r \notin DOMAIN a.own /\ r \notin TakenStill(a)
      BY <1>7, <3>4 DEF Stored
    <3> QED BY <3>1, <3>2, <3>3, <3>4
  <2>2. Stored' = {r \in Rules : jobs'[r] # None}
    BY DEF Stored
  <2> QED BY <1>2, <1>3, <2>1, <2>2
<1>12. \A r \in Stored \ (DOMAIN a.removed \union TakenStill(a)) : jobs'[r] = jobs[r]
  BY <1>2, <1>3, <1>7
<1>14. a.phase = "written"
  BY <1>1
<1> HIDE DEF clocked
<1> QED BY <1>5, <1>6, <1>9, <1>10, <1>11, <1>12, <1>14

\* Nothing is withdrawn: a row that an activation writes as its own is new.
LEMMA TasksAfterActivation ==
    ASSUME TypeInv, NEW h \in Hosts, CommitActivation(h),
           NEW a, a = activation[h]
    PROVE  /\ tasks' = {o \in tasks : o.rule \notin DOMAIN a.removed} \union Seeded(a)
           /\ \A o \in Seeded(a) :
                \/ /\ o.rule \in DOMAIN a.own \ broken
                   /\ a.own[o.rule].next # None
                   /\ o.job = a.own[o.rule].id
                   /\ o.at \in Recorded(o.rule, a.own[o.rule], a.now)
                \/ /\ o.rule \in TakenStill(a) \ broken
                   /\ o.job = a.taken[o.rule].id
                   /\ o.at \in Recorded(o.rule, a.taken[o.rule], a.now)
           /\ Seeded(a) \subseteq Occurrence
<1>1. /\ a.phase = "written" /\ ~SeedsGoneJob(a)
      /\ tasks' = ({o \in tasks : o.rule \notin DOMAIN a.removed} \
                     {o \in tasks \ ran : /\ o.rule \in DOMAIN a.own \intersect Stored
                                          /\ o.job = a.own[o.rule].id}) \union Seeded(a)
  BY DEF CommitActivation
<1>2. /\ a.now \in 0 .. MaxTime
      /\ DOMAIN a.own \subseteq Rules \ Stored
      /\ DOMAIN a.taken \subseteq Rules
      /\ \A r \in DOMAIN a.own : a.own[r] \in Job
      /\ \A r \in DOMAIN a.taken : a.taken[r] \in Job
  <2>1. Written(a)
    BY <1>1, WrittenIs
  <2> QED BY <2>1 DEF Written
<1>3. DOMAIN a.own \subseteq Rules /\ DOMAIN a.own \intersect Stored = {}
  BY <1>2
<1>4. tasks' = {o \in tasks : o.rule \notin DOMAIN a.removed} \union Seeded(a)
  BY <1>1, <1>3
<1>5. ASSUME NEW o \in NewOccurrences(a.own, a.now)
      PROVE  /\ o.rule \in DOMAIN a.own \ broken
             /\ a.own[o.rule].next # None
             /\ o.job = a.own[o.rule].id
             /\ o.at \in Recorded(o.rule, a.own[o.rule], a.now)
  <2>1. /\ o.rule \in DOMAIN a.own \ broken
        /\ o.job = a.own[o.rule].id
        /\ o.at \in Recorded(o.rule, a.own[o.rule], a.now)
    BY <1>3, NewOccurrencesAre
  <2>2. a.own[o.rule].next # None
    BY <2>1 DEF Recorded, OccurrencesFrom
  <2> QED BY <2>1, <2>2
<1>6. ASSUME NEW o \in NewOccurrences(a.taken, a.now)
      PROVE  /\ o.rule \in TakenStill(a) \ broken
             /\ o.job = a.taken[o.rule].id
             /\ o.at \in Recorded(o.rule, a.taken[o.rule], a.now)
  <2>1. /\ o.rule \in DOMAIN a.taken \ broken
        /\ o.job = a.taken[o.rule].id
        /\ o.at \in Recorded(o.rule, a.taken[o.rule], a.now)
    BY <1>2, NewOccurrencesAre
  <2>2. o.rule \in TakenStill(a)
    BY <1>1, <2>1 DEF SeedsGoneJob, Seeded
  <2> QED BY <2>1, <2>2
<1>7. Seeded(a) \subseteq Occurrence
  BY <1>2, <1>3, NewOccurrencesTyped DEF Seeded
<1> QED BY <1>4, <1>5, <1>6, <1>7 DEF Seeded

\* A deletion waits for every transaction that holds a row of the node.
LEMMA RowsAfterDeletion ==
    ASSUME TypeInv, DeleteJobs
    PROVE  /\ jobs' = [r \in Rules |-> None]
           /\ Stored' = {}
           /\ tasks' = {}
           /\ ids' = ids
           /\ ran' = ran
           /\ \A h \in Hosts : Claimed(h) = {} /\ Removed(h) = {}
<1>1. /\ jobs' = [r \in Rules |-> None]
      /\ tasks' = {} /\ ids' = ids /\ ran' = ran
      /\ \A r \in Stored : ~Locked(r)
  BY DEF DeleteJobs
<1>2. Stored' = {}
  BY <1>1 DEF Stored
<1>3. ASSUME NEW h \in Hosts PROVE Claimed(h) = {}
  <2>1. Claimed(h) \subseteq Stored
    BY DEF TypeInv, PassShaped, Claimed
  <2>2. \A r \in Stored : r \notin LockedByPass(h)
    BY <1>1 DEF Locked
  <2>3. Claimed(h) \subseteq LockedByPass(h)
    BY DEF Claimed, LockedByPass
  <2> QED BY <2>1, <2>2, <2>3
<1>4. ASSUME NEW h \in Hosts PROVE Removed(h) = {}
  <2>1. Removed(h) \subseteq Stored
    BY DEF TypeInv, ActivationShaped, WrittenShaped, Removed
  <2>2. \A r \in Stored : r \notin LockedByActivation(h)
    BY <1>1 DEF Locked
  <2>3. Removed(h) \subseteq LockedByActivation(h)
    BY <2>1 DEF Removed, LockedByActivation
  <2> QED BY <2>1, <2>2, <2>3
<1> QED BY <1>1, <1>2, <1>3, <1>4

-----------------------------------------------------------------------------
(* Every action keeps the shape of rows and transactions.                  *)

\* A pass that does nothing keeps its shape while its rows stay as they are.
LEMMA PassKept ==
    ASSUME TypeInv, NEW h \in Hosts, pass'[h] = pass[h],
           now \in Nat, now' \in Nat, now <= now',
           \A r \in Claimed(h) : r \in Stored' /\ jobs'[r] = jobs[r]
    PROVE  PassShaped(h)' /\ Claimed(h)' = Claimed(h)
<1>1. PassShaped(h)
  BY DEF TypeInv
<1>2. CASE pass[h].phase = "claimed"
  <2>1. Claimed(h) = DOMAIN pass[h].claimed
    BY <1>2 DEF Claimed
  <2>2. /\ pass[h].now \in 0 .. now
        /\ \A r \in DOMAIN pass[h].claimed :
             pass[h].claimed[r] = jobs[r] /\ jobs[r].next # None
    BY <1>1, <1>2 DEF PassShaped
  <2>3. pass[h].now \in 0 .. now'
    BY <2>2
  <2> QED BY <1>2, <2>1, <2>2, <2>3 DEF PassShaped, Claimed
<1>3. CASE pass[h].phase = "idle"
  BY <1>3 DEF PassShaped, Claimed
<1> QED BY <1>1, <1>2, <1>3 DEF PassShaped

\* So does an activation, while nobody inserts its rows or takes away those it
\* deletes.
LEMMA ActivationKept ==
    ASSUME TypeInv, NEW h \in Hosts, activation'[h] = activation[h],
           now \in Nat, now' \in Nat, now <= now',
           \A r \in Rules : ids'[r] \in Nat /\ ids[r] <= ids'[r],
           \A r \in Inserted(h) : r \notin Stored' /\ ids'[r] = ids[r],
           \A r \in Removed(h) : r \in Stored' /\ jobs'[r].id = jobs[r].id
    PROVE  /\ ActivationShaped(h)'
           /\ Inserted(h)' = Inserted(h) /\ Removed(h)' = Removed(h)
<1> DEFINE a == activation[h]
<1>1. ActivationShaped(h)
  BY DEF TypeInv
<1>2. Inserted(h)' = Inserted(h) /\ Removed(h)' = Removed(h)
  BY DEF Inserted, Removed
<1>3. a.phase # "idle" => DesiredShaped(a)'
  BY <1>1 DEF ActivationShaped, DesiredShaped
<1>4. a.phase = "read" => FoundShaped(a)'
  BY <1>1 DEF ActivationShaped, FoundShaped
<1>5. ASSUME a.phase = "written" PROVE WrittenShaped(a)'
  <2>1. WrittenShaped(a) /\ DesiredShaped(a)
    BY <1>1, <1>5 DEF ActivationShaped
  <2>2. Inserted(h) = DOMAIN a.own /\ Removed(h) = DOMAIN a.removed
    BY <1>5 DEF Inserted, Removed
  <2>3. a.now \in 0 .. now'
    BY <2>1 DEF WrittenShaped
  <2>4. /\ DOMAIN a.own \subseteq DOMAIN a.desired \ Stored'
        /\ \A r \in DOMAIN a.own : a.own[r] = FreshJob(ids'[r] + 1, a.desired[r])
        /\ DOMAIN a.removed \subseteq Stored' \ DOMAIN a.desired
        /\ \A r \in DOMAIN a.removed : a.removed[r] = jobs'[r].id
    BY <2>1, <2>2 DEF WrittenShaped
  <2>5. ASSUME NEW r \in DOMAIN a.taken PROVE a.taken[r].id <= ids'[r]
    <3>1. r \in Rules
      BY <2>1 DEF WrittenShaped, DesiredShaped
    <3>2. a.taken[r].id \in Nat /\ a.taken[r].id <= ids[r] /\ ids[r] \in Nat
      BY <2>1, <3>1 DEF WrittenShaped, Job, TypeInv, RowsShaped
    <3> QED BY <3>1, <3>2
  <2>6. /\ DOMAIN a.taken \subseteq DOMAIN a.desired \ DOMAIN a.own
        /\ \A r \in DOMAIN a.taken :
             /\ a.taken[r] \in Job
             /\ a.taken[r].next # None
             /\ LiveClock(r, a.taken[r].next)
             /\ LiveClock(r, a.taken[r].first)
    BY <2>1 DEF WrittenShaped
  <2> QED BY <2>3, <2>4, <2>5, <2>6 DEF WrittenShaped, LiveClock, FreshJob
<1>6. a.phase \in {"idle", "collected", "read", "written"} /\ activation'[h] = a
  BY <1>1 DEF ActivationShaped
<1> QED BY <1>2, <1>3, <1>4, <1>5, <1>6 DEF ActivationShaped, DesiredShaped, FoundShaped, WrittenShaped, LiveClock, FreshJob

\* A transaction that is over has no shape to keep.
LEMMA IdleShaped ==
    ASSUME NEW h \in Hosts
    PROVE  /\ pass'[h] = Idle => PassShaped(h)' /\ Claimed(h)' = {}
           /\ activation'[h] = Idle =>
                ActivationShaped(h)' /\ Inserted(h)' = {} /\ Removed(h)' = {}
BY DEF Idle, PassShaped, ActivationShaped, Claimed, Inserted, Removed

\* Transactions that hold no more than before are as exclusive as before.
LEMMA ExclusiveKept ==
    ASSUME TypeInv,
           \A h \in Hosts : /\ Claimed(h)' \subseteq Claimed(h)
                            /\ Inserted(h)' \subseteq Inserted(h)
                            /\ Removed(h)' \subseteq Removed(h)
    PROVE  Exclusive'
<1>1. Exclusive
  BY DEF TypeInv
<1>2. \A h, g \in Hosts : Claimed(h)' \intersect Removed(g)' = {}
  BY <1>1 DEF Exclusive
<1>3. ASSUME NEW h \in Hosts, NEW g \in Hosts, h # g
      PROVE  /\ Claimed(h)' \intersect Claimed(g)' = {}
             /\ Inserted(h)' \intersect Inserted(g)' = {}
             /\ Removed(h)' \intersect Removed(g)' = {}
  <2>1. /\ Claimed(h) \intersect Claimed(g) = {}
        /\ Inserted(h) \intersect Inserted(g) = {}
        /\ Removed(h) \intersect Removed(g) = {}
    BY <1>1, <1>3 DEF Exclusive
  <2> QED BY <2>1
<1> QED BY <1>2, <1>3 DEF Exclusive

\* Rows and occurrences that do not change keep their shape.
LEMMA TablesKept ==
    ASSUME TypeInv, UNCHANGED <<jobs, ids, tasks, ran>>
    PROVE  RowsShaped' /\ TasksOwned' /\ Stored' = Stored
BY DEF TypeInv, RowsShaped, TasksOwned, Stored, LiveClock

\* The clock is a number.
LEMMA NowIsNumber ==
    ASSUME TypeInv
    PROVE  now \in Nat /\ now \in 0 .. MaxTime
BY TimesAssumption DEF TypeInv, WorldShaped

\* While no row changes, the transactions that do nothing keep their shape.
LEMMA OthersKept ==
    ASSUME TypeInv, UNCHANGED <<jobs, ids, tasks, ran>>, now' \in Nat, now <= now'
    PROVE  /\ \A h \in Hosts : pass'[h] = pass[h] =>
                PassShaped(h)' /\ Claimed(h)' = Claimed(h)
           /\ \A h \in Hosts : activation'[h] = activation[h] =>
                /\ ActivationShaped(h)'
                /\ Inserted(h)' = Inserted(h) /\ Removed(h)' = Removed(h)
<1>1. Stored' = Stored /\ now \in Nat
  BY TablesKept, NowIsNumber
<1>2. ASSUME NEW h \in Hosts, pass'[h] = pass[h]
      PROVE  PassShaped(h)' /\ Claimed(h)' = Claimed(h)
  <2>1. Claimed(h) \subseteq Stored
    BY DEF TypeInv, PassShaped, Claimed
  <2> QED BY <1>1, <1>2, <2>1, PassKept
<1>3. ASSUME NEW h \in Hosts, activation'[h] = activation[h]
      PROVE  /\ ActivationShaped(h)'
             /\ Inserted(h)' = Inserted(h) /\ Removed(h)' = Removed(h)
  <2>1. \A r \in Rules : ids'[r] \in Nat /\ ids[r] <= ids'[r]
    BY DEF TypeInv, RowsShaped
  <2>2. Inserted(h) \intersect Stored = {} /\ Removed(h) \subseteq Stored
    BY DEF TypeInv, ActivationShaped, WrittenShaped, Inserted, Removed
  <2> QED BY <1>1, <1>3, <2>1, <2>2, ActivationKept
<1> QED BY <1>2, <1>3

\* A deed of the environment stays within its budget.
LEMMA BudgetKept ==
    ASSUME TypeInv, NEW k \in DOMAIN Budget, Spend(k)
    PROVE  /\ DOMAIN spent' = DOMAIN Budget
           /\ \A d \in DOMAIN Budget : spent'[d] \in 0 .. Budget[d]
<1>1. /\ DOMAIN spent = DOMAIN Budget
      /\ \A d \in DOMAIN Budget : spent[d] \in 0 .. Budget[d] /\ Budget[d] \in Nat
  BY BudgetAssumption DEF TypeInv, WorldShaped
<1>2. spent[k] < Budget[k] /\ spent' = [spent EXCEPT ![k] = spent[k] + 1]
  BY DEF Spend
<1>3. ASSUME NEW d \in DOMAIN Budget PROVE spent'[d] \in 0 .. Budget[d]
  <2>1. CASE d = k
    BY <1>1, <1>2, <2>1
  <2>2. CASE d # k
    BY <1>1, <1>2, <2>2
  <2> QED BY <2>1, <2>2
<1> QED BY <1>1, <1>2, <1>3

\* The deeds that have a budget.
LEMMA Deeds == DOMAIN Budget = {"abort", "deregister", "republish", "unpublish"}
BY BudgetAssumption

\* A pass locks rows that are due, none of them locked (SKIP LOCKED), and copies
\* them as they are (claimDueJobs).
LEMMA ClaimDueJobsKeepsType ==
    ASSUME TypeInv, NEW h \in Hosts, ClaimDueJobs(h)
    PROVE  TypeInv'
<1> DEFINE p == [phase |-> "claimed", now |-> now, claimed |-> [r \in Due |-> jobs[r]]]
<1>1. /\ pass[h].phase = "idle"
      /\ pass' = [pass EXCEPT ![h] = p]
      /\ UNCHANGED <<now, jobs, ids, tasks, ran, activation, target, applied, serving, broken, spent>>
  BY DEF ClaimDueJobs, db, env
<1>2. RowsShaped' /\ TasksOwned' /\ Stored' = Stored
  BY <1>1, TablesKept
<1>3. /\ pass'[h] = p /\ \A g \in Hosts \ {h} : pass'[g] = pass[g]
      /\ DOMAIN pass' = Hosts
  BY <1>1 DEF TypeInv
<1>4. now \in Nat
  BY NowIsNumber
<1>5. \A g \in Hosts : ActivationShaped(g)' /\ Inserted(g)' = Inserted(g) /\ Removed(g)' = Removed(g)
  BY <1>1, <1>4, OthersKept
<1>6. \A g \in Hosts \ {h} : PassShaped(g)' /\ Claimed(g)' = Claimed(g)
  BY <1>1, <1>3, <1>4, OthersKept
<1>7. PassShaped(h)' /\ Claimed(h)' = Due
  <2>1. p.phase = "claimed" /\ p.now \in 0 .. now /\ DOMAIN p.claimed = Due
    BY <1>4
  <2>2. Due \subseteq Stored /\ \A r \in Due : p.claimed[r] = jobs[r] /\ jobs[r].next # None
    BY DEF Due
  <2> HIDE DEF p
  <2> QED BY <1>1, <1>2, <1>3, <2>1, <2>2 DEF PassShaped, Claimed
<1>8. Exclusive'
  <2>1. \A g \in Hosts : Due \intersect Claimed(g) = {} /\ Due \intersect Removed(g) = {}
    <3> SUFFICES ASSUME NEW g \in Hosts, NEW r \in Due
                 PROVE  r \notin Claimed(g) /\ r \notin Removed(g)
      OBVIOUS
    <3>1. r \notin LockedByPass(g) /\ r \notin LockedByActivation(g) /\ r \in Stored
      BY DEF Due, Locked
    <3> QED BY <3>1 DEF LockedByPass, LockedByActivation, Claimed, Removed
  <2>2. Exclusive
    BY DEF TypeInv
  <2> QED BY <1>5, <1>6, <1>7, <2>1, <2>2 DEF Exclusive
<1>9. WorldShaped'
  BY <1>1 DEF TypeInv, WorldShaped
<1>10. DOMAIN activation' = Hosts
  BY <1>1 DEF TypeInv
<1> QED BY <1>2, <1>3, <1>5, <1>6, <1>7, <1>8, <1>9, <1>10 DEF TypeInv

\* A pass writes back the clocks of the rows it locked and records occurrences
\* of them, so that what others hold of the rows stays true.
LEMMA CommitPassKeepsType ==
    ASSUME TypeInv, NEW h \in Hosts, CommitPass(h)
    PROVE  TypeInv'
<1> DEFINE p == pass[h]
<1>1. /\ p.phase = "claimed"
      /\ tasks' = tasks \union NewOccurrences(p.claimed, p.now)
      /\ pass' = [pass EXCEPT ![h] = Idle]
      /\ UNCHANGED <<now, ran, ids, activation, target, applied, serving, broken, spent>>
  BY DEF CommitPass, env
<1>2. /\ jobs' \in [Rules -> Job \union {None}]
      /\ Stored' = Stored
      /\ \A r \in Rules \ Claimed(h) : jobs'[r] = jobs[r]
      /\ \A r \in Stored : /\ jobs'[r].id = jobs[r].id
                           /\ jobs'[r].first = jobs[r].first
                           /\ jobs'[r].next # None <=> jobs[r].next # None
  BY RowsAfterPass
<1>3. PassShaped(h) /\ Claimed(h) = DOMAIN p.claimed
  BY <1>1 DEF TypeInv, Claimed
<1>4. RowsShaped'
  BY <1>1, <1>2 DEF TypeInv, RowsShaped, LiveClock
<1>5. TasksOwned'
  <2>1. ASSUME NEW o \in NewOccurrences(p.claimed, p.now)
        PROVE  o \in Occurrence /\ o.rule \in Stored /\ o.job = jobs[o.rule].id
    <3>1. /\ p.now \in 0 .. now
          /\ DOMAIN p.claimed \subseteq Stored
          /\ \A r \in DOMAIN p.claimed : p.claimed[r] = jobs[r]
      BY <1>1, <1>3 DEF PassShaped
    <3>2. p.now \in 0 .. MaxTime
      BY <3>1, ClockWithinBound
    <3>3. DOMAIN p.claimed \subseteq Rules /\ \A r \in DOMAIN p.claimed : p.claimed[r] \in Job
      BY <3>1, RowsLive
    <3> HIDE DEF p
    <3>4. NewOccurrences(p.claimed, p.now) \subseteq Occurrence
      BY <3>2, <3>3, NewOccurrencesTyped
    <3>5. o.rule \in DOMAIN p.claimed /\ o.job = p.claimed[o.rule].id
      BY <3>3, NewOccurrencesAre
    <3> QED BY <3>1, <3>4, <3>5
  <2>2. TasksOwned
    BY DEF TypeInv
  <2>3. tasks' \subseteq Occurrence
    BY <1>1, <2>1, <2>2 DEF TasksOwned
  <2>4. \A o \in tasks' : o.rule \in Stored /\ o.job = jobs[o.rule].id
    BY <1>1, <2>1, <2>2 DEF TasksOwned
  <2> HIDE DEF p
  <2> QED BY <1>1, <1>2, <2>2, <2>3, <2>4 DEF TasksOwned
<1>6. now \in Nat
  BY NowIsNumber
<1>7. /\ pass'[h] = Idle /\ \A g \in Hosts \ {h} : pass'[g] = pass[g]
      /\ DOMAIN pass' = Hosts
  BY <1>1 DEF TypeInv
<1>8. PassShaped(h)' /\ Claimed(h)' = {}
  BY <1>7, IdleShaped
<1>9. ASSUME NEW g \in Hosts \ {h}
      PROVE  PassShaped(g)' /\ Claimed(g)' = Claimed(g)
  <2>1. Claimed(g) \intersect Claimed(h) = {}
    BY DEF TypeInv, Exclusive
  <2>2. Claimed(g) \subseteq Stored /\ Stored \subseteq Rules
    BY DEF TypeInv, PassShaped, Claimed, Stored
  <2>3. \A r \in Claimed(g) : r \in Stored' /\ jobs'[r] = jobs[r]
    BY <1>2, <2>1, <2>2
  <2> QED BY <1>1, <1>6, <1>7, <2>3, PassKept
<1>10. ASSUME NEW g \in Hosts
       PROVE  ActivationShaped(g)' /\ Inserted(g)' = Inserted(g) /\ Removed(g)' = Removed(g)
  <2>1. \A r \in Rules : ids'[r] \in Nat /\ ids[r] <= ids'[r]
    BY <1>1 DEF TypeInv, RowsShaped
  <2>2. Inserted(g) \intersect Stored = {} /\ Removed(g) \subseteq Stored
    BY DEF TypeInv, ActivationShaped, WrittenShaped, Inserted, Removed
  <2> QED BY <1>1, <1>2, <1>6, <2>1, <2>2, ActivationKept
<1>11. Exclusive'
  BY <1>8, <1>9, <1>10, ExclusiveKept
<1>12. WorldShaped' /\ DOMAIN activation' = Hosts
  BY <1>1 DEF TypeInv, WorldShaped
<1> QED BY <1>4, <1>5, <1>7, <1>8, <1>9, <1>10, <1>11, <1>12 DEF TypeInv

\* A pass that rolls back gives up its locks only.
LEMMA AbortPassKeepsType ==
    ASSUME TypeInv, NEW h \in Hosts, AbortPass(h)
    PROVE  TypeInv'
<1>1. /\ Spend("abort")
      /\ pass' = [pass EXCEPT ![h] = Idle]
      /\ UNCHANGED <<now, jobs, ids, tasks, ran, activation, target, applied, serving, broken>>
  BY DEF AbortPass, db
<1>2. RowsShaped' /\ TasksOwned'
  BY <1>1, TablesKept
<1>3. /\ pass'[h] = Idle /\ \A g \in Hosts \ {h} : pass'[g] = pass[g]
      /\ DOMAIN pass' = Hosts /\ DOMAIN activation' = Hosts
  BY <1>1 DEF TypeInv
<1>4. now \in Nat
  BY NowIsNumber
<1>5. PassShaped(h)' /\ Claimed(h)' = {}
  BY <1>3, IdleShaped
<1>6. \A g \in Hosts \ {h} : PassShaped(g)' /\ Claimed(g)' = Claimed(g)
  BY <1>1, <1>3, <1>4, OthersKept
<1>7. \A g \in Hosts : ActivationShaped(g)' /\ Inserted(g)' = Inserted(g) /\ Removed(g)' = Removed(g)
  BY <1>1, <1>4, OthersKept
<1>8. Exclusive'
  BY <1>5, <1>6, <1>7, ExclusiveKept
<1>9. DOMAIN spent' = DOMAIN Budget /\ \A d \in DOMAIN Budget : spent'[d] \in 0 .. Budget[d]
  BY <1>1, Deeds, BudgetKept
<1>10. WorldShaped'
  BY <1>1, <1>9 DEF TypeInv, WorldShaped
<1> QED BY <1>2, <1>3, <1>5, <1>6, <1>7, <1>8, <1>10 DEF TypeInv

\* An activation starts with a first run for each rule of the version it serves
\* (syncSchedules).
LEMMA CollectKeepsType ==
    ASSUME TypeInv, NEW h \in Hosts, Collect(h)
    PROVE  TypeInv'
<1> DEFINE a == [phase |-> "collected", desired |-> [r \in target |-> FirstRunAt(r, now)]]
<1>1. /\ activation[h].phase = "idle"
      /\ activation' = [activation EXCEPT ![h] = a]
      /\ serving' = serving \union {h}
      /\ UNCHANGED <<now, jobs, ids, tasks, ran, pass, target, applied, broken, spent>>
  BY DEF Collect, db
<1>2. RowsShaped' /\ TasksOwned'
  BY <1>1, TablesKept
<1>3. /\ activation'[h] = a /\ \A g \in Hosts \ {h} : activation'[g] = activation[g]
      /\ DOMAIN pass' = Hosts /\ DOMAIN activation' = Hosts
  BY <1>1 DEF TypeInv
<1>4. now \in Nat /\ now \in 0 .. MaxTime
  BY NowIsNumber
<1>5. \A g \in Hosts : PassShaped(g)' /\ Claimed(g)' = Claimed(g)
  BY <1>1, <1>4, OthersKept
<1>6. \A g \in Hosts \ {h} : ActivationShaped(g)' /\ Inserted(g)' = Inserted(g) /\ Removed(g)' = Removed(g)
  BY <1>1, <1>3, <1>4, OthersKept
<1>7. ActivationShaped(h)' /\ Inserted(h)' = {} /\ Removed(h)' = {}
  <2>1. target \subseteq Rules
    BY VersionsAssumption DEF TypeInv, WorldShaped
  <2>2. a.phase = "collected" /\ DOMAIN a.desired = target
    OBVIOUS
  <2>3. \A r \in target : a.desired[r] \in Nat \union {None} /\ LiveClock(r, a.desired[r])
    BY <1>4, <2>1, FirstRunFollows
  <2> HIDE DEF a
  <2> QED BY <1>3, <2>1, <2>2, <2>3 DEF ActivationShaped, DesiredShaped, Inserted, Removed, LiveClock
<1>8. Exclusive'
  BY <1>5, <1>6, <1>7, ExclusiveKept
<1>9. WorldShaped'
  <2>1. \A g \in serving' : activation'[g].phase # "idle" /\ g \in Hosts
    <3>1. a.phase # "idle"
      OBVIOUS
    <3> HIDE DEF a
    <3> QED BY <1>1, <1>3, <3>1 DEF TypeInv, WorldShaped
  <2> HIDE DEF a
  <2> QED BY <1>1, <2>1 DEF TypeInv, WorldShaped
<1> QED BY <1>2, <1>3, <1>5, <1>6, <1>7, <1>8, <1>9 DEF TypeInv

\* No row is ever out of date: its clock is as alive as that of the fresh plan.
LEMMA NothingOutdated ==
    ASSUME TypeInv, NEW h \in Hosts, activation[h].phase # "idle",
           NEW r \in Stored \intersect DOMAIN activation[h].desired
    PROVE  HoldsDefinition(jobs[r], activation[h].desired[r])
<1>1. LiveClock(r, activation[h].desired[r])
  BY DEF TypeInv, ActivationShaped, DesiredShaped
<1>2. LiveClock(r, jobs[r].next)
  BY DEF TypeInv, RowsShaped
<1> QED BY <1>1, <1>2 DEF LiveClock, HoldsDefinition

\* What an activation has when it has read the rows.
LEMMA AfterRead ==
    ASSUME TypeInv, NEW h \in Hosts, FindExisting(h),
           NEW a, a = activation[h], NEW b, b = activation'[h]
    PROVE  /\ a.phase = "collected"
           /\ b.phase = "read"
           /\ b.desired = a.desired
           /\ b.inserts = DOMAIN a.desired \ Stored
           /\ DOMAIN b.redefined = {}
           /\ DOMAIN b.removed = Stored \ DOMAIN a.desired
           /\ \A r \in DOMAIN b.removed : b.removed[r] = jobs[r].id
           /\ \A g \in Hosts \ {h} : activation'[g] = activation[g]
           /\ DOMAIN activation' = Hosts
<1> DEFINE outdated == {r \in Stored \intersect DOMAIN a.desired :
                            ~HoldsDefinition(jobs[r], a.desired[r])}
<1> DEFINE c == [ phase     |-> "read",
                  desired   |-> a.desired,
                  inserts   |-> DOMAIN a.desired \ Stored,
                  redefined |-> [r \in outdated |-> jobs[r].id],
                  removed   |-> [r \in NoLongerDesired(a.desired) |-> jobs[r].id] ]
<1>1. a.phase = "collected" /\ activation' = [activation EXCEPT ![h] = c]
  BY DEF FindExisting
<1>2. outdated = {}
  BY <1>1, NothingOutdated
<1>3. /\ c.phase = "read" /\ c.desired = a.desired /\ c.inserts = DOMAIN a.desired \ Stored
      /\ DOMAIN c.redefined = outdated
      /\ DOMAIN c.removed = Stored \ DOMAIN a.desired
      /\ \A r \in DOMAIN c.removed : c.removed[r] = jobs[r].id
  BY DEF NoLongerDesired
<1> HIDE DEF c, outdated
<1>4. b = c /\ \A g \in Hosts \ {h} : activation'[g] = activation[g]
  BY <1>1 DEF TypeInv
<1>5. DOMAIN activation' = Hosts
  BY <1>1 DEF TypeInv
<1> QED BY <1>1, <1>2, <1>3, <1>4, <1>5

\* What an activation reads of the rows decides what it inserts and removes;
\* no row is out of date, for a rule of a version never changes its schedule.
LEMMA FindExistingKeepsType ==
    ASSUME TypeInv, NEW h \in Hosts, FindExisting(h)
    PROVE  TypeInv'
<1> DEFINE a == activation[h]
<1> DEFINE b == activation'[h]
<1>1. UNCHANGED <<now, jobs, ids, tasks, ran, pass, target, applied, serving, broken, spent>>
  BY DEF FindExisting, db, env
<1>2. RowsShaped' /\ TasksOwned' /\ Stored' = Stored
  BY <1>1, TablesKept
<1>3. /\ a.phase = "collected"
      /\ b.phase = "read" /\ b.desired = a.desired
      /\ b.inserts = DOMAIN a.desired \ Stored
      /\ DOMAIN b.redefined = {}
      /\ DOMAIN b.removed = Stored \ DOMAIN a.desired
      /\ \A g \in Hosts \ {h} : activation'[g] = activation[g]
      /\ DOMAIN activation' = Hosts
  BY AfterRead
<1>4. now \in Nat
  BY NowIsNumber
<1>5. \A g \in Hosts : PassShaped(g)' /\ Claimed(g)' = Claimed(g)
  BY <1>1, <1>4, OthersKept
<1>6. \A g \in Hosts \ {h} : ActivationShaped(g)' /\ Inserted(g)' = Inserted(g) /\ Removed(g)' = Removed(g)
  BY <1>1, <1>3, <1>4, OthersKept
<1>7. ActivationShaped(h)' /\ Inserted(h)' = {} /\ Removed(h)' = {}
  <2>1. DesiredShaped(a)
    BY <1>3 DEF TypeInv, ActivationShaped
  <2>2. DesiredShaped(activation[h])'
    BY <1>3, <2>1 DEF DesiredShaped, LiveClock
  <2>3. FoundShaped(activation[h])'
    BY <1>3 DEF FoundShaped, Stored
  <2> QED BY <1>3, <2>2, <2>3 DEF ActivationShaped, Inserted, Removed
<1>8. Exclusive'
  BY <1>5, <1>6, <1>7, ExclusiveKept
<1>9. WorldShaped'
  <2>1. \A g \in serving : activation'[g].phase # "idle" /\ g \in Hosts
    BY <1>3 DEF TypeInv, WorldShaped
  <2> QED BY <1>1, <2>1 DEF TypeInv, WorldShaped
<1>10. DOMAIN pass' = Hosts
  BY <1>1 DEF TypeInv
<1> QED BY <1>2, <1>3, <1>5, <1>6, <1>7, <1>8, <1>9, <1>10 DEF TypeInv

\* What an activation has when it has written.
LEMMA AfterWrite ==
    ASSUME TypeInv, NEW h \in Hosts, WriteJobs(h),
           NEW a, a = activation[h], NEW b, b = activation'[h]
    PROVE  /\ a.phase = "read" /\ FoundShaped(a) /\ DesiredShaped(a)
           /\ b.phase = "written"
           /\ b.desired = a.desired
           /\ b.now = now
           /\ DOMAIN b.own = a.inserts \ Stored
           /\ \A r \in DOMAIN b.own : b.own[r] = FreshJob(ids[r] + 1, a.desired[r])
           /\ DOMAIN b.removed = StillThere(a.removed)
           /\ \A r \in DOMAIN b.removed : b.removed[r] = jobs[r].id
           /\ DOMAIN b.taken = {r \in a.inserts \intersect Stored : jobs[r].next # None}
           /\ \A r \in DOMAIN b.taken : b.taken[r] = jobs[r]
           /\ \A r \in DOMAIN b.removed : ~LockedForActivation(h, r)
           /\ \A r \in a.inserts : ~Undecided(h, r)
           /\ \A g \in Hosts \ {h} : activation'[g] = activation[g]
           /\ DOMAIN activation' = Hosts
<1> DEFINE redefined == StillThere(a.redefined)
<1> DEFINE new == {r \in a.inserts : jobs[r] = None}
<1> DEFINE own == [r \in redefined \union new |->
                     FreshJob(IF r \in new THEN ids[r] + 1 ELSE jobs[r].id, a.desired[r])]
<1> DEFINE taken == {r \in a.inserts \ new : jobs[r].next # None}
<1> DEFINE c == [ phase   |-> "written",
                  desired |-> a.desired,
                  own     |-> own,
                  removed |-> [r \in StillThere(a.removed) |-> jobs[r].id],
                  taken   |-> [r \in taken |-> jobs[r]],
                  now     |-> now ]
<1>1. /\ a.phase = "read"
      /\ activation' = [activation EXCEPT ![h] = c]
      /\ \A r \in redefined \union StillThere(a.removed) : ~LockedForActivation(h, r)
      /\ \A r \in a.inserts : ~Undecided(h, r)
  BY DEF WriteJobs
<1>2. FoundShaped(a) /\ DesiredShaped(a)
  BY <1>1 DEF TypeInv, ActivationShaped
<1>3. redefined = {} /\ a.inserts \subseteq Rules
  BY <1>2 DEF FoundShaped, DesiredShaped, StillThere
<1>4. new = a.inserts \ Stored
  BY <1>3 DEF Stored
<1>5. DOMAIN own = new /\ \A r \in new : own[r] = FreshJob(ids[r] + 1, a.desired[r])
  BY <1>3
<1>6. taken = {r \in a.inserts \intersect Stored : jobs[r].next # None}
  BY <1>4
<1> HIDE DEF own, new, taken, redefined
<1>7. /\ c.phase = "written" /\ c.desired = a.desired /\ c.now = now
      /\ c.own = own
      /\ DOMAIN c.removed = StillThere(a.removed)
      /\ \A r \in DOMAIN c.removed : c.removed[r] = jobs[r].id
      /\ DOMAIN c.taken = taken
      /\ \A r \in DOMAIN c.taken : c.taken[r] = jobs[r]
  OBVIOUS
<1> HIDE DEF c
<1>8. b = c /\ \A g \in Hosts \ {h} : activation'[g] = activation[g]
  BY <1>1 DEF TypeInv
<1>9. DOMAIN activation' = Hosts
  BY <1>1 DEF TypeInv
<1> QED BY <1>1, <1>2, <1>4, <1>5, <1>6, <1>7, <1>8, <1>9

\* An activation inserts the rows it finds missing, takes those that another
\* main put there first, and deletes rows that nobody holds.
LEMMA WriteJobsKeepsType ==
    ASSUME TypeInv, NEW h \in Hosts, WriteJobs(h)
    PROVE  TypeInv'
<1> DEFINE a == activation[h]
<1> DEFINE b == activation'[h]
<1>1. UNCHANGED <<now, jobs, ids, tasks, ran, pass, target, applied, serving, broken, spent>>
  BY DEF WriteJobs, db, env
<1>2. RowsShaped' /\ TasksOwned' /\ Stored' = Stored
  BY <1>1, TablesKept
<1>3. /\ a.phase = "read" /\ FoundShaped(a) /\ DesiredShaped(a)
      /\ b.phase = "written"
      /\ b.desired = a.desired
      /\ b.now = now
      /\ DOMAIN b.own = a.inserts \ Stored
      /\ \A r \in DOMAIN b.own : b.own[r] = FreshJob(ids[r] + 1, a.desired[r])
      /\ DOMAIN b.removed = StillThere(a.removed)
      /\ \A r \in DOMAIN b.removed : b.removed[r] = jobs[r].id
      /\ DOMAIN b.taken = {r \in a.inserts \intersect Stored : jobs[r].next # None}
      /\ \A r \in DOMAIN b.taken : b.taken[r] = jobs[r]
      /\ \A r \in DOMAIN b.removed : ~LockedForActivation(h, r)
      /\ \A r \in a.inserts : ~Undecided(h, r)
      /\ \A g \in Hosts \ {h} : activation'[g] = activation[g]
      /\ DOMAIN activation' = Hosts
  BY AfterWrite
<1> HIDE DEF a, b
<1>4. now \in Nat
  BY NowIsNumber
<1>5. \A g \in Hosts : PassShaped(g)' /\ Claimed(g)' = Claimed(g)
  BY <1>1, <1>4, OthersKept
<1>6. \A g \in Hosts \ {h} : ActivationShaped(g)' /\ Inserted(g)' = Inserted(g) /\ Removed(g)' = Removed(g)
  BY <1>1, <1>3, <1>4, OthersKept
<1>7. /\ a.inserts \subseteq DOMAIN a.desired
      /\ DOMAIN a.desired \subseteq Rules
      /\ DOMAIN b.removed \subseteq Stored \ DOMAIN a.desired
  BY <1>3 DEF FoundShaped, DesiredShaped, StillThere, Stored
<1>8. WrittenShaped(activation[h])'
  <2>1. b.now \in 0 .. now
    BY <1>3, <1>4
  <2>2. ASSUME NEW r \in DOMAIN b.taken
        PROVE  /\ b.taken[r] \in Job
               /\ b.taken[r].id <= ids[r]
               /\ b.taken[r].next # None
               /\ LiveClock(r, b.taken[r].next)
               /\ LiveClock(r, b.taken[r].first)
    <3>1. r \in Stored /\ b.taken[r] = jobs[r] /\ jobs[r].next # None
      BY <1>3
    <3> QED BY <3>1, RowsLive DEF LiveClock
  <2>3. DOMAIN b.taken \subseteq DOMAIN b.desired \ DOMAIN b.own
    BY <1>3, <1>7
  <2> QED BY <1>1, <1>2, <1>3, <1>7, <2>1, <2>2, <2>3 DEF WrittenShaped, LiveClock, FreshJob, b
<1>9. /\ ActivationShaped(h)'
      /\ Inserted(h)' = DOMAIN b.own /\ Removed(h)' = DOMAIN b.removed
  <2>1. DesiredShaped(activation[h])'
    BY <1>3 DEF DesiredShaped, LiveClock, b
  <2> QED BY <1>3, <1>8, <2>1 DEF ActivationShaped, Inserted, Removed, b
<1>10. Exclusive'
  <2>1. ASSUME NEW g \in Hosts \ {h} PROVE DOMAIN b.own \intersect Inserted(g) = {}
    <3>1. ASSUME NEW r \in DOMAIN b.own, r \in Inserted(g) PROVE FALSE
      <4>1. r \in a.inserts /\ r \notin Stored /\ r \in Rules
        BY <1>3, <1>7
      <4>2. jobs[r] = None
        BY <4>1 DEF Stored
      <4>3. activation[g].phase = "written" /\ r \in DOMAIN activation[g].own
        BY <3>1 DEF Inserted
      <4> QED BY <1>3, <4>1, <4>2, <4>3 DEF Undecided
    <3> QED BY <3>1
  <2>2. ASSUME NEW g \in Hosts, NEW r \in DOMAIN b.removed
        PROVE  r \notin Claimed(g) /\ (g # h => r \notin Removed(g))
    <3>1. r \in Stored /\ r \notin LockedByPass(g) /\ (g # h => r \notin LockedByActivation(g))
      BY <1>3, <1>7 DEF LockedForActivation
    <3> QED BY <3>1 DEF LockedByPass, LockedByActivation, Claimed, Removed
  <2>3. Exclusive
    BY DEF TypeInv
  <2>4. \A g, k \in Hosts : Claimed(g)' \intersect Removed(k)' = {}
    BY <1>5, <1>6, <1>9, <2>2, <2>3 DEF Exclusive
  <2>5. \A g, k \in Hosts : g # k => Claimed(g)' \intersect Claimed(k)' = {}
    BY <1>5, <2>3 DEF Exclusive
  <2>6. \A g, k \in Hosts : g # k => Inserted(g)' \intersect Inserted(k)' = {}
    BY <1>6, <1>9, <2>1, <2>3 DEF Exclusive
  <2>7. \A g, k \in Hosts : g # k => Removed(g)' \intersect Removed(k)' = {}
    BY <1>6, <1>9, <2>2, <2>3 DEF Exclusive
  <2> QED BY <2>4, <2>5, <2>6, <2>7 DEF Exclusive
<1>11. WorldShaped'
  <2>1. \A g \in serving : activation'[g].phase # "idle" /\ g \in Hosts
    BY <1>3 DEF TypeInv, WorldShaped, b
  <2> QED BY <1>1, <2>1 DEF TypeInv, WorldShaped
<1>12. DOMAIN pass' = Hosts
  BY <1>1 DEF TypeInv
<1> QED BY <1>2, <1>3, <1>5, <1>6, <1>9, <1>10, <1>11, <1>12 DEF TypeInv

\* An activation that is over leaves the others alone.
LEMMA AfterFinish ==
    ASSUME TypeInv, NEW h \in Hosts, Finish(h)
    PROVE  /\ activation'[h] = Idle
           /\ \A g \in Hosts \ {h} : activation'[g] = activation[g]
           /\ DOMAIN activation' = Hosts
           /\ serving' = serving \ {h}
           /\ serving' \subseteq {g \in Hosts : activation'[g].phase # "idle"}
<1>1. /\ activation' = [activation EXCEPT ![h] = Idle]
      /\ serving' = serving \ {h}
      /\ DOMAIN activation = Hosts
      /\ serving \subseteq {g \in Hosts : activation[g].phase # "idle"}
  BY DEF Finish, TypeInv, WorldShaped
<1>2. /\ activation'[h] = Idle
      /\ \A g \in Hosts \ {h} : activation'[g] = activation[g]
      /\ DOMAIN activation' = Hosts
  BY <1>1
<1>3. \A g \in serving' : g \in Hosts \ {h} /\ activation[g].phase # "idle"
  BY <1>1
<1>4. \A g \in serving' : g \in Hosts /\ activation'[g].phase # "idle"
  BY <1>2, <1>3
<1> QED BY <1>1, <1>2, <1>4

\* An activation that ends without a commit keeps the shape of the rest.
LEMMA FinishKeepsType ==
    ASSUME TypeInv, NEW h \in Hosts, Finish(h),
           UNCHANGED <<now, jobs, ids, tasks, ran, pass, target, applied, broken>>,
           spent' = spent \/ Spend("abort")
    PROVE  TypeInv'
<1>1. RowsShaped' /\ TasksOwned' /\ Stored' = Stored
  BY TablesKept
<1>2. /\ activation'[h] = Idle
      /\ \A g \in Hosts \ {h} : activation'[g] = activation[g]
      /\ DOMAIN activation' = Hosts
      /\ serving' \subseteq {g \in Hosts : activation'[g].phase # "idle"}
  BY AfterFinish
<1>3. now \in Nat
  BY NowIsNumber
<1>4. \A g \in Hosts : PassShaped(g)' /\ Claimed(g)' = Claimed(g)
  BY <1>3, OthersKept
<1>5. \A g \in Hosts \ {h} : ActivationShaped(g)' /\ Inserted(g)' = Inserted(g) /\ Removed(g)' = Removed(g)
  BY <1>2, <1>3, OthersKept
<1>6. ActivationShaped(h)' /\ Inserted(h)' = {} /\ Removed(h)' = {}
  BY <1>2, IdleShaped
<1>7. Exclusive'
  BY <1>4, <1>5, <1>6, ExclusiveKept
<1>8. DOMAIN spent' = DOMAIN Budget /\ \A d \in DOMAIN Budget : spent'[d] \in 0 .. Budget[d]
  BY Deeds, BudgetKept DEF TypeInv, WorldShaped
<1>9. WorldShaped'
  BY <1>2, <1>8 DEF TypeInv, WorldShaped
<1>10. DOMAIN pass' = Hosts
  BY DEF TypeInv
<1> QED BY <1>1, <1>2, <1>4, <1>5, <1>6, <1>7, <1>9, <1>10 DEF TypeInv

\* An activation that would seed a job that is gone ends with nothing written.
LEMMA FailActivationKeepsType ==
    ASSUME TypeInv, NEW h \in Hosts, FailActivation(h)
    PROVE  TypeInv'
BY FinishKeepsType DEF FailActivation, db

\* So does one whose statement fails or whose main goes away.
LEMMA AbortActivationKeepsType ==
    ASSUME TypeInv, NEW h \in Hosts, AbortActivation(h)
    PROVE  TypeInv'
BY FinishKeepsType DEF AbortActivation, db

\* A commit makes the rows of an activation visible with their seeds, and takes
\* the rows it deleted away with their occurrences.
LEMMA CommitActivationKeepsType ==
    ASSUME TypeInv, NEW h \in Hosts, CommitActivation(h)
    PROVE  TypeInv'
<1> DEFINE a == activation[h]
<1>1. /\ a.phase = "written"
      /\ \A r \in TakenStill(a) : ~LockedForActivation(h, r)
      /\ applied' = (applied \/ h \in serving)
      /\ Finish(h)
      /\ UNCHANGED <<now, ran, pass, target, broken, spent>>
  BY DEF CommitActivation
<1>2. Written(a)
  BY <1>1, WrittenIs
<1>3. /\ jobs' \in [Rules -> Job \union {None}]
      /\ ids' \in [Rules -> Nat]
      /\ Stored' = (Stored \ DOMAIN a.removed) \union DOMAIN a.own
      /\ \A r \in DOMAIN a.own :
           /\ ids'[r] = ids[r] + 1
           /\ jobs'[r].id = ids[r] + 1
           /\ jobs'[r].first = a.desired[r]
           /\ LiveClock(r, jobs'[r].next)
      /\ \A r \in Rules \ DOMAIN a.own : ids'[r] = ids[r]
      /\ \A r \in TakenStill(a) :
           /\ r \in Stored'
           /\ jobs'[r].id = jobs[r].id
           /\ jobs'[r].first = a.taken[r].first
           /\ LiveClock(r, jobs'[r].next)
      /\ \A r \in Stored \ (DOMAIN a.removed \union TakenStill(a)) : jobs'[r] = jobs[r]
  BY RowsAfterActivation
<1>4. /\ activation'[h] = Idle
      /\ \A g \in Hosts \ {h} : activation'[g] = activation[g]
      /\ DOMAIN activation' = Hosts
      /\ serving' \subseteq {g \in Hosts : activation'[g].phase # "idle"}
  BY <1>1, AfterFinish
<1>5. Inserted(h) = DOMAIN a.own /\ Removed(h) = DOMAIN a.removed
  BY <1>1 DEF Inserted, Removed
<1> HIDE DEF a
<1>6. now \in Nat /\ Stored \subseteq Rules
  BY NowIsNumber DEF Stored
<1>7. ids \in [Rules -> Nat] /\ \A r \in Stored : jobs[r].id \in 1 .. ids[r]
  BY DEF TypeInv, RowsShaped
<1>8. RowsShaped'
  <2> SUFFICES ASSUME NEW r \in Stored'
               PROVE  /\ jobs'[r].id \in 1 .. ids'[r]
                      /\ LiveClock(r, jobs'[r].next)
                      /\ LiveClock(r, jobs'[r].first)
    BY <1>3 DEF RowsShaped, LiveClock
  <2>1. CASE r \in DOMAIN a.own
    <3>1. r \in Rules /\ LiveClock(r, a.desired[r])
      BY <1>2, <2>1 DEF Written
    <3>2. ids[r] + 1 \in 1 .. ids'[r]
      BY <1>3, <1>7, <2>1, <3>1
    <3> QED BY <1>3, <2>1, <3>1, <3>2
  <2>2. CASE r \notin DOMAIN a.own /\ r \in TakenStill(a)
    <3>1. r \in Stored /\ r \in DOMAIN a.taken
      BY <1>2, <2>2 DEF Written
    <3>2. LiveClock(r, a.taken[r].first)
      BY <1>2, <3>1 DEF Written
    <3>3. ids'[r] = ids[r]
      BY <1>3, <1>6, <2>2, <3>1
    <3> QED BY <1>3, <1>7, <2>2, <3>1, <3>2, <3>3
  <2>3. CASE r \notin DOMAIN a.own /\ r \notin TakenStill(a)
    <3>1. r \in Stored /\ r \notin DOMAIN a.removed
      BY <1>3, <2>3
    <3>2. jobs'[r] = jobs[r] /\ ids'[r] = ids[r]
      BY <1>3, <1>6, <2>3, <3>1
    <3> QED BY <3>1, <3>2 DEF TypeInv, RowsShaped
  <2> QED BY <2>1, <2>2, <2>3
<1>9. TasksOwned'
  <2>1. /\ tasks' = {o \in tasks : o.rule \notin DOMAIN a.removed} \union Seeded(a)
        /\ \A o \in Seeded(a) :
             \/ o.rule \in DOMAIN a.own /\ o.job = a.own[o.rule].id
             \/ o.rule \in TakenStill(a) /\ o.job = a.taken[o.rule].id
        /\ Seeded(a) \subseteq Occurrence
    BY TasksAfterActivation DEF a
  <2>2. TasksOwned
    BY DEF TypeInv
  <2>3. tasks' \subseteq Occurrence /\ ran' \subseteq Occurrence
    BY <1>1, <2>1, <2>2 DEF TasksOwned
  <2>4. ASSUME NEW o \in tasks, o.rule \notin DOMAIN a.removed
        PROVE  o.rule \in Stored' /\ o.job = jobs'[o.rule].id
    <3>1. o.rule \in Stored /\ o.job = jobs[o.rule].id
      BY <2>2 DEF TasksOwned
    <3>2. CASE o.rule \in TakenStill(a)
      BY <1>3, <3>1, <3>2
    <3>3. CASE o.rule \notin TakenStill(a)
      BY <1>3, <2>4, <3>1, <3>3
    <3> QED BY <3>2, <3>3
  <2>5. ASSUME NEW o \in Seeded(a)
        PROVE  o.rule \in Stored' /\ o.job = jobs'[o.rule].id
    <3>1. CASE o.rule \in DOMAIN a.own /\ o.job = a.own[o.rule].id
      BY <1>2, <1>3, <3>1 DEF Written
    <3>2. CASE o.rule \in TakenStill(a) /\ o.job = a.taken[o.rule].id
      <4>1. jobs[o.rule].id = a.taken[o.rule].id
        BY <1>2, <3>2 DEF Written
      <4> QED BY <1>3, <3>2, <4>1
    <3> QED BY <2>1, <3>1, <3>2
  <2>6. \A o \in tasks' : o.rule \in Stored' /\ o.job = jobs'[o.rule].id
    BY <2>1, <2>4, <2>5
  <2> QED BY <2>3, <2>6 DEF TasksOwned
<1>10. ASSUME NEW g \in Hosts PROVE PassShaped(g)' /\ Claimed(g)' = Claimed(g)
  <2>1. Claimed(g) \subseteq Stored
    BY DEF TypeInv, PassShaped, Claimed
  <2>2. Claimed(g) \intersect DOMAIN a.removed = {}
    BY <1>5 DEF TypeInv, Exclusive
  <2>3. Claimed(g) \intersect TakenStill(a) = {}
    BY <1>1 DEF LockedForActivation, LockedByPass, Claimed, a
  <2>4. \A r \in Claimed(g) : r \in Stored' /\ jobs'[r] = jobs[r]
    BY <1>3, <2>1, <2>2, <2>3
  <2> QED BY <1>1, <1>6, <2>4, PassKept
<1>11. ASSUME NEW g \in Hosts \ {h}
       PROVE  ActivationShaped(g)' /\ Inserted(g)' = Inserted(g) /\ Removed(g)' = Removed(g)
  <2>1. /\ Inserted(g) \intersect DOMAIN a.own = {}
        /\ Removed(g) \intersect DOMAIN a.removed = {}
    BY <1>5 DEF TypeInv, Exclusive
  <2>2. Inserted(g) \subseteq Rules \ Stored /\ Removed(g) \subseteq Stored
    BY DEF TypeInv, ActivationShaped, WrittenShaped, DesiredShaped, Inserted, Removed
  <2>3. \A r \in Rules : ids'[r] \in Nat /\ ids[r] <= ids'[r]
    <3> SUFFICES ASSUME NEW r \in Rules PROVE ids'[r] \in Nat /\ ids[r] <= ids'[r]
      OBVIOUS
    <3>1. ids[r] \in Nat /\ (ids'[r] = ids[r] \/ ids'[r] = ids[r] + 1)
      BY <1>3, <1>7
    <3> QED BY <3>1
  <2>4. \A r \in Inserted(g) : r \notin Stored' /\ ids'[r] = ids[r]
    BY <1>3, <2>1, <2>2
  <2>5. \A r \in Removed(g) : r \in Stored' /\ jobs'[r].id = jobs[r].id
    BY <1>3, <2>1, <2>2
  <2> QED BY <1>1, <1>4, <1>6, <2>3, <2>4, <2>5, ActivationKept
<1>12. ActivationShaped(h)' /\ Inserted(h)' = {} /\ Removed(h)' = {}
  BY <1>4, IdleShaped
<1>13. Exclusive'
  BY <1>10, <1>11, <1>12, ExclusiveKept
<1>14. WorldShaped'
  BY <1>1, <1>4 DEF TypeInv, WorldShaped
<1>15. DOMAIN pass' = Hosts
  BY <1>1 DEF TypeInv
<1> QED BY <1>4, <1>8, <1>9, <1>10, <1>11, <1>12, <1>13, <1>14, <1>15 DEF TypeInv

\* A deletion of the rows leaves the transactions as they are: none holds one.
LEMMA DeleteJobsKeepsShape ==
    ASSUME TypeInv, DeleteJobs, UNCHANGED <<now, pass, activation>>
    PROVE  /\ RowsShaped' /\ TasksOwned'
           /\ DOMAIN pass' = Hosts /\ DOMAIN activation' = Hosts
           /\ \A h \in Hosts : PassShaped(h)'
           /\ \A h \in Hosts : ActivationShaped(h)'
           /\ Exclusive'
<1>1. /\ jobs' = [r \in Rules |-> None]
      /\ Stored' = {}
      /\ tasks' = {} /\ ids' = ids /\ ran' = ran
      /\ \A h \in Hosts : Claimed(h) = {} /\ Removed(h) = {}
  BY RowsAfterDeletion
<1>2. now \in Nat
  BY NowIsNumber
<1>3. RowsShaped'
  BY <1>1 DEF RowsShaped, TypeInv
<1>4. TasksOwned'
  BY <1>1 DEF TasksOwned, TypeInv
<1>5. \A h \in Hosts : PassShaped(h)' /\ Claimed(h)' = Claimed(h)
  BY <1>1, <1>2, PassKept
<1>6. ASSUME NEW h \in Hosts
      PROVE  ActivationShaped(h)' /\ Inserted(h)' = Inserted(h) /\ Removed(h)' = Removed(h)
  <2>1. \A r \in Rules : ids'[r] \in Nat /\ ids[r] <= ids'[r]
    BY <1>1 DEF TypeInv, RowsShaped
  <2>2. Inserted(h) \subseteq Rules
    BY DEF TypeInv, ActivationShaped, WrittenShaped, DesiredShaped, Inserted
  <2> QED BY <1>1, <1>2, <2>1, <2>2, ActivationKept
<1>7. Exclusive'
  BY <1>5, <1>6, ExclusiveKept
<1> QED BY <1>3, <1>4, <1>5, <1>6, <1>7 DEF TypeInv

\* Unpublishing deletes rows that nobody holds.
LEMMA UnpublishKeepsType ==
    ASSUME TypeInv, Unpublish
    PROVE  TypeInv'
<1>1. /\ Spend("unpublish") /\ DeleteJobs
      /\ target' = {} /\ applied' = FALSE /\ serving' = {}
      /\ UNCHANGED <<now, pass, activation, broken>>
  BY DEF Unpublish
<1>2. DOMAIN spent' = DOMAIN Budget /\ \A d \in DOMAIN Budget : spent'[d] \in 0 .. Budget[d]
  BY <1>1, Deeds, BudgetKept
<1>3. WorldShaped'
  BY <1>1, <1>2 DEF TypeInv, WorldShaped
<1> QED BY <1>1, <1>3, DeleteJobsKeepsShape DEF TypeInv

\* So does the leader's teardown of an unpublished workflow.
LEMMA TeardownKeepsType ==
    ASSUME TypeInv, Teardown
    PROVE  TypeInv'
<1>1. /\ DeleteJobs /\ applied' = TRUE
      /\ UNCHANGED <<now, pass, activation, target, serving, broken, spent>>
  BY DEF Teardown
<1>2. WorldShaped'
  BY <1>1 DEF TypeInv, WorldShaped
<1> QED BY <1>1, <1>2, DeleteJobsKeepsShape DEF TypeInv

\* So does the removal of a node that was modified.
LEMMA DeregisterKeepsType ==
    ASSUME TypeInv, Deregister
    PROVE  TypeInv'
<1>1. /\ DeleteJobs /\ Spend("deregister")
      /\ UNCHANGED <<now, pass, activation, target, applied, serving, broken>>
  BY DEF Deregister
<1>2. DOMAIN spent' = DOMAIN Budget /\ \A d \in DOMAIN Budget : spent'[d] \in 0 .. Budget[d]
  BY <1>1, Deeds, BudgetKept
<1>3. WorldShaped'
  BY <1>1, <1>2 DEF TypeInv, WorldShaped
<1> QED BY <1>1, <1>3, DeleteJobsKeepsShape DEF TypeInv

\* Actions that touch no row and no transaction keep their shape.
LEMMA WorldStep ==
    ASSUME TypeInv, UNCHANGED <<jobs, ids, tasks, ran, pass, activation>>,
           now' \in Nat, now <= now'
    PROVE  /\ RowsShaped' /\ TasksOwned'
           /\ DOMAIN pass' = Hosts /\ DOMAIN activation' = Hosts
           /\ \A h \in Hosts : PassShaped(h)'
           /\ \A h \in Hosts : ActivationShaped(h)'
           /\ Exclusive'
<1>1. RowsShaped' /\ TasksOwned'
  BY TablesKept
<1>2. \A h \in Hosts : PassShaped(h)' /\ Claimed(h)' = Claimed(h)
  BY OthersKept
<1>3. \A h \in Hosts : ActivationShaped(h)' /\ Inserted(h)' = Inserted(h) /\ Removed(h)' = Removed(h)
  BY OthersKept
<1>4. Exclusive'
  BY <1>2, <1>3, ExclusiveKept
<1> QED BY <1>1, <1>2, <1>3, <1>4 DEF TypeInv

\* Publishing changes the version that is wanted.
LEMMA PublishKeepsType ==
    ASSUME TypeInv, NEW v \in Versions, Publish(v)
    PROVE  TypeInv'
<1>1. /\ target' = v /\ applied' = FALSE /\ serving' = {}
      /\ spent' = spent \/ Spend("republish")
      /\ UNCHANGED <<now, jobs, ids, tasks, ran, pass, activation, broken>>
  BY DEF Publish, db
<1>2. DOMAIN spent' = DOMAIN Budget /\ \A d \in DOMAIN Budget : spent'[d] \in 0 .. Budget[d]
  BY <1>1, Deeds, BudgetKept DEF TypeInv, WorldShaped
<1>3. WorldShaped'
  BY <1>1, <1>2 DEF TypeInv, WorldShaped
<1>4. now' \in Nat /\ now <= now'
  BY <1>1, NowIsNumber
<1> QED BY <1>1, <1>3, <1>4, WorldStep DEF TypeInv

\* Rules become plannable again; no row changes.
LEMMA HealKeepsType ==
    ASSUME TypeInv, Heal
    PROVE  TypeInv'
<1>1. /\ broken' = {}
      /\ UNCHANGED <<now, jobs, ids, tasks, ran, pass, activation, target, applied, serving, spent>>
  BY DEF Heal, db
<1>2. WorldShaped'
  BY <1>1 DEF TypeInv, WorldShaped
<1>3. now' \in Nat /\ now <= now'
  BY <1>1, NowIsNumber
<1> QED BY <1>1, <1>2, <1>3, WorldStep DEF TypeInv

\* Time moves to a later instant within its bound.
LEMMA TickKeepsType ==
    ASSUME TypeInv, Tick
    PROVE  TypeInv'
<1>1. /\ now < MaxTime /\ now' = now + 1
      /\ UNCHANGED <<jobs, ids, tasks, ran, pass, activation, target, applied, serving, broken, spent>>
  BY DEF Tick, db, env
<1>2. now' \in 0 .. MaxTime /\ now' \in Nat /\ now <= now'
  BY <1>1, NowIsNumber, TimesAssumption
<1>3. WorldShaped'
  BY <1>1, <1>2 DEF TypeInv, WorldShaped
<1> QED BY <1>1, <1>2, <1>3, WorldStep DEF TypeInv

\* A delivery adds to what ran an occurrence that is recorded.
LEMMA RunKeepsType ==
    ASSUME TypeInv, NEW o \in tasks, Run(o)
    PROVE  TypeInv'
<1>1. /\ ran' = ran \union {o}
      /\ UNCHANGED <<now, jobs, tasks, ids, pass, activation, target, applied, serving, broken, spent>>
  BY DEF Run, env
<1>2. now \in Nat
  BY NowIsNumber
<1>3. RowsShaped' /\ TasksOwned' /\ Stored' = Stored
  BY <1>1 DEF TypeInv, RowsShaped, TasksOwned, Stored, LiveClock
<1>4. ASSUME NEW h \in Hosts PROVE PassShaped(h)' /\ Claimed(h)' = Claimed(h)
  <2>1. Claimed(h) \subseteq Stored
    BY DEF TypeInv, PassShaped, Claimed
  <2> QED BY <1>1, <1>2, <1>3, <2>1, PassKept
<1>5. ASSUME NEW h \in Hosts
      PROVE  ActivationShaped(h)' /\ Inserted(h)' = Inserted(h) /\ Removed(h)' = Removed(h)
  <2>1. \A r \in Rules : ids'[r] \in Nat /\ ids[r] <= ids'[r]
    BY <1>1 DEF TypeInv, RowsShaped
  <2>2. Inserted(h) \intersect Stored = {} /\ Removed(h) \subseteq Stored
    BY DEF TypeInv, ActivationShaped, WrittenShaped, Inserted, Removed
  <2> QED BY <1>1, <1>2, <1>3, <2>1, <2>2, ActivationKept
<1>6. Exclusive'
  BY <1>4, <1>5, ExclusiveKept
<1>7. WorldShaped' /\ DOMAIN pass' = Hosts /\ DOMAIN activation' = Hosts
  BY <1>1 DEF TypeInv, WorldShaped
<1> QED BY <1>3, <1>4, <1>5, <1>6, <1>7 DEF TypeInv

\* At first there is nothing.
LEMMA InitType == Init => TypeInv
<1> SUFFICES ASSUME Init PROVE TypeInv
  OBVIOUS
<1>1. /\ now = 0 /\ jobs = [r \in Rules |-> None] /\ tasks = {} /\ ran = {}
      /\ ids = [r \in Rules |-> 0]
      /\ pass = [h \in Hosts |-> Idle] /\ activation = [h \in Hosts |-> Idle]
      /\ target = {} /\ applied = TRUE /\ serving = {} /\ broken = Broken
      /\ spent = [k \in DOMAIN Budget |-> 0]
  BY DEF Init
<1>2. Stored = {}
  BY <1>1 DEF Stored
<1>3. RowsShaped
  BY <1>1, <1>2 DEF RowsShaped
<1>4. TasksOwned
  BY <1>1 DEF TasksOwned
<1>5. \A h \in Hosts : PassShaped(h) /\ ActivationShaped(h)
  BY <1>1 DEF Idle, PassShaped, ActivationShaped
<1>6. Exclusive
  BY <1>1 DEF Exclusive, Idle, Claimed, Inserted, Removed
<1>7. WorldShaped
  <2>1. \A k \in DOMAIN Budget : spent[k] \in 0 .. Budget[k]
    BY <1>1, BudgetAssumption
  <2>2. now \in 0 .. MaxTime
    BY <1>1, TimesAssumption
  <2> QED BY <1>1, <2>1, <2>2 DEF WorldShaped
<1> QED BY <1>1, <1>3, <1>4, <1>5, <1>6, <1>7 DEF TypeInv

\* Every step keeps the shape.
LEMMA NextType == TypeInv /\ [Next]_vars => TypeInv'
<1> SUFFICES ASSUME TypeInv, [Next]_vars PROVE TypeInv'
  OBVIOUS
<1>1. CASE UNCHANGED vars
  <2>1. /\ UNCHANGED <<now, jobs, tasks, ran, ids, pass, activation>>
        /\ UNCHANGED <<target, applied, serving, broken, spent>>
    BY <1>1 DEF vars
  <2>2. now' \in Nat /\ now <= now'
    BY <2>1, NowIsNumber
  <2>3. WorldShaped'
    BY <2>1 DEF TypeInv, WorldShaped
  <2> QED BY <2>1, <2>2, <2>3, WorldStep DEF TypeInv
<1>2. ASSUME NEW h \in Hosts, Materialize(h) PROVE TypeInv'
  BY <1>2, ClaimDueJobsKeepsType, CommitPassKeepsType, AbortPassKeepsType DEF Materialize
<1>3. ASSUME NEW h \in Hosts, Activate(h) PROVE TypeInv'
  BY <1>3, CollectKeepsType, FindExistingKeepsType, WriteJobsKeepsType,
     CommitActivationKeepsType, FailActivationKeepsType, AbortActivationKeepsType DEF Activate
<1> QED BY <1>1, <1>2, <1>3, PublishKeepsType, UnpublishKeepsType, TeardownKeepsType,
           DeregisterKeepsType, RunKeepsType, HealKeepsType, TickKeepsType DEF Next

\* The shape is an invariant of the specification.
LEMMA SpecType == Spec => []TypeInv
BY InitType, NextType, PTL DEF Spec

\* Rows, occurrences and clocks are of the types the tables give them, and an
\* occurrence belongs to a job that exists: no seed of an activation that was
\* overtaken leaves one behind.
THEOREM TypesHold == Spec => []TypeOK
<1>1. TypeInv => TypeOK
  BY DEF TypeInv, RowsShaped, TasksOwned, PassShaped, WorldShaped, TypeOK, Stored
<1> QED BY <1>1, SpecType, PTL

-----------------------------------------------------------------------------
(* Occurrences go only with their job.                                     *)

\* An occurrence that a deletion takes away belonged to a row that it deletes.
LEMMA DeletionTakesRows ==
    ASSUME TypeInv, DeleteJobs, NEW o \in tasks
    PROVE  jobs'[o.rule] = None
<1>1. o.rule \in Rules
  BY DEF TypeInv, TasksOwned, Stored
<1> QED BY <1>1, RowsAfterDeletion

\* Only a commit of an activation and the deletions shrink the table.
LEMMA RecordedStepwise ==
    ASSUME TypeInv, [Next]_vars, NEW o \in tasks \ tasks'
    PROVE  jobs'[o.rule] = None \/ jobs'[o.rule].id # o.job
<1>1. ASSUME NEW h \in Hosts, CommitActivation(h)
      PROVE  jobs'[o.rule] = None
  <2> DEFINE a == activation[h]
  <2>1. o.rule \in Stored /\ o.rule \in Rules
    BY DEF TypeInv, TasksOwned, Stored
  <2>2. o.rule \in DOMAIN a.removed
    <3>1. tasks' = {p \in tasks : p.rule \notin DOMAIN a.removed} \union Seeded(a)
      BY <1>1, TasksAfterActivation
    <3> QED BY <3>1
  <2>3. o.rule \notin Stored'
    <3>1. a.phase = "written" /\ Stored' = (Stored \ DOMAIN a.removed) \union DOMAIN a.own
      BY <1>1, RowsAfterActivation
    <3>2. Written(a)
      BY <3>1, WrittenIs
    <3>3. DOMAIN a.own \intersect Stored = {}
      BY <3>2 DEF Written
    <3> QED BY <2>1, <2>2, <3>1, <3>3
  <2> QED BY <2>1, <2>3 DEF Stored
<1>2. ASSUME NEW h \in Hosts, CommitPass(h) PROVE FALSE
  <2>1. tasks \subseteq tasks'
    BY <1>2 DEF CommitPass
  <2> QED BY <2>1
<1>3. Teardown => jobs'[o.rule] = None
  BY DeletionTakesRows DEF Teardown
<1>4. Deregister => jobs'[o.rule] = None
  BY DeletionTakesRows DEF Deregister
<1>5. Unpublish => jobs'[o.rule] = None
  BY DeletionTakesRows DEF Unpublish
<1>6. tasks' # tasks
  OBVIOUS
<1>7. ASSUME NEW h \in Hosts, Materialize(h) PROVE FALSE
  BY <1>2, <1>6, <1>7 DEF Materialize, ClaimDueJobs, AbortPass, db
<1>8. ASSUME NEW h \in Hosts, Activate(h) PROVE jobs'[o.rule] = None
  BY <1>1, <1>6, <1>8 DEF Activate, Collect, FindExisting, WriteJobs, FailActivation,
                          AbortActivation, db
<1>9. ASSUME UNCHANGED vars PROVE FALSE
  BY <1>6, <1>9 DEF vars
<1>10. ASSUME NEW v \in Versions, Publish(v) PROVE FALSE
  BY <1>6, <1>10 DEF Publish, db
<1>11. ASSUME NEW p \in tasks, Run(p) PROVE FALSE
  BY <1>6, <1>11 DEF Run
<1>12. ASSUME Heal \/ Tick PROVE FALSE
  BY <1>6, <1>12 DEF Heal, Tick, db
<1> QED BY <1>3, <1>4, <1>5, <1>7, <1>8, <1>9, <1>10, <1>11, <1>12 DEF Next

\* An occurrence, once recorded, goes only with its job: a replayed activation
\* withdraws nothing from a job it finds in place (holdsDefinition).
THEOREM RecordedStays == Spec => RecordedUntilRemoved
<1> DEFINE Kept == \A o \in tasks \ tasks' : jobs'[o.rule] = None \/ jobs'[o.rule].id # o.job
<1>1. TypeInv /\ [Next]_vars => [Kept]_vars
  BY RecordedStepwise
<1>2. RecordedUntilRemoved <=> [][Kept]_vars
  BY DEF RecordedUntilRemoved
<1> HIDE DEF Kept
<1> QED BY <1>1, <1>2, SpecType, PTL DEF Spec

-----------------------------------------------------------------------------
(* Convergence.                                                            *)

\* What neither stores or deletes rows nor concerns an activation changes
\* nothing about how far the last request has come.
LEMMA ConvergeFrame ==
    ASSUME ConvergeInv, UNCHANGED <<activation, target, applied, serving>>,
           Stored' = Stored, \A r \in Stored : jobs'[r].id = jobs[r].id
    PROVE  ConvergeInv'
<1>1. ASSUME NEW h \in serving PROVE OnItsWay(h)'
  <2>1. OnItsWay(h)
    BY DEF ConvergeInv
  <2> QED BY <2>1 DEF OnItsWay
<1> QED BY <1>1 DEF ConvergeInv

\* A new activation wants what is the target now, and no activation for another
\* version is still at work.
LEMMA CollectConverges ==
    ASSUME TypeInv, ConvergeInv, NEW h \in Hosts, Collect(h)
    PROVE  ConvergeInv'
<1> DEFINE a == [phase |-> "collected", desired |-> [r \in target |-> FirstRunAt(r, now)]]
<1>1. /\ activation[h].phase = "idle"
      /\ \A g \in Hosts : activation[g].phase # "idle" => g \in serving
      /\ activation' = [activation EXCEPT ![h] = a]
      /\ serving' = serving \union {h}
      /\ UNCHANGED <<jobs, target, applied>>
  BY DEF Collect, db
<1>2. /\ activation'[h] = a /\ \A g \in Hosts \ {h} : activation'[g] = activation[g]
      /\ DOMAIN activation' = Hosts
  BY <1>1 DEF TypeInv
<1>3. a.phase = "collected" /\ DOMAIN a.desired = target
  OBVIOUS
<1> HIDE DEF a
<1>4. Stored' = Stored
  BY <1>1 DEF Stored
<1>5. OnItsWay(h)'
  BY <1>1, <1>2, <1>3 DEF OnItsWay
<1>6. ASSUME NEW g \in serving, g # h PROVE OnItsWay(g)'
  <2>1. OnItsWay(g) /\ g \in Hosts
    BY DEF ConvergeInv, TypeInv, WorldShaped
  <2> QED BY <1>1, <1>2, <1>4, <1>6, <2>1 DEF OnItsWay
<1>7. \A g \in Hosts : activation'[g].phase # "idle" => g \in serving'
  BY <1>1, <1>2
<1> QED BY <1>1, <1>4, <1>5, <1>6, <1>7 DEF ConvergeInv

\* Rows that an activation found stored stay so until it ends.
LEMMA FindExistingConverges ==
    ASSUME TypeInv, ConvergeInv, NEW h \in Hosts, FindExisting(h)
    PROVE  ConvergeInv'
<1> DEFINE a == activation[h]
<1> DEFINE b == activation'[h]
<1>1. UNCHANGED <<jobs, target, applied, serving>>
  BY DEF FindExisting, db, env
<1>2. /\ a.phase = "collected"
      /\ b.phase = "read" /\ b.desired = a.desired
      /\ b.inserts = DOMAIN a.desired \ Stored
      /\ DOMAIN b.removed = Stored \ DOMAIN a.desired
      /\ \A r \in DOMAIN b.removed : b.removed[r] = jobs[r].id
      /\ \A g \in Hosts \ {h} : activation'[g] = activation[g]
  BY AfterRead
<1>3. Stored' = Stored
  BY <1>1 DEF Stored
<1>4. ASSUME h \in serving PROVE OnItsWay(h)'
  <2>1. DOMAIN a.desired = target
    BY <1>4 DEF ConvergeInv, OnItsWay
  <2>2. target \ b.inserts \subseteq Stored
    BY <1>2, <2>1
  <2>3. \A r \in Stored \ target : r \in DOMAIN b.removed /\ b.removed[r] = jobs[r].id
    BY <1>2, <2>1
  <2> QED BY <1>1, <1>2, <1>3, <2>1, <2>2, <2>3 DEF OnItsWay
<1>5. ASSUME NEW g \in serving, g # h PROVE OnItsWay(g)'
  <2>1. OnItsWay(g) /\ g \in Hosts
    BY DEF ConvergeInv, TypeInv, WorldShaped
  <2> QED BY <1>1, <1>2, <1>3, <1>5, <2>1 DEF OnItsWay
<1>6. \A g \in Hosts : activation'[g].phase # "idle" => activation[g].phase # "idle"
  BY <1>2
<1> QED BY <1>1, <1>3, <1>4, <1>5, <1>6 DEF ConvergeInv

\* What is stored, inserted and deleted together amount to the target.
LEMMA WriteJobsConverges ==
    ASSUME TypeInv, ConvergeInv, NEW h \in Hosts, WriteJobs(h)
    PROVE  ConvergeInv'
<1> DEFINE a == activation[h]
<1> DEFINE b == activation'[h]
<1>1. UNCHANGED <<jobs, target, applied, serving>>
  BY DEF WriteJobs, db, env
<1>2. /\ a.phase = "read"
      /\ b.phase = "written" /\ b.desired = a.desired
      /\ DOMAIN b.own = a.inserts \ Stored
      /\ DOMAIN b.removed = StillThere(a.removed)
      /\ \A g \in Hosts \ {h} : activation'[g] = activation[g]
  BY AfterWrite
<1>3. Stored' = Stored
  BY <1>1 DEF Stored
<1>4. ASSUME h \in serving PROVE OnItsWay(h)'
  <2>1. /\ DOMAIN a.desired = target
        /\ target \ a.inserts \subseteq Stored
        /\ \A r \in Stored \ target : r \in DOMAIN a.removed /\ a.removed[r] = jobs[r].id
    BY <1>2, <1>4 DEF ConvergeInv, OnItsWay
  <2>2. target \ DOMAIN b.own \subseteq Stored
    BY <1>2, <2>1
  <2>3. Stored \ target \subseteq DOMAIN b.removed
    BY <1>2, <2>1 DEF StillThere, Stored
  <2> QED BY <1>1, <1>2, <1>3, <2>1, <2>2, <2>3 DEF OnItsWay
<1>5. ASSUME NEW g \in serving, g # h PROVE OnItsWay(g)'
  <2>1. OnItsWay(g) /\ g \in Hosts
    BY DEF ConvergeInv, TypeInv, WorldShaped
  <2> QED BY <1>1, <1>2, <1>3, <1>5, <2>1 DEF OnItsWay
<1>6. \A g \in Hosts : activation'[g].phase # "idle" => activation[g].phase # "idle"
  BY <1>2
<1> QED BY <1>1, <1>3, <1>4, <1>5, <1>6 DEF ConvergeInv

\* An activation that ends without a commit leaves the others on their way.
LEMMA FinishConverges ==
    ASSUME TypeInv, ConvergeInv, NEW h \in Hosts, Finish(h),
           UNCHANGED <<jobs, target, applied>>
    PROVE  ConvergeInv'
<1>1. /\ activation'[h] = Idle
      /\ \A g \in Hosts \ {h} : activation'[g] = activation[g]
      /\ serving' = serving \ {h}
  BY AfterFinish
<1>2. Stored' = Stored
  BY DEF Stored
<1>3. ASSUME NEW g \in serving' PROVE OnItsWay(g)'
  <2>1. OnItsWay(g) /\ g \in Hosts \ {h}
    BY <1>1 DEF ConvergeInv, TypeInv, WorldShaped
  <2> QED BY <1>1, <1>2, <2>1 DEF OnItsWay
<1>4. ASSUME applied' \/ serving' # {}, NEW g \in Hosts, activation'[g].phase # "idle"
      PROVE  g \in serving'
  <2>1. g # h /\ activation[g].phase # "idle"
    BY <1>1, <1>4 DEF Idle
  <2>2. applied \/ serving # {}
    BY <1>1, <1>4
  <2> QED BY <1>1, <2>1, <2>2 DEF ConvergeInv
<1> QED BY <1>2, <1>3, <1>4 DEF ConvergeInv

\* The commit of an activation for the last request leaves exactly the rules of
\* the version; one for an earlier request claims nothing.
LEMMA CommitActivationConverges ==
    ASSUME TypeInv, ConvergeInv, NEW h \in Hosts, CommitActivation(h)
    PROVE  ConvergeInv'
<1> DEFINE a == activation[h]
<1>1. /\ a.phase = "written"
      /\ applied' = (applied \/ h \in serving)
      /\ Finish(h)
      /\ target' = target
  BY DEF CommitActivation
<1>2. Written(a)
  BY <1>1, WrittenIs
<1>3. Stored' = (Stored \ DOMAIN a.removed) \union DOMAIN a.own
  BY RowsAfterActivation
<1>4. /\ activation'[h] = Idle
      /\ \A g \in Hosts \ {h} : activation'[g] = activation[g]
      /\ serving' = serving \ {h}
  BY <1>1, AfterFinish
<1>5. serving \subseteq Hosts /\ applied \in BOOLEAN
  BY DEF TypeInv, WorldShaped
<1>6. CASE h \in serving
  <2>1. /\ DOMAIN a.desired = target
        /\ target \ DOMAIN a.own \subseteq Stored
        /\ Stored \ target \subseteq DOMAIN a.removed
    BY <1>1, <1>6 DEF ConvergeInv, OnItsWay
  <2>2. Stored' = target
    BY <1>2, <1>3, <2>1 DEF Written
  <2>3. ASSUME NEW g \in serving' PROVE OnItsWay(g)'
    <3>1. OnItsWay(g) /\ g \in Hosts \ {h}
      BY <1>4, <1>5 DEF ConvergeInv
    <3> QED BY <1>1, <1>4, <2>2, <3>1 DEF OnItsWay
  <2>4. \A g \in Hosts : activation'[g].phase # "idle" => g \in serving'
    <3>1. \A g \in Hosts : activation[g].phase # "idle" => g \in serving
      BY <1>6 DEF ConvergeInv
    <3> QED BY <1>4, <3>1 DEF Idle
  <2> QED BY <1>1, <2>2, <2>3, <2>4 DEF ConvergeInv
<1>7. CASE h \notin serving
  <2>1. ~applied /\ serving = {}
    BY <1>1, <1>7 DEF ConvergeInv
  <2>2. ~applied' /\ serving' = {}
    BY <1>1, <1>4, <1>5, <1>7, <2>1
  <2> QED BY <2>2 DEF ConvergeInv
<1> QED BY <1>6, <1>7

\* A deletion of the rows while no activation is in progress.
LEMMA DeletionConverges ==
    ASSUME TypeInv, DeleteJobs, NoActivation,
           UNCHANGED <<activation, target, serving>>,
           applied' => target = {}
    PROVE  ConvergeInv'
<1>1. Stored' = {}
  BY RowsAfterDeletion
<1>2. serving = {}
  BY DEF NoActivation, TypeInv, WorldShaped
<1> QED BY <1>1, <1>2 DEF ConvergeInv, NoActivation

\* Every step keeps the activations for the last request on their way.
LEMMA NextConverges == TypeInv /\ ConvergeInv /\ [Next]_vars => ConvergeInv'
<1> SUFFICES ASSUME TypeInv, ConvergeInv, [Next]_vars PROVE ConvergeInv'
  OBVIOUS
<1>1. ASSUME UNCHANGED <<jobs, activation, target, applied, serving>> PROVE ConvergeInv'
  <2>1. Stored' = Stored
    BY <1>1 DEF Stored
  <2> QED BY <1>1, <2>1, ConvergeFrame
<1>2. ASSUME NEW h \in Hosts, CommitPass(h) PROVE ConvergeInv'
  <2>1. UNCHANGED <<activation, target, applied, serving>>
    BY <1>2 DEF CommitPass, env
  <2>2. Stored' = Stored /\ \A r \in Stored : jobs'[r].id = jobs[r].id
    BY <1>2, RowsAfterPass
  <2> QED BY <2>1, <2>2, ConvergeFrame
<1>3. ASSUME NEW h \in Hosts, Materialize(h) PROVE ConvergeInv'
  BY <1>1, <1>2, <1>3 DEF Materialize, ClaimDueJobs, AbortPass, db, env
<1>4. ASSUME NEW h \in Hosts, FailActivation(h) \/ AbortActivation(h) PROVE ConvergeInv'
  BY <1>4, FinishConverges DEF FailActivation, AbortActivation, db
<1>5. ASSUME NEW h \in Hosts, Activate(h) PROVE ConvergeInv'
  BY <1>4, <1>5, CollectConverges, FindExistingConverges, WriteJobsConverges,
     CommitActivationConverges DEF Activate
<1>6. ASSUME NEW v \in Versions, Publish(v) PROVE ConvergeInv'
  BY <1>6 DEF Publish, ConvergeInv
<1>7. ASSUME Unpublish PROVE ConvergeInv'
  BY <1>7 DEF Unpublish, ConvergeInv
<1>8. ASSUME Teardown PROVE ConvergeInv'
  BY <1>8, DeletionConverges DEF Teardown
<1>9. ASSUME Deregister PROVE ConvergeInv'
  BY <1>9, DeletionConverges DEF Deregister
<1>10. ASSUME UNCHANGED vars PROVE ConvergeInv'
  BY <1>1, <1>10 DEF vars
<1>11. ASSUME NEW o \in tasks, Run(o) PROVE ConvergeInv'
  BY <1>1, <1>11 DEF Run, env
<1>12. ASSUME Heal \/ Tick PROVE ConvergeInv'
  BY <1>1, <1>12 DEF Heal, Tick, db, env
<1> QED BY <1>3, <1>5, <1>6, <1>7, <1>8, <1>9, <1>10, <1>11, <1>12 DEF Next

\* How far each request has come is an invariant.
LEMMA SpecConverges == Spec => []ConvergeInv
<1>1. Init => ConvergeInv
  BY DEF Init, ConvergeInv, Stored, Idle
<1> QED BY <1>1, NextConverges, SpecType, PTL DEF Spec

\* Once the leader has carried the last request out, the stored rules are those
\* of the version, whoever else activated it and whatever came in between.
THEOREM Converges == Spec => []ActivationConverges
<1>1. ConvergeInv => ActivationConverges
  BY DEF ConvergeInv, ActivationConverges
<1> QED BY <1>1, SpecConverges, PTL

-----------------------------------------------------------------------------
(* Nothing is skipped.                                                     *)

\* A table that keeps what it has of a row keeps the row in step.
LEMMA InStepKept ==
    ASSUME NEW r, NEW job, NEW old, NEW new,
           \A o \in old : o.rule = r /\ o.job = job.id => o \in new,
           InStep(old, r, job)
    PROVE  InStep(new, r, job)
BY DEF InStep, RecordedIn

\* A row in step is in step again when it has been planned, and what was
\* recorded of it are its fires.
LEMMA PlannedInStep ==
    ASSUME NEW r \in Rules \ broken, Schedule[r].kind # "degenerate",
           NEW job \in Job, job.next # None, NEW t \in 0 .. MaxTime,
           NEW old, NEW new, InStep(old, r, job),
           \A o \in old : o.rule = r /\ o.job = job.id => o \in new,
           \A x \in Recorded(r, job, t) : [rule |-> r, job |-> job.id, at |-> x] \in new
    PROVE  /\ InStep(new, r, Advanced(r, job, t))
           /\ Recorded(r, job, t) \subseteq OccurrencesFrom(r, job.first)
<1> DEFINE adv == Advanced(r, job, t)
<1>1. /\ adv.id = job.id /\ adv.first = job.first
      /\ adv.next = NextRunAt(r, job, t)
  BY AdvancedIs
<1>2. /\ NextRunAt(r, job, t) \in OccurrencesFrom(r, job.next)
      /\ NextRunAt(r, job, t) \in Nat
      /\ \A x \in OccurrencesFrom(r, job.next) :
           x < NextRunAt(r, job, t) => x \in Recorded(r, job, t)
  BY NextRunIs
<1>3. /\ job.next \in OccurrencesFrom(r, job.first)
      /\ \A x \in OccurrencesFrom(r, job.first) : x < job.next => x \in RecordedIn(old, r, job)
  BY DEF InStep
<1>4. job.first \in Nat
  <2>1. job.first # None
    BY <1>3 DEF OccurrencesFrom
  <2> QED BY <2>1 DEF Job
<1>5. OccurrencesFrom(r, job.next) = {x \in OccurrencesFrom(r, job.first) : x >= job.next}
  BY <1>3, <1>4, FiresOnGrid
<1>6. Recorded(r, job, t) \subseteq OccurrencesFrom(r, job.first)
  BY <1>5, RecordedAreFires
<1> HIDE DEF adv
<1>7. ASSUME NEW x \in OccurrencesFrom(r, job.first), x < adv.next
      PROVE  x \in RecordedIn(new, r, adv)
  <2>1. CASE x < job.next
    <3>1. PICK o \in old : o.rule = r /\ o.job = job.id /\ o.at = x
      BY <1>3, <2>1 DEF RecordedIn
    <3> QED BY <1>1, <3>1 DEF RecordedIn
  <2>2. CASE ~(x < job.next)
    <3>1. x \in Nat /\ job.next \in Nat
      BY <1>3, <1>4, FiresOnGrid
    <3>2. x \in OccurrencesFrom(r, job.next)
      BY <1>5, <2>2, <3>1
    <3>3. x \in Recorded(r, job, t)
      BY <1>1, <1>2, <1>7, <3>2
    <3>4. [rule |-> r, job |-> job.id, at |-> x] \in new
      BY <3>3
    <3> QED BY <1>1, <3>4 DEF RecordedIn
  <2> QED BY <2>1, <2>2
<1>8. adv.next \in OccurrencesFrom(r, job.first)
  BY <1>1, <1>2, <1>5
<1> QED BY <1>1, <1>6, <1>7, <1>8 DEF InStep, adv

\* A rule that could always be planned is not broken.
LEMMA NeverBroken ==
    ASSUME TypeInv, NEW r \in Rules \ Broken
    PROVE  r \notin broken
BY DEF TypeInv, WorldShaped

\* A pass moves a clock to the first fire it did not record, and records all
\* before it.
LEMMA CommitPassInStep ==
    ASSUME TypeInv, ClockInv, NEW h \in Hosts, CommitPass(h)
    PROVE  ClockInv'
<1> DEFINE p == pass[h]
<1>1. /\ p.phase = "claimed"
      /\ tasks' = tasks \union NewOccurrences(p.claimed, p.now)
      /\ activation' = activation
  BY DEF CommitPass
<1>2. /\ Stored' = Stored
      /\ \A r \in Rules \ Claimed(h) : jobs'[r] = jobs[r]
      /\ \A r \in Claimed(h) : jobs'[r] = Advanced(r, jobs[r], p.now)
      /\ \A r \in Stored : /\ jobs'[r].id = jobs[r].id
                           /\ jobs'[r].first = jobs[r].first
  BY RowsAfterPass
<1>3. /\ Claimed(h) = DOMAIN p.claimed
      /\ p.now \in 0 .. now
      /\ DOMAIN p.claimed \subseteq Stored
      /\ \A r \in DOMAIN p.claimed : p.claimed[r] = jobs[r] /\ jobs[r].next # None
  BY <1>1 DEF TypeInv, PassShaped, Claimed
<1>4. p.now \in 0 .. MaxTime /\ Stored \subseteq Rules
  BY <1>3, ClockWithinBound DEF Stored
<1> HIDE DEF p
<1>5. ASSUME NEW r \in Stored \ Broken
      PROVE  InStep(tasks', r, jobs'[r]) /\ OnSchedule(tasks', r, jobs'[r])
  <2>1. InStep(tasks, r, jobs[r]) /\ OnSchedule(tasks, r, jobs[r]) /\ r \in Rules
    BY <1>4 DEF ClockInv
  <2>2. CASE r \in Claimed(h)
    <3>1. /\ jobs[r] \in Job /\ jobs[r].next # None
          /\ Schedule[r].kind # "degenerate"
          /\ r \in DOMAIN p.claimed \ broken
          /\ p.claimed[r] = jobs[r]
      BY <1>3, <2>1, <2>2, RowsLive, NeverBroken
    <3>2. \A x \in Recorded(r, jobs[r], p.now) :
            [rule |-> r, job |-> jobs[r].id, at |-> x] \in tasks'
      <4>1. ASSUME NEW x \in Recorded(r, p.claimed[r], p.now)
            PROVE  [rule |-> r, job |-> p.claimed[r].id, at |-> x]
                      \in NewOccurrences(p.claimed, p.now)
        BY <3>1, NewOccurrencesHave
      <4> QED BY <1>1, <3>1, <4>1
    <3>3. /\ InStep(tasks', r, Advanced(r, jobs[r], p.now))
          /\ Recorded(r, jobs[r], p.now) \subseteq OccurrencesFrom(r, jobs[r].first)
      <4>1. \A o \in tasks : o \in tasks'
        BY <1>1
      <4> QED BY <1>4, <2>1, <3>1, <3>2, <4>1, PlannedInStep
    <3>4. ASSUME NEW o \in tasks', o.rule = r
          PROVE  o.at \in OccurrencesFrom(r, jobs'[r].first)
      <4>1. CASE o \in tasks
        BY <1>2, <2>1, <3>4, <4>1 DEF OnSchedule
      <4>2. CASE o \in NewOccurrences(p.claimed, p.now)
        <5>1. o.at \in Recorded(o.rule, p.claimed[o.rule], p.now)
          BY <1>3, <1>4, <4>2, NewOccurrencesAre
        <5> QED BY <1>2, <3>1, <3>3, <3>4, <5>1
      <4> QED BY <1>1, <4>1, <4>2
    <3> QED BY <1>2, <2>2, <3>3, <3>4 DEF OnSchedule
  <2>3. CASE r \notin Claimed(h)
    <3>1. jobs'[r] = jobs[r]
      BY <1>2, <2>1, <2>3
    <3>2. \A o \in tasks' : o.rule = r => o \in tasks
      <4>1. ASSUME NEW o \in NewOccurrences(p.claimed, p.now) PROVE o.rule \in Claimed(h)
        BY <1>3, <1>4, NewOccurrencesAre
      <4> QED BY <1>1, <2>3, <4>1
    <3>3. InStep(tasks', r, jobs[r])
      BY <1>1, <2>1, InStepKept
    <3> QED BY <2>1, <3>1, <3>2, <3>3 DEF OnSchedule
  <2> QED BY <2>2, <2>3
<1>6. ASSUME NEW g \in Hosts, activation[g].phase = "written",
             NEW r \in TakenStill(activation[g])' \ Broken
      PROVE  /\ activation[g].taken[r].first = jobs'[r].first
             /\ InStep(tasks', r, activation[g].taken[r])
  <2> DEFINE a == activation[g]
  <2>1. Written(a)
    BY <1>6, WrittenIs
  <2>2. r \in DOMAIN a.taken /\ jobs'[r] # None /\ jobs'[r].id = a.taken[r].id
    BY <1>1, <1>6 DEF TakenStill
  <2>3. r \in Rules
    BY <2>1, <2>2 DEF Written
  <2>4. r \in Stored
    BY <1>2, <2>2, <2>3 DEF Stored
  <2>5. r \in TakenStill(a)
    BY <1>2, <2>2, <2>4 DEF TakenStill, Stored
  <2>6. a.taken[r].first = jobs[r].first /\ InStep(tasks, r, a.taken[r])
    BY <1>6, <2>5 DEF ClockInv
  <2>7. InStep(tasks', r, a.taken[r])
    BY <1>1, <2>6, InStepKept
  <2> QED BY <1>2, <2>4, <2>6, <2>7
<1> QED BY <1>1, <1>2, <1>5, <1>6 DEF ClockInv

\* Neither rows nor occurrences change, and only one activation does.
LEMMA ClockFrame ==
    ASSUME TypeInv, ClockInv, UNCHANGED <<jobs, tasks>>, NEW h,
           \A g \in Hosts \ {h} : activation'[g] = activation[g],
           h \in Hosts /\ activation'[h].phase = "written" =>
               \A r \in TakenStill(activation[h])' \ Broken :
                   /\ activation'[h].taken[r].first = jobs[r].first
                   /\ InStep(tasks, r, activation'[h].taken[r])
    PROVE  ClockInv'
<1>1. Stored' = Stored
  BY DEF Stored
<1>2. ASSUME NEW g \in Hosts, activation'[g].phase = "written",
             NEW r \in TakenStill(activation[g])' \ Broken
      PROVE  /\ activation'[g].taken[r].first = jobs'[r].first
             /\ InStep(tasks', r, activation'[g].taken[r])
  <2>1. CASE g = h
    BY <1>2, <2>1
  <2>2. CASE g # h
    <3>1. activation'[g] = activation[g]
      BY <2>2
    <3>2. r \in TakenStill(activation[g])
      BY <1>2, <3>1 DEF TakenStill
    <3> QED BY <1>2, <3>1, <3>2 DEF ClockInv
  <2> QED BY <2>1, <2>2
<1> QED BY <1>1, <1>2 DEF ClockInv

\* A row that an activation takes is in step when it takes it.
LEMMA WriteJobsInStep ==
    ASSUME TypeInv, ClockInv, NEW h \in Hosts, WriteJobs(h)
    PROVE  ClockInv'
<1> DEFINE b == activation'[h]
<1>1. UNCHANGED <<jobs, tasks>>
  BY DEF WriteJobs, db
<1>2. /\ \A r \in DOMAIN b.taken : r \in Stored /\ b.taken[r] = jobs[r]
      /\ \A g \in Hosts \ {h} : activation'[g] = activation[g]
  <2>1. /\ DOMAIN b.taken = {r \in activation[h].inserts \intersect Stored : jobs[r].next # None}
        /\ \A r \in DOMAIN b.taken : b.taken[r] = jobs[r]
        /\ \A g \in Hosts \ {h} : activation'[g] = activation[g]
    BY AfterWrite
  <2> QED BY <2>1
<1>3. \A r \in TakenStill(activation[h])' \ Broken :
          /\ b.taken[r].first = jobs[r].first
          /\ InStep(tasks, r, b.taken[r])
  <2>1. TakenStill(activation[h])' \subseteq DOMAIN b.taken
    BY DEF TakenStill
  <2> QED BY <1>2, <2>1 DEF ClockInv
<1> QED BY <1>1, <1>2, <1>3, ClockFrame

\* A row that an activation inserts starts at its first fire, and one it seeds
\* moves on to the first fire that it does not record.
LEMMA CommitActivationInStep ==
    ASSUME TypeInv, ClockInv, NEW h \in Hosts, CommitActivation(h)
    PROVE  ClockInv'
<1> DEFINE a == activation[h]
<1>1. /\ a.phase = "written" /\ Finish(h)
  BY DEF CommitActivation
<1>2. Written(a)
  BY <1>1, WrittenIs
<1>3. /\ Stored' = (Stored \ DOMAIN a.removed) \union DOMAIN a.own
      /\ \A r \in DOMAIN a.own :
           /\ jobs'[r].id = ids[r] + 1
           /\ jobs'[r].first = a.desired[r]
           /\ LiveClock(r, jobs'[r].next)
           /\ a.desired[r] # None => jobs'[r] = Advanced(r, a.own[r], a.now)
      /\ \A r \in TakenStill(a) :
           /\ jobs'[r] = Advanced(r, a.taken[r], a.now)
           /\ jobs'[r].id = jobs[r].id
           /\ jobs'[r].first = a.taken[r].first
      /\ \A r \in Stored \ (DOMAIN a.removed \union TakenStill(a)) : jobs'[r] = jobs[r]
  BY RowsAfterActivation
<1>4. /\ tasks' = {o \in tasks : o.rule \notin DOMAIN a.removed} \union Seeded(a)
      /\ \A o \in Seeded(a) :
           \/ /\ o.rule \in DOMAIN a.own \ broken
              /\ a.own[o.rule].next # None
              /\ o.at \in Recorded(o.rule, a.own[o.rule], a.now)
           \/ /\ o.rule \in TakenStill(a) \ broken
              /\ o.at \in Recorded(o.rule, a.taken[o.rule], a.now)
  BY TasksAfterActivation
<1>5. /\ activation'[h] = Idle
      /\ \A g \in Hosts \ {h} : activation'[g] = activation[g]
  BY <1>1, AfterFinish
<1>6. /\ NewOccurrences(a.own, a.now) \subseteq tasks'
      /\ NewOccurrences(a.taken, a.now) \subseteq tasks'
  BY <1>4 DEF Seeded
<1> HIDE DEF a
<1>7. Stored \subseteq Rules
  BY DEF Stored
<1>8. \A o \in tasks : o.rule \in Stored
  BY DEF TypeInv, TasksOwned
<1>9. ASSUME NEW r \in DOMAIN a.own \ Broken
      PROVE  InStep(tasks', r, jobs'[r]) /\ OnSchedule(tasks', r, jobs'[r])
  <2>1. /\ r \in Rules \ Stored
        /\ a.own[r] \in Job
        /\ a.own[r].next = a.desired[r] /\ a.own[r].first = a.desired[r]
        /\ LiveClock(r, a.own[r].next)
        /\ r \notin TakenStill(a)
        /\ a.now \in 0 .. MaxTime
    BY <1>2 DEF Written
  <2>2. \A o \in tasks' : o.rule = r =>
            a.own[r].next # None /\ o.at \in Recorded(r, a.own[r], a.now)
    BY <1>4, <1>8, <2>1
  <2>3. CASE a.desired[r] # None
    <3>1. Schedule[r].kind # "degenerate" /\ r \in Rules \ broken
      BY <2>1, <2>3, NeverBroken DEF LiveClock
    <3>2. InStep({}, r, a.own[r])
      <4>1. a.desired[r] \in Nat
        BY <2>1, <2>3 DEF Job
      <4>2. OccurrencesFrom(r, a.desired[r]) = {a.desired[r]} \union FiresAfter(r, a.desired[r])
        BY <2>3 DEF OccurrencesFrom
      <4>3. \A x \in FiresAfter(r, a.desired[r]) : x \in Nat /\ x > a.desired[r]
        BY <2>1, <4>1, FiresAreLater
      <4> QED BY <2>1, <4>1, <4>2, <4>3 DEF InStep
    <3>3. \A x \in Recorded(r, a.own[r], a.now) :
            [rule |-> r, job |-> a.own[r].id, at |-> x] \in tasks'
      BY <1>6, <3>1, NewOccurrencesHave
    <3>4. /\ InStep(tasks', r, Advanced(r, a.own[r], a.now))
          /\ Recorded(r, a.own[r], a.now) \subseteq OccurrencesFrom(r, a.own[r].first)
      <4>1. a.own[r].next # None /\ \A o \in {} : o \in tasks'
        BY <2>1, <2>3
      <4> QED BY <2>1, <3>1, <3>2, <3>3, <4>1, PlannedInStep
    <3>5. jobs'[r] = Advanced(r, a.own[r], a.now) /\ jobs'[r].first = a.own[r].first
      BY <1>3, <2>1, <2>3
    <3> QED BY <2>2, <3>4, <3>5 DEF OnSchedule
  <2>4. CASE a.desired[r] = None
    <3>1. jobs'[r].next = None
      BY <1>3, <2>1, <2>4 DEF LiveClock
    <3>2. \A o \in tasks' : o.rule # r
      BY <2>1, <2>2, <2>4
    <3> QED BY <3>1, <3>2 DEF InStep, OnSchedule
  <2> QED BY <2>3, <2>4
<1>10. ASSUME NEW r \in TakenStill(a) \ Broken
       PROVE  InStep(tasks', r, jobs'[r]) /\ OnSchedule(tasks', r, jobs'[r])
  <2>1. /\ r \in Stored /\ r \in Rules /\ r \in DOMAIN a.taken
        /\ r \notin DOMAIN a.own /\ r \notin DOMAIN a.removed
        /\ a.taken[r] \in Job /\ a.taken[r].next # None
        /\ Schedule[r].kind # "degenerate"
        /\ a.now \in 0 .. MaxTime
    BY <1>2, <1>7 DEF Written
  <2>2. /\ a.taken[r].first = jobs[r].first
        /\ InStep(tasks, r, a.taken[r])
        /\ OnSchedule(tasks, r, jobs[r])
    BY <1>1, <1>10, <2>1 DEF ClockInv, a
  <2>3. r \in Rules \ broken
    BY <2>1, NeverBroken
  <2>4. \A x \in Recorded(r, a.taken[r], a.now) :
          [rule |-> r, job |-> a.taken[r].id, at |-> x] \in tasks'
    BY <1>6, <2>1, <2>3, NewOccurrencesHave
  <2>5. \A o \in tasks : o.rule = r /\ o.job = a.taken[r].id => o \in tasks'
    BY <1>4, <2>1
  <2>6. /\ InStep(tasks', r, Advanced(r, a.taken[r], a.now))
        /\ Recorded(r, a.taken[r], a.now) \subseteq OccurrencesFrom(r, a.taken[r].first)
    BY <2>1, <2>2, <2>3, <2>4, <2>5, PlannedInStep
  <2>7. \A o \in tasks' : o.rule = r =>
            o \in tasks \/ o.at \in Recorded(r, a.taken[r], a.now)
    BY <1>4, <2>1
  <2>8. jobs'[r] = Advanced(r, a.taken[r], a.now) /\ jobs'[r].first = a.taken[r].first
    BY <1>3
  <2> QED BY <2>2, <2>6, <2>7, <2>8 DEF OnSchedule
<1>11. ASSUME NEW r \in Stored \ Broken, r \notin DOMAIN a.removed, r \notin TakenStill(a)
       PROVE  InStep(tasks', r, jobs'[r]) /\ OnSchedule(tasks', r, jobs'[r])
  <2>1. jobs'[r] = jobs[r] /\ r \notin DOMAIN a.own
    BY <1>2, <1>3, <1>11 DEF Written
  <2>2. InStep(tasks, r, jobs[r]) /\ OnSchedule(tasks, r, jobs[r])
    BY DEF ClockInv
  <2>3. \A o \in tasks : o.rule = r => o \in tasks'
    BY <1>4, <1>11
  <2>4. \A o \in tasks' : o.rule = r => o \in tasks
    BY <1>4, <1>11, <2>1
  <2>5. InStep(tasks', r, jobs[r])
    BY <2>2, <2>3, InStepKept
  <2> QED BY <2>1, <2>2, <2>4, <2>5 DEF OnSchedule
<1>12. ASSUME NEW g \in Hosts \ {h}, activation[g].phase = "written",
              NEW r \in TakenStill(activation[g])' \ Broken
       PROVE  /\ activation[g].taken[r].first = jobs'[r].first
              /\ InStep(tasks', r, activation[g].taken[r])
  <2> DEFINE b == activation[g]
  <2>1. Written(b)
    BY <1>12, WrittenIs
  <2>2. r \in DOMAIN b.taken /\ jobs'[r] # None /\ jobs'[r].id = b.taken[r].id
    BY <1>5, <1>12 DEF TakenStill
  <2>3. r \in Rules /\ b.taken[r].id <= ids[r] /\ b.taken[r].id \in Nat
    BY <2>1, <2>2 DEF Written, Job
  <2>4. r \notin DOMAIN a.own
    <3>1. ids[r] \in Nat
      BY <2>3 DEF TypeInv, RowsShaped
    <3> QED BY <1>3, <2>2, <2>3, <3>1
  <2>5. r \in Stored /\ r \notin DOMAIN a.removed
    <3>1. r \in Stored'
      BY <2>2, <2>3 DEF Stored
    <3> QED BY <1>3, <2>4, <3>1
  <2>6. jobs'[r].id = jobs[r].id
    BY <1>3, <2>5
  <2>7. r \in TakenStill(b)
    BY <2>2, <2>5, <2>6 DEF TakenStill, Stored
  <2>8. b.taken[r].first = jobs[r].first /\ InStep(tasks, r, b.taken[r])
    BY <1>12, <2>7 DEF ClockInv
  <2>9. InStep(tasks', r, b.taken[r])
    <3>1. \A o \in tasks : o.rule = r => o \in tasks'
      BY <1>4, <2>5
    <3> QED BY <2>8, <3>1, InStepKept
  <2>10. jobs'[r].first = jobs[r].first
    <3>1. CASE r \in TakenStill(a)
      BY <1>1, <1>3, <1>12, <3>1 DEF ClockInv, a
    <3>2. CASE r \notin TakenStill(a)
      BY <1>3, <2>5, <3>2
    <3> QED BY <3>1, <3>2
  <2> QED BY <2>8, <2>9, <2>10
<1>13. \A r \in Stored' \ Broken : InStep(tasks', r, jobs'[r]) /\ OnSchedule(tasks', r, jobs'[r])
  BY <1>3, <1>9, <1>10, <1>11
<1>14. \A g \in Hosts : activation'[g].phase = "written" =>
          g \in Hosts \ {h} /\ activation'[g] = activation[g]
  BY <1>5 DEF Idle
<1> QED BY <1>12, <1>13, <1>14 DEF ClockInv

\* Without rows nothing is out of step.
LEMMA DeletionInStep ==
    ASSUME TypeInv, DeleteJobs, UNCHANGED activation
    PROVE  ClockInv'
<1>1. Stored' = {} /\ jobs' = [r \in Rules |-> None]
  BY RowsAfterDeletion
<1>2. ASSUME NEW h \in Hosts, activation[h].phase = "written"
      PROVE  TakenStill(activation[h])' = {}
  <2>1. DOMAIN activation[h].taken \subseteq Rules
    BY <1>2, WrittenIs DEF Written
  <2> QED BY <1>1, <2>1 DEF TakenStill
<1> QED BY <1>1, <1>2 DEF ClockInv

\* Every step keeps the clocks in step with what is recorded.
LEMMA NextInStep == TypeInv /\ ClockInv /\ [Next]_vars => ClockInv'
<1> SUFFICES ASSUME TypeInv, ClockInv, [Next]_vars PROVE ClockInv'
  OBVIOUS
<1>1. ASSUME UNCHANGED <<jobs, tasks, activation>> PROVE ClockInv'
  BY <1>1 DEF ClockInv, Stored, TakenStill
<1>2. ASSUME NEW h \in Hosts, Materialize(h) PROVE ClockInv'
  BY <1>1, <1>2, CommitPassInStep DEF Materialize, ClaimDueJobs, AbortPass, db
<1>3. ASSUME NEW h \in Hosts, Collect(h) PROVE ClockInv'
  <2>1. /\ activation' = [activation EXCEPT ![h] =
             [phase |-> "collected", desired |-> [r \in target |-> FirstRunAt(r, now)]]]
        /\ UNCHANGED <<jobs, tasks>>
    BY <1>3 DEF Collect, db
  <2>2. /\ activation'[h].phase = "collected"
        /\ \A g \in Hosts \ {h} : activation'[g] = activation[g]
    BY <2>1 DEF TypeInv
  <2> QED BY <2>1, <2>2, ClockFrame
<1>4. ASSUME NEW h \in Hosts, FindExisting(h) PROVE ClockInv'
  <2>1. /\ activation'[h].phase = "read"
        /\ \A g \in Hosts \ {h} : activation'[g] = activation[g]
    BY <1>4, AfterRead
  <2>2. UNCHANGED <<jobs, tasks>>
    BY <1>4 DEF FindExisting, db
  <2> QED BY <2>1, <2>2, ClockFrame
<1>5. ASSUME NEW h \in Hosts, FailActivation(h) \/ AbortActivation(h) PROVE ClockInv'
  <2>1. Finish(h) /\ UNCHANGED <<jobs, tasks>>
    BY <1>5 DEF FailActivation, AbortActivation, db
  <2>2. /\ activation'[h].phase = "idle"
        /\ \A g \in Hosts \ {h} : activation'[g] = activation[g]
    BY <2>1, AfterFinish DEF Idle
  <2> QED BY <2>1, <2>2, ClockFrame
<1>6. ASSUME NEW h \in Hosts, Activate(h) PROVE ClockInv'
  BY <1>3, <1>4, <1>5, <1>6, WriteJobsInStep, CommitActivationInStep DEF Activate
<1>7. ASSUME Unpublish \/ Teardown \/ Deregister PROVE ClockInv'
  BY <1>7, DeletionInStep DEF Unpublish, Teardown, Deregister
<1>8. ASSUME UNCHANGED vars PROVE ClockInv'
  BY <1>1, <1>8 DEF vars
<1>9. ASSUME NEW v \in Versions, Publish(v) PROVE ClockInv'
  BY <1>1, <1>9 DEF Publish, db
<1>10. ASSUME NEW o \in tasks, Run(o) PROVE ClockInv'
  BY <1>1, <1>10 DEF Run
<1>11. ASSUME Heal \/ Tick PROVE ClockInv'
  BY <1>1, <1>11 DEF Heal, Tick, db
<1> QED BY <1>2, <1>6, <1>7, <1>8, <1>9, <1>10, <1>11 DEF Next

\* That the clocks are in step is an invariant.
LEMMA SpecInStep == Spec => []ClockInv
<1>1. Init => ClockInv
  BY DEF Init, ClockInv, Stored, Idle
<1> QED BY <1>1, NextInStep, SpecType, PTL DEF Spec

\* However passes, seeds, rollbacks and re-registrations interleave, the clock
\* of a job that could always be planned leaves no fire behind unrecorded, and
\* nothing is recorded that is not a fire of its schedule (planOccurrences,
\* seedInitialOccurrences).
THEOREM NothingSkipped == Spec => []ClockMatchesRecord
<1>1. ASSUME TypeInv, ClockInv PROVE ClockMatchesRecord
  <2> SUFFICES ASSUME NEW r \in Stored \ Broken, jobs[r].next # None
               PROVE  /\ PassedBy(r) \subseteq RecordedOf(r)
                      /\ RecordedOf(r) \subseteq OccurrencesFrom(r, jobs[r].first)
    BY DEF ClockMatchesRecord
  <2>1. InStep(tasks, r, jobs[r]) /\ OnSchedule(tasks, r, jobs[r]) /\ r \in Rules /\ jobs[r] \in Job
    BY <1>1, RowsLive DEF ClockInv
  <2>2. RecordedOf(r) \subseteq OccurrencesFrom(r, jobs[r].first)
    BY <2>1 DEF OnSchedule, RecordedOf
  <2>3. jobs[r].first \in Nat /\ \A x \in OccurrencesFrom(r, jobs[r].first) : x >= jobs[r].first
    <3>1. jobs[r].first # None
      BY <2>1 DEF InStep, OccurrencesFrom
    <3>2. jobs[r].first \in Nat
      BY <2>1, <3>1 DEF Job
    <3> QED BY <2>1, <3>2, FiresOnGrid
  <2>4. ASSUME NEW x \in PassedBy(r) PROVE x \in RecordedOf(r)
    <3>1. x \in OccurrencesFrom(r, jobs[r].first) /\ x < jobs[r].next
      BY DEF PassedBy
    <3>2. PICK o \in tasks : o.rule = r /\ o.job = jobs[r].id /\ o.at = x
      BY <2>1, <3>1 DEF InStep, RecordedIn
    <3> QED BY <2>3, <3>1, <3>2 DEF RecordedOf
  <2> QED BY <2>2, <2>4
<1> QED BY <1>1, SpecType, SpecInStep, PTL

-----------------------------------------------------------------------------
(* A fire runs under one job.  Without an unpublish: the rows that an      *)
(* activation wants are then never deleted under it.                       *)

\* What ran are occurrences at an instant.
LEMMA RanTyped ==
    ASSUME TypeInv, NEW o \in ran
    PROVE  o.at \in Nat /\ o.rule \in Rules
BY DEF TypeInv, TasksOwned, Occurrence

\* Time only brings more room.
LEMMA RanInTimeKept ==
    ASSUME TypeInv, RanInTime, ran' = ran, now' \in Nat, now <= now'
    PROVE  RanInTime'
BY RanTyped, NowIsNumber DEF RanInTime

\* While no row, occurrence or transaction changes, what ran before stays before.
LEMMA FiresFrame ==
    ASSUME TypeInv, FiresInv, UNCHANGED <<jobs, tasks, ran, pass, activation>>,
           now' \in Nat, now <= now'
    PROVE  FiresInv'
<1>1. Stored' = Stored
  BY DEF Stored
<1>2. RanInTime'
  BY RanInTimeKept DEF FiresInv
<1>3. FiresOncePerRule' /\ RowsFollow'
  BY <1>1 DEF FiresInv, FiresOncePerRule, RowsFollow, RanBefore
<1>4. PassesFollow'
  BY <1>1 DEF FiresInv, PassesFollow, RanBefore, Claimed
<1>5. SameVersion' /\ FirstRunsFollow' /\ WrittenFollow'
  BY <1>1 DEF FiresInv, SameVersion, FirstRunsFollow, WrittenFollow, RanBefore
<1> QED BY <1>2, <1>3, <1>4, <1>5 DEF FiresInv

\* A row is locked with a clock that has come, so that a deferral to a later
\* instant is later than all that earlier rows ran.
LEMMA ClaimDueJobsFires ==
    ASSUME TypeInv, FiresInv, NEW h \in Hosts, ClaimDueJobs(h)
    PROVE  FiresInv'
<1> DEFINE p == [phase |-> "claimed", now |-> now, claimed |-> [r \in Due |-> jobs[r]]]
<1>1. /\ pass' = [pass EXCEPT ![h] = p]
      /\ UNCHANGED <<now, jobs, tasks, ran, activation>>
  BY DEF ClaimDueJobs, db
<1>2. pass'[h] = p /\ \A g \in Hosts \ {h} : pass'[g] = pass[g]
  BY <1>1 DEF TypeInv
<1>3. p.now = now
  OBVIOUS
<1> HIDE DEF p
<1>4. Stored' = Stored
  BY <1>1 DEF Stored
<1>5. \A o \in ran : o.at < now + 1
  BY RanTyped, NowIsNumber DEF FiresInv, RanInTime
<1>6. PassesFollow'
  <2> SUFFICES ASSUME NEW g \in Hosts, NEW r \in Claimed(g)'
               PROVE  RanBefore(r, jobs[r].id, pass'[g].now + 1)
    BY <1>1 DEF PassesFollow, RanBefore
  <2>1. CASE g = h
    BY <1>2, <1>3, <1>5, <2>1 DEF RanBefore
  <2>2. CASE g # h
    <3>1. pass'[g] = pass[g] /\ r \in Claimed(g)
      BY <1>2, <2>2 DEF Claimed
    <3> QED BY <3>1 DEF FiresInv, PassesFollow
  <2> QED BY <2>1, <2>2
<1>7. RanInTime' /\ FiresOncePerRule' /\ RowsFollow'
  BY <1>1, <1>4 DEF FiresInv, RanInTime, FiresOncePerRule, RowsFollow, RanBefore
<1>8. SameVersion' /\ FirstRunsFollow' /\ WrittenFollow'
  BY <1>1, <1>4 DEF FiresInv, SameVersion, FirstRunsFollow, WrittenFollow, RanBefore
<1> QED BY <1>6, <1>7, <1>8 DEF FiresInv

\* A bound that grows is still a bound.
LEMMA RanBeforeLater ==
    ASSUME TypeInv, NEW r, NEW id, NEW x \in Nat, NEW y \in Nat, x <= y,
           RanBefore(r, id, x)
    PROVE  RanBefore(r, id, y)
BY RanTyped DEF RanBefore

\* A row that is planned or deferred stays past what earlier rows ran, and so
\* do the fires that are recorded of it.
LEMMA AdvancedFollows ==
    ASSUME TypeInv, NEW r \in Rules, Schedule[r].kind # "degenerate",
           NEW job \in Job, job.next # None, NEW t \in 0 .. MaxTime, NEW id,
           RanBefore(r, id, job.next), RanBefore(r, id, t + 1)
    PROVE  /\ RanBefore(r, id, Advanced(r, job, t).next)
           /\ \A x \in Recorded(r, job, t) : RanBefore(r, id, x)
<1> DEFINE next == Advanced(r, job, t).next
<1>1. /\ next \in Nat
      /\ next >= job.next \/ next > t
  BY AdvancedIs
<1>2. job.next \in Nat /\ t \in Nat /\ t + 1 \in Nat
  BY TimesAssumption DEF Job
<1> HIDE DEF next
<1>3. RanBefore(r, id, next)
  <2>1. CASE next >= job.next
    BY <1>1, <1>2, <2>1, RanBeforeLater
  <2>2. CASE next > t
    <3>1. t + 1 <= next
      BY <1>1, <1>2, <2>2
    <3> QED BY <1>1, <1>2, <3>1, RanBeforeLater
  <2> QED BY <1>1, <2>1, <2>2
<1>4. ASSUME NEW x \in Recorded(r, job, t) PROVE RanBefore(r, id, x)
  <2>1. x \in Nat /\ x >= job.next
    BY RecordedAreFires
  <2> QED BY <1>2, <2>1, RanBeforeLater
<1> QED BY <1>3, <1>4 DEF next

\* A pass moves clocks forward only, and records nothing before them.
LEMMA CommitPassFires ==
    ASSUME TypeInv, FiresInv, NEW h \in Hosts, CommitPass(h)
    PROVE  FiresInv'
<1> DEFINE p == pass[h]
<1>1. /\ p.phase = "claimed"
      /\ tasks' = tasks \union NewOccurrences(p.claimed, p.now)
      /\ pass' = [pass EXCEPT ![h] = Idle]
      /\ UNCHANGED <<now, ran, activation>>
  BY DEF CommitPass
<1>2. /\ Stored' = Stored
      /\ \A r \in Rules \ Claimed(h) : jobs'[r] = jobs[r]
      /\ \A r \in Claimed(h) : jobs'[r] = Advanced(r, jobs[r], p.now)
      /\ \A r \in Stored : jobs'[r].id = jobs[r].id
  BY RowsAfterPass
<1>3. /\ Claimed(h) = DOMAIN p.claimed
      /\ p.now \in 0 .. now
      /\ DOMAIN p.claimed \subseteq Stored
      /\ \A r \in DOMAIN p.claimed : p.claimed[r] = jobs[r] /\ jobs[r].next # None
  BY <1>1 DEF TypeInv, PassShaped, Claimed
<1>4. p.now \in 0 .. MaxTime /\ Stored \subseteq Rules
  BY <1>3, ClockWithinBound DEF Stored
<1>5. pass'[h] = Idle /\ \A g \in Hosts \ {h} : pass'[g] = pass[g]
  BY <1>1 DEF TypeInv
<1>6. ASSUME NEW r \in Claimed(h)
      PROVE  /\ RanBefore(r, jobs[r].id, Advanced(r, jobs[r], p.now).next)
             /\ \A x \in Recorded(r, jobs[r], p.now) : RanBefore(r, jobs[r].id, x)
  <2>1. /\ r \in Rules /\ jobs[r] \in Job /\ jobs[r].next # None
        /\ Schedule[r].kind # "degenerate"
    BY <1>3, RowsLive
  <2>2. RanBefore(r, jobs[r].id, jobs[r].next) /\ RanBefore(r, jobs[r].id, p.now + 1)
    BY <1>3, <2>1 DEF FiresInv, RowsFollow, PassesFollow
  <2> HIDE DEF p
  <2> QED BY <1>4, <2>1, <2>2, AdvancedFollows
<1> HIDE DEF p
<1>7. RowsFollow'
  <2>1. ASSUME NEW r \in Stored, jobs'[r].next # None
        PROVE  RanBefore(r, jobs'[r].id, jobs'[r].next)
    <3>1. CASE r \in Claimed(h)
      BY <1>2, <1>6, <3>1
    <3>2. CASE r \notin Claimed(h)
      BY <1>2, <1>4, <2>1, <3>2 DEF FiresInv, RowsFollow
    <3> QED BY <3>1, <3>2
  <2>2. ASSUME NEW o \in tasks' PROVE RanBefore(o.rule, o.job, o.at)
    <3>1. CASE o \in tasks
      BY <3>1 DEF FiresInv, RowsFollow
    <3>2. CASE o \in NewOccurrences(p.claimed, p.now)
      <4>1. /\ o.rule \in DOMAIN p.claimed
            /\ o.job = p.claimed[o.rule].id
            /\ o.at \in Recorded(o.rule, p.claimed[o.rule], p.now)
        BY <1>3, <1>4, <3>2, NewOccurrencesAre
      <4> QED BY <1>3, <1>6, <4>1
    <3> QED BY <1>1, <3>1, <3>2
  <2> QED BY <1>1, <1>2, <2>1, <2>2 DEF RowsFollow, RanBefore
<1>8. PassesFollow'
  <2> SUFFICES ASSUME NEW g \in Hosts, NEW r \in Claimed(g)'
               PROVE  RanBefore(r, jobs'[r].id, pass'[g].now + 1)
    BY <1>1 DEF PassesFollow, RanBefore
  <2>1. g # h /\ pass'[g] = pass[g] /\ r \in Claimed(g)
    BY <1>5 DEF Claimed, Idle
  <2>2. r \in Stored
    BY <2>1 DEF TypeInv, PassShaped, Claimed
  <2> QED BY <1>2, <2>1, <2>2 DEF FiresInv, PassesFollow
<1>9. WrittenFollow'
  <2> SUFFICES ASSUME NEW g \in Hosts, activation[g].phase = "written",
                      NEW r \in DOMAIN activation[g].taken
               PROVE  /\ r \in Stored /\ jobs'[r].id = activation[g].taken[r].id
                      /\ RanBefore(r, jobs'[r].id, activation[g].taken[r].next)
                      /\ RanBefore(r, jobs'[r].id, activation[g].now + 1)
    BY <1>1, <1>2 DEF FiresInv, WrittenFollow, RanBefore
  <2>1. /\ r \in Stored /\ jobs[r].id = activation[g].taken[r].id
        /\ RanBefore(r, jobs[r].id, activation[g].taken[r].next)
        /\ RanBefore(r, jobs[r].id, activation[g].now + 1)
    BY DEF FiresInv, WrittenFollow
  <2> QED BY <1>2, <2>1
<1>10. RanInTime' /\ FiresOncePerRule' /\ SameVersion' /\ FirstRunsFollow'
  BY <1>1, <1>2 DEF FiresInv, RanInTime, FiresOncePerRule, SameVersion, FirstRunsFollow
<1> QED BY <1>7, <1>8, <1>9, <1>10 DEF FiresInv

\* A pass that rolls back moves no clock.
LEMMA AbortPassFires ==
    ASSUME TypeInv, FiresInv, NEW h \in Hosts, AbortPass(h)
    PROVE  FiresInv'
<1>1. /\ pass' = [pass EXCEPT ![h] = Idle]
      /\ UNCHANGED <<now, jobs, tasks, ran, activation>>
  BY DEF AbortPass, db
<1>2. pass'[h] = Idle /\ \A g \in Hosts \ {h} : pass'[g] = pass[g]
  BY <1>1 DEF TypeInv
<1>3. Stored' = Stored
  BY <1>1 DEF Stored
<1>4. PassesFollow'
  <2> SUFFICES ASSUME NEW g \in Hosts, NEW r \in Claimed(g)'
               PROVE  RanBefore(r, jobs[r].id, pass'[g].now + 1)
    BY <1>1 DEF PassesFollow, RanBefore
  <2>1. pass'[g] = pass[g] /\ r \in Claimed(g)
    BY <1>2 DEF Claimed, Idle
  <2> QED BY <2>1 DEF FiresInv, PassesFollow
<1>5. RanInTime' /\ FiresOncePerRule' /\ RowsFollow'
  BY <1>1, <1>3 DEF FiresInv, RanInTime, FiresOncePerRule, RowsFollow, RanBefore
<1>6. SameVersion' /\ FirstRunsFollow' /\ WrittenFollow'
  BY <1>1, <1>3 DEF FiresInv, SameVersion, FirstRunsFollow, WrittenFollow, RanBefore
<1> QED BY <1>4, <1>5, <1>6 DEF FiresInv

\* An activation that goes on or ends changes nothing about rows and passes.
LEMMA ActivationStepFires ==
    ASSUME TypeInv, FiresInv, UNCHANGED <<now, jobs, tasks, ran, pass>>
    PROVE  RanInTime' /\ FiresOncePerRule' /\ RowsFollow' /\ PassesFollow' /\ Stored' = Stored
<1>1. Stored' = Stored
  BY DEF Stored
<1>2. RanInTime' /\ FiresOncePerRule' /\ RowsFollow'
  BY <1>1 DEF FiresInv, RanInTime, FiresOncePerRule, RowsFollow, RanBefore
<1>3. PassesFollow'
  BY DEF FiresInv, PassesFollow, RanBefore, Claimed
<1> QED BY <1>1, <1>2, <1>3

\* The first run of a rule is later than now, and all that ran is not.
LEMMA CollectFires ==
    ASSUME TypeInv, ConvergeInv, FiresInv, NEW h \in Hosts, Collect(h)
    PROVE  FiresInv'
<1> DEFINE a == [phase |-> "collected", desired |-> [r \in target |-> FirstRunAt(r, now)]]
<1>1. /\ \A g \in Hosts : activation[g].phase # "idle" => g \in serving
      /\ activation' = [activation EXCEPT ![h] = a]
      /\ activation[h].phase = "idle"
      /\ UNCHANGED <<now, jobs, tasks, ran, pass>>
  BY DEF Collect, db
<1>2. /\ activation'[h] = a /\ \A g \in Hosts \ {h} : activation'[g] = activation[g]
  BY <1>1 DEF TypeInv
<1>3. /\ a.phase = "collected" /\ DOMAIN a.desired = target
      /\ \A r \in target : a.desired[r] = FirstRunAt(r, now)
  OBVIOUS
<1> HIDE DEF a
<1>4. RanInTime' /\ FiresOncePerRule' /\ RowsFollow' /\ PassesFollow' /\ Stored' = Stored
  BY <1>1, ActivationStepFires
<1>5. \A g \in Hosts \ {h} : activation'[g].phase # "idle" =>
          DOMAIN activation'[g].desired = target
  BY <1>1, <1>2 DEF ConvergeInv, OnItsWay
<1>6. SameVersion'
  <2>1. \A g \in Hosts : activation'[g].phase # "idle" =>
            DOMAIN activation'[g].desired = target
    BY <1>2, <1>3, <1>5
  <2> QED BY <2>1 DEF SameVersion
<1>7. FirstRunsFollow'
  <2> SUFFICES ASSUME NEW g \in Hosts, activation'[g].phase # "idle",
                      NEW r \in DOMAIN activation'[g].desired \ Stored,
                      activation'[g].desired[r] # None,
                      NEW o \in ran, o.rule = r
               PROVE  o.at < activation'[g].desired[r]
    BY <1>1, <1>4 DEF FirstRunsFollow
  <2>1. CASE g = h
    <3>1. r \in target /\ activation'[g].desired[r] = FirstRunAt(r, now)
      BY <1>2, <1>3, <2>1
    <3>2. target \subseteq Rules
      BY VersionsAssumption DEF TypeInv, WorldShaped
    <3>3. FirstRunAt(r, now) \in Nat /\ FirstRunAt(r, now) > now
      BY <3>1, <3>2, NowIsNumber, FirstRunFollows
    <3>4. o.at \in Nat /\ o.at <= now /\ now \in Nat
      BY RanTyped, NowIsNumber DEF FiresInv, RanInTime
    <3> QED BY <3>1, <3>3, <3>4
  <2>2. CASE g # h
    <3>1. activation'[g] = activation[g]
      BY <1>2, <2>2
    <3> QED BY <3>1 DEF FiresInv, FirstRunsFollow
  <2> QED BY <2>1, <2>2
<1>8. WrittenFollow'
  <2>1. \A g \in Hosts : activation'[g].phase = "written" => activation'[g] = activation[g]
    BY <1>2, <1>3
  <2> QED BY <1>1, <1>4, <2>1 DEF FiresInv, WrittenFollow, RanBefore
<1> QED BY <1>4, <1>6, <1>7, <1>8 DEF FiresInv

\* What an activation wants does not change while it goes on.
LEMMA DesiredKept ==
    ASSUME TypeInv, FiresInv, UNCHANGED <<jobs, ran>>,
           \A g \in Hosts : activation'[g].phase # "idle" =>
               /\ activation[g].phase # "idle"
               /\ activation'[g].desired = activation[g].desired
    PROVE  SameVersion' /\ FirstRunsFollow'
<1>1. Stored' = Stored
  BY DEF Stored
<1>2. SameVersion'
  BY DEF FiresInv, SameVersion
<1>3. FirstRunsFollow'
  BY <1>1 DEF FiresInv, FirstRunsFollow
<1> QED BY <1>2, <1>3

\* Reading the rows changes no instant.
LEMMA FindExistingFires ==
    ASSUME TypeInv, FiresInv, NEW h \in Hosts, FindExisting(h)
    PROVE  FiresInv'
<1>1. UNCHANGED <<now, jobs, tasks, ran, pass>>
  BY DEF FindExisting, db
<1>2. /\ activation[h].phase = "collected"
      /\ activation'[h].phase = "read" /\ activation'[h].desired = activation[h].desired
      /\ \A g \in Hosts \ {h} : activation'[g] = activation[g]
  BY AfterRead
<1>3. RanInTime' /\ FiresOncePerRule' /\ RowsFollow' /\ PassesFollow' /\ Stored' = Stored
  BY <1>1, ActivationStepFires
<1>4. SameVersion' /\ FirstRunsFollow'
  BY <1>1, <1>2, DesiredKept
<1>5. WrittenFollow'
  <2>1. \A g \in Hosts : activation'[g].phase = "written" => activation'[g] = activation[g]
    BY <1>2
  <2> QED BY <1>1, <1>3, <2>1 DEF FiresInv, WrittenFollow, RanBefore
<1> QED BY <1>3, <1>4, <1>5 DEF FiresInv

\* The rows that an activation takes are those of the newest activation, whose
\* clocks are past what earlier rows ran.
LEMMA WriteJobsFires ==
    ASSUME TypeInv, FiresInv, NEW h \in Hosts, WriteJobs(h)
    PROVE  FiresInv'
<1> DEFINE a == activation[h]
<1> DEFINE b == activation'[h]
<1>1. UNCHANGED <<now, jobs, tasks, ran, pass>>
  BY DEF WriteJobs, db
<1>2. /\ a.phase = "read" /\ b.phase = "written" /\ b.desired = a.desired
      /\ b.now = now
      /\ DOMAIN b.taken = {r \in a.inserts \intersect Stored : jobs[r].next # None}
      /\ \A r \in DOMAIN b.taken : b.taken[r] = jobs[r]
      /\ \A g \in Hosts \ {h} : activation'[g] = activation[g]
  BY AfterWrite
<1>3. RanInTime' /\ FiresOncePerRule' /\ RowsFollow' /\ PassesFollow' /\ Stored' = Stored
  BY <1>1, ActivationStepFires
<1>4. SameVersion' /\ FirstRunsFollow'
  BY <1>1, <1>2, DesiredKept
<1> HIDE DEF a, b
<1>5. \A o \in ran : o.at <= now /\ o.at < now + 1
  BY RanTyped, NowIsNumber DEF FiresInv, RanInTime
<1>6. /\ \A r \in DOMAIN b.own : \A o \in ran : o.rule = r => o.at <= b.now
      /\ \A r \in DOMAIN b.taken :
           /\ r \in Stored /\ jobs[r].id = b.taken[r].id
           /\ RanBefore(r, jobs[r].id, b.taken[r].next)
           /\ RanBefore(r, jobs[r].id, b.now + 1)
  <2>1. \A r \in DOMAIN b.own : \A o \in ran : o.rule = r => o.at <= b.now
    BY <1>2, <1>5
  <2>2. ASSUME NEW r \in DOMAIN b.taken
        PROVE  /\ r \in Stored /\ jobs[r].id = b.taken[r].id
               /\ RanBefore(r, jobs[r].id, b.taken[r].next)
               /\ RanBefore(r, jobs[r].id, b.now + 1)
    <3>1. r \in Stored /\ b.taken[r] = jobs[r] /\ jobs[r].next # None
      BY <1>2
    <3>2. RanBefore(r, jobs[r].id, jobs[r].next)
      BY <3>1 DEF FiresInv, RowsFollow
    <3>3. RanBefore(r, jobs[r].id, b.now + 1)
      BY <1>2, <1>5 DEF RanBefore
    <3> QED BY <3>1, <3>2, <3>3
  <2> QED BY <2>1, <2>2
<1>7. WrittenFollow'
  <2>1. \A g \in Hosts \ {h} : activation'[g] = activation[g]
    BY <1>2
  <2> QED BY <1>1, <1>3, <1>6, <2>1 DEF FiresInv, WrittenFollow, RanBefore, b
<1> QED BY <1>3, <1>4, <1>7 DEF FiresInv

\* An activation that ends without a commit.
LEMMA FinishFires ==
    ASSUME TypeInv, FiresInv, NEW h \in Hosts, Finish(h),
           UNCHANGED <<now, jobs, tasks, ran, pass>>
    PROVE  FiresInv'
<1>1. activation'[h] = Idle /\ \A g \in Hosts \ {h} : activation'[g] = activation[g]
  BY AfterFinish
<1>2. RanInTime' /\ FiresOncePerRule' /\ RowsFollow' /\ PassesFollow' /\ Stored' = Stored
  BY ActivationStepFires
<1>3. \A g \in Hosts : activation'[g].phase # "idle" => activation'[g] = activation[g]
  BY <1>1 DEF Idle
<1>4. SameVersion' /\ FirstRunsFollow'
  BY <1>3, DesiredKept
<1>5. WrittenFollow'
  BY <1>2, <1>3 DEF FiresInv, WrittenFollow, RanBefore
<1> QED BY <1>2, <1>4, <1>5 DEF FiresInv

\* The rows that an activation inserts, and the seeds of those it takes, are
\* past what earlier rows ran.
LEMMA CommitActivationFires ==
    ASSUME TypeInv, FiresInv, NEW h \in Hosts, CommitActivation(h)
    PROVE  FiresInv'
<1> DEFINE a == activation[h]
<1>1. /\ a.phase = "written" /\ Finish(h)
      /\ UNCHANGED <<now, ran, pass>>
  BY DEF CommitActivation
<1>2. Written(a)
  BY <1>1, WrittenIs
<1>3. /\ Stored' = (Stored \ DOMAIN a.removed) \union DOMAIN a.own
      /\ \A r \in DOMAIN a.own :
           /\ jobs'[r].id = ids[r] + 1
           /\ LiveClock(r, jobs'[r].next)
           /\ a.desired[r] # None => jobs'[r] = Advanced(r, a.own[r], a.now)
      /\ \A r \in TakenStill(a) :
           /\ jobs'[r] = Advanced(r, a.taken[r], a.now)
           /\ jobs'[r].id = jobs[r].id
      /\ \A r \in Stored \ (DOMAIN a.removed \union TakenStill(a)) : jobs'[r] = jobs[r]
  BY RowsAfterActivation
<1>4. /\ tasks' = {o \in tasks : o.rule \notin DOMAIN a.removed} \union Seeded(a)
      /\ \A o \in Seeded(a) :
           \/ /\ o.rule \in DOMAIN a.own
              /\ a.own[o.rule].next # None
              /\ o.at \in Recorded(o.rule, a.own[o.rule], a.now)
           \/ /\ o.rule \in TakenStill(a)
              /\ o.job = a.taken[o.rule].id
              /\ o.at \in Recorded(o.rule, a.taken[o.rule], a.now)
  BY TasksAfterActivation
<1>5. /\ activation'[h] = Idle
      /\ \A g \in Hosts \ {h} : activation'[g] = activation[g]
  BY <1>1, AfterFinish
<1>6. /\ \A r \in DOMAIN a.own : \A o \in ran : o.rule = r => o.at <= a.now
      /\ \A r \in DOMAIN a.taken :
           /\ RanBefore(r, jobs[r].id, a.taken[r].next)
           /\ RanBefore(r, jobs[r].id, a.now + 1)
  BY <1>1 DEF FiresInv, WrittenFollow
<1>7. \A r \in DOMAIN a.desired \ Stored : a.desired[r] # None =>
          \A o \in ran : o.rule = r => o.at < a.desired[r]
  BY <1>1 DEF FiresInv, FirstRunsFollow
<1>8. \A r \in Removed(h) : r \in DOMAIN a.removed
  BY DEF Removed
<1>9. Removed(h) = DOMAIN a.removed
  BY <1>1 DEF Removed
<1>10. \A g \in Hosts : activation[g].phase # "idle" => DOMAIN activation[g].desired = DOMAIN a.desired
  BY <1>1 DEF FiresInv, SameVersion
<1> HIDE DEF a
<1>11. Stored \subseteq Rules
  BY DEF Stored
<1>12. ASSUME NEW r \in DOMAIN a.own, a.own[r].next # None, NEW id
       PROVE  /\ jobs'[r] = Advanced(r, a.own[r], a.now)
              /\ RanBefore(r, id, jobs'[r].next)
              /\ \A x \in Recorded(r, a.own[r], a.now) : RanBefore(r, id, x)
  <2>1. /\ r \in Rules \ Stored /\ r \in DOMAIN a.desired
        /\ a.own[r] \in Job /\ a.own[r].next = a.desired[r]
        /\ Schedule[r].kind # "degenerate"
        /\ a.now \in 0 .. MaxTime
    BY <1>2, <1>12 DEF Written, LiveClock
  <2>2. RanBefore(r, id, a.own[r].next)
    BY <1>7, <1>12, <2>1 DEF RanBefore
  <2>3. RanBefore(r, id, a.now + 1)
    <3>1. \A o \in ran : o.rule = r => o.at < a.now + 1
      BY <1>6, <2>1, RanTyped
    <3> QED BY <3>1 DEF RanBefore
  <2>4. jobs'[r] = Advanced(r, a.own[r], a.now)
    BY <1>3, <1>12, <2>1
  <2> QED BY <1>12, <2>1, <2>2, <2>3, <2>4, AdvancedFollows
<1>13. ASSUME NEW r \in TakenStill(a)
       PROVE  /\ RanBefore(r, jobs[r].id, jobs'[r].next)
              /\ \A x \in Recorded(r, a.taken[r], a.now) : RanBefore(r, jobs[r].id, x)
              /\ jobs[r].id = a.taken[r].id
  <2>1. /\ r \in Stored /\ r \in Rules /\ r \in DOMAIN a.taken
        /\ a.taken[r] \in Job /\ a.taken[r].next # None
        /\ Schedule[r].kind # "degenerate"
        /\ a.now \in 0 .. MaxTime
        /\ jobs[r].id = a.taken[r].id
    BY <1>2, <1>11 DEF Written
  <2>2. RanBefore(r, jobs[r].id, a.taken[r].next) /\ RanBefore(r, jobs[r].id, a.now + 1)
    BY <1>6, <2>1
  <2>3. jobs'[r] = Advanced(r, a.taken[r], a.now)
    BY <1>3
  <2> QED BY <2>1, <2>2, <2>3, AdvancedFollows
<1>14. \A r \in Stored \ DOMAIN a.removed :
          r \in Stored' /\ r \notin DOMAIN a.own /\ jobs'[r].id = jobs[r].id
  BY <1>2, <1>3 DEF Written
<1>15. RowsFollow'
  <2>1. ASSUME NEW r \in Stored', jobs'[r].next # None
        PROVE  RanBefore(r, jobs'[r].id, jobs'[r].next)
    <3>1. CASE r \in DOMAIN a.own
      <4>1. a.own[r].next # None
        BY <1>2, <1>3, <2>1, <3>1 DEF Written, LiveClock
      <4> QED BY <1>12, <3>1, <4>1
    <3>2. CASE r \in TakenStill(a)
      BY <1>3, <1>13, <3>2
    <3>3. CASE r \notin DOMAIN a.own /\ r \notin TakenStill(a)
      <4>1. r \in Stored /\ jobs'[r] = jobs[r]
        BY <1>3, <3>3
      <4> QED BY <2>1, <4>1 DEF FiresInv, RowsFollow
    <3> QED BY <3>1, <3>2, <3>3
  <2>2. ASSUME NEW o \in tasks' PROVE RanBefore(o.rule, o.job, o.at)
    <3>1. CASE o \in tasks
      BY <3>1 DEF FiresInv, RowsFollow
    <3>2. CASE o \in Seeded(a)
      BY <1>4, <1>12, <1>13, <3>2
    <3> QED BY <1>4, <3>1, <3>2
  <2> QED BY <1>1, <2>1, <2>2 DEF RowsFollow, RanBefore
<1>16. PassesFollow'
  <2> SUFFICES ASSUME NEW g \in Hosts, NEW r \in Claimed(g)
               PROVE  RanBefore(r, jobs'[r].id, pass[g].now + 1)
    BY <1>1 DEF PassesFollow, RanBefore, Claimed
  <2>1. r \in Stored /\ r \notin DOMAIN a.removed
    BY <1>9 DEF TypeInv, PassShaped, Claimed, Exclusive
  <2> QED BY <1>14, <2>1 DEF FiresInv, PassesFollow
<1>17. SameVersion'
  BY <1>5 DEF FiresInv, SameVersion, Idle
<1>18. ASSUME NEW g \in Hosts, activation'[g].phase # "idle"
       PROVE  /\ g # h /\ activation'[g] = activation[g]
              /\ DOMAIN activation[g].desired \intersect DOMAIN a.removed = {}
  <2>1. g # h /\ activation'[g] = activation[g]
    BY <1>5, <1>18 DEF Idle
  <2> QED BY <1>2, <1>10, <1>18, <2>1 DEF Written
<1>19. FirstRunsFollow'
  <2> SUFFICES ASSUME NEW g \in Hosts, activation'[g].phase # "idle",
                      NEW r \in DOMAIN activation'[g].desired \ Stored',
                      activation'[g].desired[r] # None
               PROVE  \A o \in ran : o.rule = r => o.at < activation'[g].desired[r]
    BY <1>1 DEF FirstRunsFollow
  <2>1. activation'[g] = activation[g] /\ r \notin Stored
    BY <1>3, <1>18
  <2> QED BY <2>1 DEF FiresInv, FirstRunsFollow
<1>20. WrittenFollow'
  <2> SUFFICES ASSUME NEW g \in Hosts, activation'[g].phase = "written"
               PROVE  /\ \A r \in DOMAIN activation'[g].own :
                           \A o \in ran : o.rule = r => o.at <= activation'[g].now
                      /\ \A r \in DOMAIN activation'[g].taken :
                           /\ r \in Stored' /\ jobs'[r].id = activation'[g].taken[r].id
                           /\ RanBefore(r, jobs'[r].id, activation'[g].taken[r].next)
                           /\ RanBefore(r, jobs'[r].id, activation'[g].now + 1)
    BY <1>1 DEF WrittenFollow, RanBefore
  <2> DEFINE b == activation[g]
  <2>1. activation'[g] = b /\ b.phase = "written" /\ DOMAIN b.desired \intersect DOMAIN a.removed = {}
    BY <1>18
  <2>2. Written(b)
    BY <2>1, WrittenIs
  <2>3. ASSUME NEW r \in DOMAIN b.taken
        PROVE  /\ r \in Stored' /\ jobs'[r].id = b.taken[r].id
               /\ RanBefore(r, jobs'[r].id, b.taken[r].next)
               /\ RanBefore(r, jobs'[r].id, b.now + 1)
    <3>1. r \notin DOMAIN a.removed
      BY <2>1, <2>2 DEF Written
    <3>2. /\ r \in Stored /\ jobs[r].id = b.taken[r].id
          /\ RanBefore(r, jobs[r].id, b.taken[r].next)
          /\ RanBefore(r, jobs[r].id, b.now + 1)
      BY <2>1 DEF FiresInv, WrittenFollow
    <3> QED BY <1>14, <3>1, <3>2
  <2> QED BY <2>1, <2>3 DEF FiresInv, WrittenFollow
<1>21. RanInTime' /\ FiresOncePerRule'
  BY <1>1 DEF FiresInv, RanInTime, FiresOncePerRule
<1> QED BY <1>15, <1>16, <1>17, <1>19, <1>20, <1>21 DEF FiresInv

\* A deletion while no activation is in progress leaves nothing to compare.
LEMMA DeletionFires ==
    ASSUME TypeInv, FiresInv, DeleteJobs, NoActivation, UNCHANGED <<now, pass, activation>>
    PROVE  FiresInv'
<1>1. /\ Stored' = {} /\ tasks' = {} /\ ran' = ran
      /\ \A h \in Hosts : Claimed(h) = {}
  BY RowsAfterDeletion
<1>2. RanInTime' /\ FiresOncePerRule'
  BY <1>1 DEF FiresInv, RanInTime, FiresOncePerRule
<1>3. RowsFollow'
  BY <1>1 DEF RowsFollow
<1>4. PassesFollow'
  BY <1>1 DEF PassesFollow, Claimed
<1>5. SameVersion' /\ FirstRunsFollow' /\ WrittenFollow'
  BY DEF NoActivation, SameVersion, FirstRunsFollow, WrittenFollow
<1> QED BY <1>2, <1>3, <1>4, <1>5 DEF FiresInv

\* An occurrence that runs is of the row that is stored, so it is later than
\* all that earlier rows ran.
LEMMA RunFires ==
    ASSUME TypeInv, FiresInv, NEW o \in tasks, Run(o)
    PROVE  FiresInv'
<1>1. /\ ran' = ran \union {o} /\ o.at <= now
      /\ UNCHANGED <<now, jobs, tasks, pass, activation>>
  BY DEF Run
<1>2. /\ \A p \in tasks : p.rule \in Stored /\ p.job = jobs[p.rule].id
      /\ \A p \in tasks \union ran : p.at \in Nat
  BY DEF TypeInv, TasksOwned, Occurrence
<1>3. Stored' = Stored
  BY <1>1 DEF Stored
<1>4. RanInTime'
  BY <1>1 DEF FiresInv, RanInTime
<1>5. FiresOncePerRule'
  <2>1. ASSUME NEW p \in ran, p.rule = o.rule, p.at = o.at
        PROVE  p.job = o.job
    <3>1. RanBefore(o.rule, o.job, o.at)
      BY DEF FiresInv, RowsFollow
    <3>2. ~(p.at < o.at)
      BY <1>2, <2>1
    <3> QED BY <2>1, <3>1, <3>2 DEF RanBefore
  <2>2. \A p, q \in ran : p.rule = q.rule /\ p.at = q.at => p.job = q.job
    BY DEF FiresInv, FiresOncePerRule
  <2> QED BY <1>1, <2>1, <2>2 DEF FiresOncePerRule
<1>6. ASSUME NEW r \in Stored, NEW x, RanBefore(r, jobs[r].id, x)
      PROVE  \A p \in ran' : p.rule = r /\ p.job # jobs[r].id => p.at < x
  BY <1>1, <1>2, <1>6 DEF RanBefore
<1>7. RowsFollow'
  <2>1. ASSUME NEW r \in Stored, jobs[r].next # None
        PROVE  \A p \in ran' : p.rule = r /\ p.job # jobs[r].id => p.at < jobs[r].next
    BY <1>6, <2>1 DEF FiresInv, RowsFollow
  <2>2. ASSUME NEW q \in tasks
        PROVE  \A p \in ran' : p.rule = q.rule /\ p.job # q.job => p.at < q.at
    BY <1>2, <1>6 DEF FiresInv, RowsFollow
  <2> QED BY <1>1, <1>3, <2>1, <2>2 DEF RowsFollow, RanBefore
<1>8. PassesFollow'
  <2>1. ASSUME NEW h \in Hosts, NEW r \in Claimed(h)
        PROVE  \A p \in ran' : p.rule = r /\ p.job # jobs[r].id => p.at < pass[h].now + 1
    <3>1. r \in Stored
      BY DEF TypeInv, PassShaped, Claimed
    <3> QED BY <1>6, <3>1 DEF FiresInv, PassesFollow
  <2> QED BY <1>1, <2>1 DEF PassesFollow, RanBefore, Claimed
<1>9. SameVersion'
  BY <1>1 DEF FiresInv, SameVersion
<1>10. FirstRunsFollow'
  BY <1>1, <1>2, <1>3 DEF FiresInv, FirstRunsFollow
<1>11. WrittenFollow'
  <2> SUFFICES ASSUME NEW h \in Hosts, activation[h].phase = "written"
               PROVE  /\ \A r \in DOMAIN activation[h].own :
                           \A p \in ran' : p.rule = r => p.at <= activation[h].now
                      /\ \A r \in DOMAIN activation[h].taken :
                           /\ r \in Stored /\ jobs[r].id = activation[h].taken[r].id
                           /\ \A p \in ran' : p.rule = r /\ p.job # jobs[r].id =>
                                p.at < activation[h].taken[r].next /\ p.at < activation[h].now + 1
    BY <1>1, <1>3 DEF WrittenFollow, RanBefore
  <2>1. DOMAIN activation[h].own \intersect Stored = {}
    BY WrittenIs DEF Written
  <2>2. \A r \in DOMAIN activation[h].own :
            \A p \in ran' : p.rule = r => p.at <= activation[h].now
    BY <1>1, <1>2, <2>1 DEF FiresInv, WrittenFollow
  <2>3. ASSUME NEW r \in DOMAIN activation[h].taken
        PROVE  /\ r \in Stored /\ jobs[r].id = activation[h].taken[r].id
               /\ \A p \in ran' : p.rule = r /\ p.job # jobs[r].id =>
                    p.at < activation[h].taken[r].next /\ p.at < activation[h].now + 1
    BY <1>6 DEF FiresInv, WrittenFollow
  <2> QED BY <2>2, <2>3
<1> QED BY <1>4, <1>5, <1>7, <1>8, <1>9, <1>10, <1>11 DEF FiresInv

\* Every step but an unpublish keeps what ran before what is to run.
LEMMA NextFires ==
    ASSUME Budget["unpublish"] = 0
    PROVE  TypeInv /\ ConvergeInv /\ FiresInv /\ [Next]_vars => FiresInv'
<1> SUFFICES ASSUME TypeInv, ConvergeInv, FiresInv, [Next]_vars PROVE FiresInv'
  OBVIOUS
<1>1. ASSUME UNCHANGED <<now, jobs, tasks, ran, pass, activation>> PROVE FiresInv'
  <2>1. now' \in Nat /\ now <= now'
    BY <1>1, NowIsNumber
  <2> QED BY <1>1, <2>1, FiresFrame
<1>2. ASSUME NEW h \in Hosts, Materialize(h) PROVE FiresInv'
  BY <1>2, ClaimDueJobsFires, CommitPassFires, AbortPassFires DEF Materialize
<1>3. ASSUME NEW h \in Hosts, FailActivation(h) \/ AbortActivation(h) PROVE FiresInv'
  BY <1>3, FinishFires DEF FailActivation, AbortActivation, db
<1>4. ASSUME NEW h \in Hosts, Activate(h) PROVE FiresInv'
  BY <1>3, <1>4, CollectFires, FindExistingFires, WriteJobsFires, CommitActivationFires DEF Activate
<1>5. ASSUME NEW v \in Versions, Publish(v) PROVE FiresInv'
  BY <1>1, <1>5 DEF Publish, db
<1>6. ASSUME Unpublish PROVE FALSE
  <2>1. spent["unpublish"] < Budget["unpublish"]
    BY <1>6 DEF Unpublish, Spend
  <2>2. spent["unpublish"] \in 0 .. Budget["unpublish"]
    BY Deeds DEF TypeInv, WorldShaped
  <2> QED BY <2>1, <2>2
<1>7. ASSUME Teardown \/ Deregister PROVE FiresInv'
  BY <1>7, DeletionFires DEF Teardown, Deregister
<1>8. ASSUME UNCHANGED vars PROVE FiresInv'
  BY <1>1, <1>8 DEF vars
<1>9. ASSUME Heal PROVE FiresInv'
  BY <1>1, <1>9 DEF Heal, db
<1>10. ASSUME Tick PROVE FiresInv'
  <2>1. now' = now + 1 /\ UNCHANGED <<jobs, tasks, ran, pass, activation>>
    BY <1>10 DEF Tick, db
  <2>2. now' \in Nat /\ now <= now'
    BY <2>1, NowIsNumber
  <2> QED BY <2>1, <2>2, FiresFrame
<1> QED BY <1>2, <1>4, <1>5, <1>6, <1>7, <1>8, <1>9, <1>10, RunFires DEF Next

\* An instant of a rule runs under one job only, so that the key built from the
\* job's id catches every second delivery.  Where no unpublish comes in: one in
\* the middle of an activation deletes a row after its first run was computed.
THEOREM FiresOnce ==
    ASSUME Budget["unpublish"] = 0
    PROVE  Spec => []FiresOncePerRule
<1>1. Init => FiresInv
  <2> SUFFICES ASSUME Init PROVE FiresInv
    OBVIOUS
  <2>1. /\ tasks = {} /\ ran = {} /\ Stored = {}
        /\ \A h \in Hosts : pass[h].phase = "idle" /\ activation[h].phase = "idle"
    BY DEF Init, Idle, Stored
  <2>2. RanInTime /\ FiresOncePerRule /\ RowsFollow
    BY <2>1 DEF RanInTime, FiresOncePerRule, RowsFollow
  <2>3. PassesFollow
    BY <2>1 DEF PassesFollow, Claimed
  <2>4. SameVersion /\ FirstRunsFollow /\ WrittenFollow
    BY <2>1 DEF SameVersion, FirstRunsFollow, WrittenFollow
  <2> QED BY <2>2, <2>3, <2>4 DEF FiresInv
<1>2. TypeInv /\ ConvergeInv /\ FiresInv /\ [Next]_vars => FiresInv'
  BY NextFires
<1>3. FiresInv => FiresOncePerRule
  BY DEF FiresInv
<1> QED BY <1>1, <1>2, <1>3, SpecType, SpecConverges, PTL DEF Spec
====
