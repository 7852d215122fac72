----------------------------- MODULE JobPlanning -----------------------------
(***************************************************************************)
(* The scheduled jobs of one trigger node.  An activation provisions them  *)
(* (DurableJobProvisioner), the materializer of every main turns their     *)
(* clocks into recorded occurrences, a deactivation deletes them.          *)
(*                                                                         *)
(* Each of these is one transaction with awaits inside.  A transaction is  *)
(* a record with the phase it is in: pass[h] is the materialization of the *)
(* main h, activation[h] its provisioning.  What it wrote is visible to others     *)
(* when it commits; the rows it wrote or selected FOR UPDATE are locked    *)
(* until then.  SQLite runs the same transactions one at a time, which is  *)
(* among the behaviours of this module.                                    *)
(*                                                                         *)
(* A rule is its job's name.  The registrar names a job by a fingerprint   *)
(* of its definition, so a rule has one definition.                        *)
(***************************************************************************)
EXTENDS Naturals, FiniteSets, FiniteSetsExt

CONSTANTS
    Hosts,          \* mains
    Rules,          \* rules the node has in any version
    Schedule,       \* Schedule[r]: its cadence, see ScheduleAssumption
    Versions,       \* sets of rules: versions of the node that get published
    Broken,         \* rules that cannot be planned at first
    None,           \* null
    Window,         \* windowSeconds
    Lookahead,      \* lookaheadSeconds
    MaxPerJob,      \* maxPerJob
    PlanRetry,      \* planRetrySeconds
    MaxTime,        \* bound on the database clock
    Horizon,        \* bound on the instants of a schedule that are looked at
    Budget          \* how often the environment does each of its deeds

ASSUME ScheduleAssumption ==
    \A r \in Rules :
        \/ Schedule[r].kind = "cron" /\ Schedule[r].at \subseteq Nat
        \/ Schedule[r].kind = "interval" /\ Schedule[r].every \in Nat \ {0}
        \/ Schedule[r].kind = "degenerate"
ASSUME VersionsAssumption == Versions \subseteq SUBSET Rules /\ {} \notin Versions
ASSUME TimesAssumption ==
    /\ Window \in Nat /\ Lookahead \in Nat /\ PlanRetry \in Nat \ {0}
    /\ MaxPerJob \in Nat \ {0} /\ MaxTime \in Nat /\ Horizon \in Nat
ASSUME BudgetAssumption ==
    Budget \in [{"abort", "deregister", "republish", "unpublish"} -> Nat]
\* A schedule does not run out: it goes on past every instant that the clock of
\* a run, with the window ahead of it, can reach.
ASSUME HorizonAssumption ==
    \A r \in Rules :
        /\ Schedule[r].kind = "cron" => \E y \in Schedule[r].at : y > MaxTime + Window
        /\ Schedule[r].kind = "interval" => MaxTime + Window + Schedule[r].every <= Horizon

VARIABLES
    now,          \* the database clock
    jobs,         \* jobs[r]: the row of rule r, or None
    tasks,        \* recorded occurrences: [rule, job, at]
    ran,          \* the occurrences that were run, kept for good
    ids,          \* ids[r]: how many rows rule r has had
    pass,         \* pass[h]: the materialization in progress on h, or Idle
    activation,   \* activation[h]: the provisioning in progress on h, or Idle
    target,       \* the version last requested; {} is unpublished
    applied,      \* whether a leader has carried that request out
    serving,      \* the mains whose activation is for that request
    broken,       \* rules that cannot be planned now
    spent         \* how often the environment has done each of its deeds

env == <<target, applied, serving, broken, spent>>
db == <<jobs, tasks, ran, ids>>
vars == <<now, jobs, tasks, ran, ids, pass, activation, target, applied,
          serving, broken, spent>>

\* first is history: the clock the row started from.
Job == [id : Nat, next : Nat \union {None}, first : Nat \union {None}]

ASSUME NoneAssumption == None \notin Nat \union Job

Occurrence == [ rule : Rules, job : Nat, at : Nat ]

\* No transaction is in progress.
Idle == [phase |-> "idle"]

Init ==
    /\ now = 0
    /\ jobs = [r \in Rules |-> None]
    /\ tasks = {}
    /\ ran = {}
    /\ ids = [r \in Rules |-> 0]
    /\ pass = [h \in Hosts |-> Idle]
    /\ activation = [h \in Hosts |-> Idle]
    /\ target = {}
    /\ applied = TRUE
    /\ serving = {}
    /\ broken = Broken
    /\ spent = [k \in DOMAIN Budget |-> 0]

Stored == {r \in Rules : jobs[r] # None}

Spend(k) == spent[k] < Budget[k] /\ spent' = [spent EXCEPT ![k] = @ + 1]

-----------------------------------------------------------------------------
(* The schedule.                                                           *)

MinOrNone(S) == IF S = {} THEN None ELSE Min(S)

\* The fires of r strictly after x: calendar instants, or steps of an interval.
FiresAfter(r, x) ==
    CASE Schedule[r].kind = "cron" -> {y \in Schedule[r].at : y > x}
      [] Schedule[r].kind = "interval" ->
            {y \in x + 1 .. Horizon : (y - x) % Schedule[r].every = 0}
      [] OTHER -> {}

\* occurrencesFrom: first is yielded whatever it is, the schedule follows.
OccurrencesFrom(r, first) ==
    IF first = None THEN {} ELSE {first} \union FiresAfter(r, first)

\* A first run that may be the instant of the registration itself.
FirstRunFromNow(r, from) == MinOrNone({y \in FiresAfter(r, 0) : y >= from})

\* computeFirstRunAt, and null for a rule that can never fire.
FirstRunAt(r, from) == MinOrNone(FiresAfter(r, from))

\* planOccurrences: what a pass that reads the clock at t records of a job.
Recorded(r, job, t) ==
    LET due == {x \in OccurrencesFrom(r, job.next) : x <= t + Window}
    IN  {x \in due : Cardinality({y \in due : y < x}) < MaxPerJob}

\* The clock leaves the whole window behind, recorded or not.
NextPastWindow(r, job, t) ==
    MinOrNone({x \in OccurrencesFrom(r, job.next) : x > t + Window})

\* And where it puts the job's clock.
NextRunAt(r, job, t) ==
    MinOrNone(OccurrencesFrom(r, job.next) \ Recorded(r, job, t))

\* planOrDeferJob: what becomes of the row.
Advanced(r, job, t) ==
    IF r \in broken
    THEN [job EXCEPT !.next = t + PlanRetry]
    ELSE [job EXCEPT !.next = NextRunAt(r, job, t)]

\* toNewOccurrences; claimed is a function from rules to rows.
NewOccurrences(claimed, t) ==
    UNION { {[rule |-> r, job |-> claimed[r].id, at |-> x] :
                x \in Recorded(r, claimed[r], t)} : r \in DOMAIN claimed \ broken }

-----------------------------------------------------------------------------
(* Locks.                                                                  *)

LockedByPass(h) == IF pass[h].phase = "idle" THEN {} ELSE DOMAIN pass[h].claimed

\* An insert is no row for others until it commits.
LockedByActivation(h) ==
    IF activation[h].phase # "written" THEN {}
    ELSE Stored \intersect
            (DOMAIN activation[h].own \union DOMAIN activation[h].removed)

Locked(r) == \E h \in Hosts : r \in LockedByPass(h) \union LockedByActivation(h)

\* Held by another transaction than the activation of h.
LockedForActivation(h, r) ==
    \E g \in Hosts :
        r \in LockedByPass(g) \/ (g # h /\ r \in LockedByActivation(g))

-----------------------------------------------------------------------------
(* The materializer.                                                       *)

Due == {r \in Stored :
          /\ jobs[r].next # None
          /\ jobs[r].next <= now + Lookahead
          /\ ~Locked(r)}

\* claimDue: FOR UPDATE SKIP LOCKED, with the time in the same round trip.
ClaimDueJobs(h) ==
    /\ pass[h].phase = "idle"
    /\ Due # {}
    /\ pass' = [pass EXCEPT ![h] =
                  [ phase   |-> "claimed",
                    now     |-> now,
                    claimed |-> [r \in Due |-> jobs[r]] ]]
    /\ UNCHANGED <<now, db, activation, env>>

\* A pass in which one job that cannot be planned fails the whole batch.
CommitPassUnlessBroken(h) ==
    /\ pass[h].phase = "claimed"
    /\ LET p == pass[h]
           kept == IF DOMAIN p.claimed \intersect broken = {}
                   THEN DOMAIN p.claimed ELSE {}
           claimed == [r \in kept |-> p.claimed[r]]
       IN
        /\ tasks' = tasks \union NewOccurrences(claimed, p.now)
        /\ jobs' = [r \in Rules |->
             IF r \in kept THEN Advanced(r, claimed[r], p.now) ELSE jobs[r]]
    /\ pass' = [pass EXCEPT ![h] = Idle]
    /\ UNCHANGED <<now, ran, ids, activation, env>>

\* Record, advance, commit.  The rows are still as the claim read them.
CommitPass(h) ==
    /\ pass[h].phase = "claimed"
    /\ LET p == pass[h] IN
        /\ tasks' = tasks \union NewOccurrences(p.claimed, p.now)
        /\ jobs' = [r \in Rules |->
             IF r \in DOMAIN p.claimed
             THEN Advanced(r, p.claimed[r], p.now) ELSE jobs[r]]
    /\ pass' = [pass EXCEPT ![h] = Idle]
    /\ UNCHANGED <<now, ran, ids, activation, env>>

\* Timed out, stopped, failed or crashed before the commit: rolled back.
AbortPass(h) ==
    /\ pass[h].phase = "claimed"
    /\ Spend("abort")
    /\ pass' = [pass EXCEPT ![h] = Idle]
    /\ UNCHANGED <<now, db, activation, target, applied, serving, broken>>

-----------------------------------------------------------------------------
(* Provisioning.                                                           *)

\* The registrar collects the rules of the version with their first runs.  The
\* outbox hands out one record of a workflow at a time, so only activations for
\* the same record overlap: a takeover repeats what the old leader is still
\* working on.  A version that is in place is replayed at any time.
Collect(h) ==
    /\ activation[h].phase = "idle"
    /\ target # {}
    /\ \A g \in Hosts : activation[g].phase # "idle" => g \in serving
    /\ activation' = [activation EXCEPT ![h] =
         [phase |-> "collected", desired |-> [r \in target |-> FirstRunAt(r, now)]]]
    /\ serving' = serving \union {h}
    /\ UNCHANGED <<now, db, pass, target, applied, broken, spent>>

\* Every row is taken for out of date.
HoldsNothing(job, first) == FALSE

\* holdsDefinition: the schedule is that of the name; the clock has to be as
\* alive as the fresh plan's.
HoldsDefinition(job, first) == (job.next # None) = (first # None)

\* No rule is ever removed.
NothingRemoved(desired) == {}

\* Rules stored and no longer desired.
NoLongerDesired(desired) == Stored \ DOMAIN desired

\* findExisting, and the diff by name.
FindExisting(h) ==
    /\ activation[h].phase = "collected"
    /\ LET desired == activation[h].desired
           outdated == {r \in Stored \intersect DOMAIN desired :
                            ~HoldsDefinition(jobs[r], desired[r])}
       IN activation' = [activation EXCEPT ![h] =
            [ phase     |-> "read",
              desired   |-> desired,
              inserts   |-> DOMAIN desired \ Stored,
              redefined |-> [r \in outdated |-> jobs[r].id],
              removed   |-> [r \in NoLongerDesired(desired) |-> jobs[r].id] ]]
    /\ UNCHANGED <<now, db, pass, env>>

\* Rows found earlier, a function from rules to ids, that are still there.
StillThere(found) == {r \in DOMAIN found : jobs[r] # None /\ jobs[r].id = found[r]}

\* Names another activation is inserting or deleting: ON CONFLICT waits.
Undecided(h, r) ==
    \E g \in Hosts \ {h} :
        /\ activation[g].phase = "written"
        /\ \/ r \in DOMAIN activation[g].removed
           \/ r \in DOMAIN activation[g].own /\ jobs[r] = None

FreshJob(id, first) == [id |-> id, next |-> first, first |-> first]

\* redefine, withdrawPendingTasks, deleteJobs, insert with its read-back, and
\* the read of the jobs to seed.  A name that is taken by now keeps its row;
\* the read-back returns its id all the same, and so it is seeded too.
WriteJobs(h) ==
    /\ activation[h].phase = "read"
    /\ LET a == activation[h]
           redefined == StillThere(a.redefined)
           removed == StillThere(a.removed)
           new == {r \in a.inserts : jobs[r] = None}
           own == [r \in redefined \union new |->
                     FreshJob(IF r \in new THEN ids[r] + 1 ELSE jobs[r].id, a.desired[r])]
           taken == {r \in a.inserts \ new : jobs[r].next # None}
       IN
        /\ \A r \in redefined \union removed : ~LockedForActivation(h, r)
        /\ \A r \in a.inserts : ~Undecided(h, r)
        /\ activation' = [activation EXCEPT ![h] =
             [ phase   |-> "written",
               desired |-> a.desired,
               own     |-> own,
               removed |-> [r \in removed |-> jobs[r].id],
               taken   |-> [r \in taken |-> jobs[r]],
               now     |-> now ]]
    /\ UNCHANGED <<now, db, pass, env>>

Finish(h) ==
    /\ activation' = [activation EXCEPT ![h] = Idle]
    /\ serving' = serving \ {h}

\* The occurrences that seedInitialOccurrences records.
Seeded(a) == NewOccurrences(a.own, a.now) \union NewOccurrences(a.taken, a.now)

\* The rows of taken that are still there, whatever their clock is by now.
TakenStill(a) == {r \in DOMAIN a.taken : jobs[r] # None /\ jobs[r].id = a.taken[r].id}

\* Occurrences may name a job that is gone.
SeedsAnything(a) == FALSE

\* An occurrence of a row that is gone violates the foreign key of its task.
SeedsGoneJob(a) ==
    \E o \in Seeded(a) : o.rule \in DOMAIN a.taken \ TakenStill(a)

\* seedInitialOccurrences and the commit.  The rows of taken were read without
\* a lock: their clocks are written from that read.
CommitActivation(h) ==
    /\ activation[h].phase = "written"
    /\ ~SeedsGoneJob(activation[h])
    /\ \A r \in TakenStill(activation[h]) : ~LockedForActivation(h, r)
    /\ LET a == activation[h]
           removed == DOMAIN a.removed
           clocked == {r \in DOMAIN a.own : a.own[r].next # None}
           withdrawn == {o \in tasks \ ran :
                           /\ o.rule \in DOMAIN a.own \intersect Stored
                           /\ o.job = a.own[o.rule].id}
       IN
        /\ jobs' = [r \in Rules |->
             CASE r \in removed -> None
               [] r \in clocked -> Advanced(r, a.own[r], a.now)
               [] r \in DOMAIN a.own \ clocked -> a.own[r]
               [] r \in TakenStill(a) -> Advanced(r, a.taken[r], a.now)
               [] OTHER -> jobs[r]]
        /\ ids' = [r \in Rules |->
             IF r \in DOMAIN a.own /\ a.own[r].id > ids[r] THEN a.own[r].id ELSE ids[r]]
        /\ tasks' = ({o \in tasks : o.rule \notin removed} \ withdrawn) \union Seeded(a)
        /\ applied' = (applied \/ h \in serving)
    /\ Finish(h)
    /\ UNCHANGED <<now, ran, pass, target, broken, spent>>

\* The activation of the node fails; its record can be taken up again.
FailActivation(h) ==
    /\ activation[h].phase = "written"
    /\ SeedsGoneJob(activation[h])
    /\ Finish(h)
    /\ UNCHANGED <<now, db, pass, target, applied, broken, spent>>

\* Any statement fails, a deadlock is broken, or the main crashes.
AbortActivation(h) ==
    /\ activation[h].phase # "idle"
    /\ Spend("abort")
    /\ Finish(h)
    /\ UNCHANGED <<now, db, pass, target, applied, broken>>

-----------------------------------------------------------------------------
(* Requests and deactivation.                                              *)

NoActivation == \A h \in Hosts : activation[h].phase = "idle"

\* Delete the node's rows; their occurrences cascade.  Waits for locked rows.
DeleteJobs ==
    /\ \A r \in Stored : ~Locked(r)
    /\ jobs' = [r \in Rules |-> None]
    /\ tasks' = {}
    /\ UNCHANGED <<ran, ids>>

\* A version is requested: the record is queued for the leader.
Publish(v) ==
    /\ v # target
    /\ IF target = {} THEN UNCHANGED spent ELSE Spend("republish")
    /\ target' = v
    /\ applied' = FALSE
    /\ serving' = {}
    /\ UNCHANGED <<now, db, pass, activation, broken>>

\* The main that handles an unpublish deletes the rows in the transaction of
\* the request, whatever the leader is doing.
Unpublish ==
    /\ target # {}
    /\ Spend("unpublish")
    /\ target' = {}
    /\ applied' = FALSE
    /\ serving' = {}
    /\ DeleteJobs
    /\ UNCHANGED <<now, pass, activation, broken>>

\* The leader's own teardown of the unpublished node.
Teardown ==
    /\ target = {} /\ ~applied
    /\ NoActivation
    /\ DeleteJobs
    /\ applied' = TRUE
    /\ UNCHANGED <<now, pass, activation, target, serving, broken, spent>>

\* The leader removes a modified node before it activates the new version.  A
\* node that only gets new rules (another time zone, another trigger mode) is
\* activated over its old rows.
Deregister ==
    /\ target # {} /\ ~applied
    /\ NoActivation
    /\ Stored # {}
    /\ Spend("deregister")
    /\ DeleteJobs
    /\ UNCHANGED <<now, pass, activation, target, applied, serving, broken>>

-----------------------------------------------------------------------------
(* The rest of the world.                                                  *)

\* The executor runs an occurrence that is due (TaskExecution).
Run(o) ==
    /\ o \in tasks \ ran
    /\ o.at <= now
    /\ ran' = ran \union {o}
    /\ UNCHANGED <<now, jobs, tasks, ids, pass, activation, env>>

\* The cause of a planning failure goes away.
Heal ==
    /\ broken # {}
    /\ broken' = {}
    /\ UNCHANGED <<now, db, pass, activation, target, applied, serving, spent>>

Tick ==
    /\ now < MaxTime
    /\ now' = now + 1
    /\ UNCHANGED <<db, pass, activation, env>>

Materialize(h) == ClaimDueJobs(h) \/ CommitPass(h) \/ AbortPass(h)

Activate(h) ==
    \/ Collect(h)
    \/ FindExisting(h)
    \/ WriteJobs(h)
    \/ CommitActivation(h)
    \/ FailActivation(h)
    \/ AbortActivation(h)

Next ==
    \/ \E h \in Hosts : Materialize(h) \/ Activate(h)
    \/ \E v \in Versions : Publish(v)
    \/ Unpublish
    \/ Teardown
    \/ Deregister
    \/ \E o \in tasks : Run(o)
    \/ Heal
    \/ Tick

Spec == Init /\ [][Next]_vars

\* The materializer's loop ticks on every main, statements return, the leader
\* carries requests out, time passes.
Fairness ==
    /\ \A h \in Hosts :
        /\ WF_vars(ClaimDueJobs(h))
        /\ WF_vars(CommitPass(h))
        /\ WF_vars(FindExisting(h))
        /\ WF_vars(WriteJobs(h))
        /\ WF_vars(CommitActivation(h) \/ FailActivation(h))
    /\ WF_vars(Teardown)
    /\ WF_vars(Tick)

FairSpec == Spec /\ Fairness

-----------------------------------------------------------------------------
(* Properties.                                                             *)

\* Rows, occurrences and clocks are of the types the tables give them, and an
\* occurrence belongs to a job that exists.
TypeOK ==
    /\ now \in 0 .. MaxTime
    /\ \A r \in Rules : jobs[r] \in Job \union {None}
    /\ tasks \subseteq Occurrence /\ ran \subseteq Occurrence
    /\ \A r \in Stored : jobs[r].id \in 1 .. ids[r]
    /\ \A o \in tasks : jobs[o.rule] # None /\ jobs[o.rule].id = o.job
    /\ \A h \in Hosts : pass[h].phase = "claimed" => pass[h].now <= now
    /\ target \in Versions \union {{}}
    /\ applied \in BOOLEAN
    /\ serving \subseteq {h \in Hosts : activation[h].phase # "idle"}
    /\ broken \subseteq Broken
    /\ \A k \in DOMAIN Budget : spent[k] \in 0 .. Budget[k]

\* The instants a row has recorded, from the clock it was started with.
RecordedOf(r) ==
    {o.at : o \in {o \in tasks : o.rule = r /\ o.job = jobs[r].id
                                  /\ o.at >= jobs[r].first}}

\* The fires a row's clock has left behind.
PassedBy(r) == {x \in OccurrencesFrom(r, jobs[r].first) : x < jobs[r].next}

\* However passes, seeds, rollbacks and re-registrations interleave, the clock
\* of a job leaves no fire behind unrecorded, and nothing is recorded that is
\* not a fire of its schedule (planOccurrences, seedInitialOccurrences).  Holds
\* of jobs that could always be planned.
ClockMatchesRecord ==
    \A r \in Stored \ Broken :
        jobs[r].next # None =>
            /\ PassedBy(r) \subseteq RecordedOf(r)
            /\ RecordedOf(r) \subseteq OccurrencesFrom(r, jobs[r].first)

\* An instant of a rule runs under one job only, so that the key built from
\* the job's id catches every second delivery (provision keeps the id of an
\* unchanged rule; a new row starts after its registration).
FiresOncePerRule ==
    \A o, p \in ran : o.rule = p.rule /\ o.at = p.at => o.job = p.job

\* Once the leader has carried the last request out, the stored rules are those
\* of the version, also when two mains activated it at once or a request came
\* in between.
ActivationConverges == applied /\ NoActivation => Stored = target

\* An occurrence, once recorded, goes only with its job: a replayed activation
\* withdraws nothing from a job it finds in place (holdsDefinition with the
\* registrar's names).
RecordedUntilRemoved ==
    [][\A o \in tasks \ tasks' :
         jobs'[o.rule] = None \/ jobs'[o.rule].id # o.job]_vars

\* A clock that has come due moves on, even while another job of the same batch
\* cannot be planned (planOrDeferJob isolates it).
DueIsPlanned ==
    \A r \in Rules : \A n \in 0 .. MaxTime :
        (jobs[r] # None /\ jobs[r].next = n /\ n <= now)
            ~> ~(jobs[r] # None /\ jobs[r].next = n)

\* materialize: every due occurrence is recorded, backlogs included.
EveryDueIsRecorded ==
    \A r \in Stored : jobs[r].next # None => PassedBy(r) \subseteq RecordedOf(r)
=============================================================================
