------------------------- MODULE WorkflowPublication -------------------------
(***************************************************************************)
(* Publishing one workflow through the outbox, in a multi-main setup.      *)
(*                                                                         *)
(* A request writes the wanted version and an outbox row in a transaction. *)
(* The leader claims rows, moves the triggers it has in memory and the     *)
(* published version to the row's version, and writes the outcome.  When   *)
(* the role moves, the old leader takes its triggers down while the new    *)
(* one queues the workflow again; a reconciler on the leader compares what *)
(* is recorded as running with what runs.                                  *)
(*                                                                         *)
(* Rows, versions and triggers are those of a single workflow: rows of     *)
(* different workflows share nothing but the claim order.  Triggers are    *)
(* the non-webhook ones; webhooks are rows of the database.  One drain     *)
(* worker per main: the others would take rows of other workflows.         *)
(***************************************************************************)
EXTENDS LeaderElection

CONSTANTS
    Versions,
    Nodes,
    Triggers,      \* Triggers[v][n]: the parameters of trigger n in version v, or None
    MaxRequests,   \* publish and unpublish requests
    SlowApplies    \* whether applying a row may outlast its lease

ASSUME PublicationAssumption ==
    /\ None \notin Versions
    /\ DOMAIN Triggers = Versions
    /\ \A v \in Versions : DOMAIN Triggers[v] = Nodes
    /\ MaxRequests \in Nat
    /\ SlowApplies \in BOOLEAN

VARIABLES
    active,     \* workflow_entity.activeVersionId, or None
    published,  \* workflow_published_version, or None
    pending,    \* the pending row of the outbox, or None
    inProgress, \* its row in progress, or None
    outcome,    \* the terminal status written last
    statuses,   \* nodes with a trigger status row that says activated
    running,    \* running[m][n]: the trigger n registered on m, or None
    polling,    \* mains whose consumer polls
    arriving,   \* arriving[m]: enqueues for a new leader that are under way
    worker,     \* worker[m]: what the drain does
    leaving,    \* mains that still have to take the triggers down
    pass,       \* pass[m]: where the reconciler's pass is
    recovering, \* recovering[m]: broken triggers that are to be started again
    requests    \* how many there have been

database == <<active, published, pending, inProgress, outcome, statuses>>
drains == <<polling, arriving, worker, leaving>>
vars == <<election, database, drains, running, pass, recovering, requests>>

Contents == { Triggers[v][n] : v \in Versions, n \in Nodes } \ {None}
Registration == [ parameters : Contents, by : {"apply", "recovery"} ]
Rows == 0 .. (Cardinality(Mains) + 2)
Wanted == Versions \union {None}
Pending == [ id : Rows, version : Wanted ]
InProgress == [ id : Rows, version : Wanted, expired : BOOLEAN ]
Phases == {"idle", "claimed", "removing", "advancing", "activating", "reporting"}
Results == {"none", "completed", "unpublished", "partial", "failed", "thrown",
            "version-missing"}
Work == [ phase : Phases, id : Rows, version : Wanted, target : Wanted,
          remove : SUBSET Nodes, add : SUBSET Nodes, failed : SUBSET Nodes,
          result : Results ]

ASSUME NoneAssumption == None \notin Registration \union Pending \union InProgress

EnabledNodes(v) == IF v = None THEN {} ELSE { n \in Nodes : Triggers[v][n] # None }
Registered(m) == { n \in Nodes : running[m][n] # None }

Idle == [ phase |-> "idle", id |-> 0, version |-> None, target |-> None,
          remove |-> {}, add |-> {}, failed |-> {}, result |-> "none" ]
Nothing == [ n \in Nodes |-> None ]

\* The row whose record the worker of m holds.  A worker that has left
\* "claimed" has the lifecycle lock, and so has a pass that removes ghosts.
Holds(m, id) == worker[m].phase # "idle" /\ worker[m].id = id
Applies(m) == worker[m].phase \notin {"idle", "claimed"}
Locked(m) == Applies(m) \/ pass[m] = "removing"

\* Ids tell rows apart and are used again once nobody knows them.
FreshId ==
    CHOOSE id \in Rows :
        /\ pending = None \/ pending.id # id
        /\ inProgress = None \/ inProgress.id # id
        /\ \A m \in Mains : ~Holds(m, id)

TypeOK ==
    /\ ElectionTypeOK
    /\ {active, published} \subseteq Wanted
    /\ pending = None \/ pending \in Pending
    /\ inProgress = None \/ inProgress \in InProgress
    /\ outcome \in {"completed", "partial_success", "failed"}
    /\ statuses \subseteq Nodes
    /\ running \in [ Mains -> [ Nodes -> Registration \union {None} ] ]
    /\ polling \subseteq up
    /\ leaving \subseteq up
    /\ arriving \in [ Mains -> SUBSET {"start", "takeover"} ]
    /\ worker \in [ Mains -> Work ]
    /\ pass \in [ Mains -> {"idle", "surplus", "removing", "missing", "enqueueing"} ]
    /\ recovering \in [ Mains -> SUBSET (Nodes \X Contents) ]
    /\ inProgress # None /\ pending # None => inProgress.id # pending.id

\* Every main is down, and may have stopped before it carried out a request.
Init ==
    /\ ElectionInit
    /\ active \in Wanted
    /\ published \in Wanted
    /\ pending = IF active = published THEN None
                 ELSE [ id |-> 0, version |-> IF active = None THEN published ELSE active ]
    /\ inProgress = None
    /\ outcome = "completed"
    /\ statuses = EnabledNodes(published)
    /\ running = [ m \in Mains |-> Nothing ]
    /\ polling = {}
    /\ arriving = [ m \in Mains |-> {} ]
    /\ worker = [ m \in Mains |-> Idle ]
    /\ leaving = {}
    /\ pass = [ m \in Mains |-> "idle" ]
    /\ recovering = [ m \in Mains |-> {} ]
    /\ requests = 0

-----------------------------------------------------------------------------
\* The outbox.

\* enqueue: a pending row takes the new version over.
Enqueue(v) ==
    pending' = [ id |-> IF pending = None THEN FreshId ELSE pending.id, version |-> v ]

\* enqueueByWorkflowIds: a pending row stays as it is; a workflow that is not
\* published gets a row without a version.
EnqueueUnlessPending ==
    pending' = IF pending = None THEN [ id |-> FreshId, version |-> active ] ELSE pending

\* Mutant: rows in progress are not looked at.
PendingIsAlwaysFree == TRUE

\* A pending row is free when the workflow has no row in progress.
PendingIsFree == inProgress = None

\* Mutant: the row that is claimed stays pending.
ClaimCopy(id, v) ==
    /\ PendingIsFree
    /\ pending # None
    /\ id = pending.id /\ v = pending.version
    /\ inProgress' = [ id |-> id, version |-> v, expired |-> FALSE ]
    /\ UNCHANGED pending

\* claimNextPendingRecord
ClaimPending(id, v) ==
    /\ PendingIsFree
    /\ pending # None
    /\ id = pending.id /\ v = pending.version
    /\ inProgress' = [ id |-> id, version |-> v, expired |-> FALSE ]
    /\ pending' = None

\* Mutant: a row in progress is left to the main that claimed it.
ExpiredStays(id, v) == FALSE

ClaimExpired(id, v) ==
    /\ inProgress # None
    /\ inProgress.expired
    /\ id = inProgress.id /\ v = inProgress.version
    /\ inProgress' = [inProgress EXCEPT !.expired = FALSE]
    /\ UNCHANGED pending

\* Mutant: the row is closed, whether or not another one is pending.
DropRecord(id) ==
    IF inProgress = None \/ inProgress.id # id
    THEN UNCHANGED <<pending, inProgress>>
    ELSE inProgress' = None /\ UNCHANGED pending

\* returnToPending: a newer pending row replaces this one.
ReturnToPending(id) ==
    IF inProgress = None \/ inProgress.id # id
    THEN UNCHANGED <<pending, inProgress>>
    ELSE /\ inProgress' = None
         /\ pending' = IF pending = None
                       THEN [ id |-> id, version |-> inProgress.version ]
                       ELSE pending

-----------------------------------------------------------------------------
\* Requests of users.

Request(v) ==
    /\ requests < MaxRequests
    /\ requests' = requests + 1
    /\ active' = v
    /\ Enqueue(IF v = None THEN active ELSE v)
    /\ UNCHANGED <<election, published, inProgress, outcome, statuses, drains,
                   running, pass, recovering>>

\* _publishViaOutbox, _unpublishViaOutbox
Publish == \E v \in Versions \ {active} : Request(v)
Unpublish == active # None /\ Request(None)

\* wakeUp, for which only a leader listens.
WakeUp(m) ==
    /\ m \in leaders
    /\ requests > 0
    /\ m \notin polling
    /\ polling' = polling \union {m}
    /\ UNCHANGED <<election, database, arriving, worker, leaving, running, pass,
                   recovering, requests>>

-----------------------------------------------------------------------------
\* The role moves.

\* Start.run, as far as the enqueue for a main that starts as the leader.
Start(m) ==
    /\ StartsAs(m)
    /\ arriving' = [arriving EXCEPT ![m] = IF m \in leaders' THEN {"start"} ELSE {}]
    /\ UNCHANGED <<database, polling, worker, leaving, running, pass, recovering, requests>>

\* leader-takeover: enqueueOnLeaderTakeover sends its statement.
Takeover(m) ==
    /\ BecomesLeader(m)
    /\ arriving' = [arriving EXCEPT ![m] = @ \union {"takeover"}]
    /\ UNCHANGED <<database, polling, worker, leaving, running, pass, recovering, requests>>

\* enqueueForLeaderHandoff and what follows it.  At the start the consumer looks
\* at the role again; a takeover starts to poll without doing so.
Arrive(m, kind) ==
    /\ kind \in arriving[m]
    /\ IF active = None THEN UNCHANGED pending ELSE Enqueue(active)
    /\ polling' = IF kind = "takeover" \/ m \in leaders
                  THEN polling \union {m} ELSE polling
    /\ arriving' = [arriving EXCEPT ![m] = @ \ {kind}]
    /\ UNCHANGED <<election, active, published, inProgress, outcome, statuses, worker,
                   leaving, running, pass, recovering, requests>>

\* leader-stepdown, as far as the list of workflows to take down.
Demote(m) ==
    /\ StepsDown(m)
    /\ polling' = polling \ {m}
    /\ leaving' = IF Registered(m) # {} \/ Locked(m) THEN leaving \union {m} ELSE leaving
    /\ UNCHANGED <<database, arriving, worker, running, pass, recovering, requests>>

\* Mutant: the triggers are taken down without the lifecycle lock.
MayAlwaysTakeDown(m) == TRUE

\* deactivateWorkflow, in the lock or, after thirty seconds, without it.
MayTakeDown(m) == ~Locked(m) \/ SlowApplies

TakeDown(m) ==
    /\ m \in leaving
    /\ MayTakeDown(m)
    /\ running' = [running EXCEPT ![m] = Nothing]
    /\ leaving' = leaving \ {m}
    /\ UNCHANGED <<election, database, polling, arriving, worker, pass, recovering, requests>>

Forgets(m) ==
    /\ polling' = polling \ {m}
    /\ arriving' = [arriving EXCEPT ![m] = {}]
    /\ worker' = [worker EXCEPT ![m] = Idle]
    /\ leaving' = leaving \ {m}
    /\ running' = [running EXCEPT ![m] = Nothing]
    /\ pass' = [pass EXCEPT ![m] = "idle"]
    /\ recovering' = [recovering EXCEPT ![m] = {}]
    /\ UNCHANGED <<database, requests>>

Crash(m) == Dies(m) /\ Forgets(m)

\* A shutdown waits for the drain.
Shutdown(m) == LeavesAs(m) /\ worker[m] = Idle /\ Forgets(m)

-----------------------------------------------------------------------------
\* The drain.

\* runDrain: the worker claims the next row while the consumer polls.
Claim(m) ==
    /\ m \in polling
    /\ worker[m] = Idle
    /\ \E id \in Rows, v \in Wanted :
        /\ ClaimPending(id, v) \/ ClaimExpired(id, v)
        /\ worker' = [worker EXCEPT ![m].phase = "claimed", ![m].id = id, ![m].version = v]
    /\ UNCHANGED <<election, active, published, outcome, statuses, polling, arriving,
                   leaving, running, pass, recovering, requests>>

\* processRecord, first half: no longer the leader.
HandBack(m) ==
    /\ worker[m].phase = "claimed"
    /\ pass[m] # "removing"
    /\ m \notin leaders
    /\ ReturnToPending(worker[m].id)
    /\ worker' = [worker EXCEPT ![m] = Idle]
    /\ UNCHANGED <<election, active, published, outcome, statuses, polling, arriving,
                   leaving, running, pass, recovering, requests>>

\* computeTriggerDiff, and the desired triggers that are not registered here.
Differing(v, w) == { n \in EnabledNodes(v) : Triggers[v][n] # Triggers[w][n] }
ToRemove(v) ==
    IF published = None THEN {} ELSE Differing(published, v)

\* Mutant: only the difference of the versions is started.
ToAddOfDiff(m, v) ==
    IF published = None THEN EnabledNodes(v) ELSE Differing(v, published)

ToAdd(m, v) ==
    (EnabledNodes(v) \ Registered(m)) \union
    (IF published = None THEN EnabledNodes(v) ELSE Differing(v, published))

\* apply: the state of the workflow decides between publish and unpublish, the
\* row names the version to publish.
Resolve(m) ==
    LET v == worker[m].version IN
    /\ worker[m].phase = "claimed"
    /\ pass[m] # "removing"
    /\ m \in leaders
    /\ \/ /\ active = None
          /\ worker' = [worker EXCEPT ![m].phase = "removing",
                                      ![m].remove = EnabledNodes(published)]
       \/ /\ active # None /\ v = None
          /\ worker' = [worker EXCEPT ![m].phase = "reporting",
                                      ![m].result = "version-missing"]
       \/ /\ active # None /\ v # None
          /\ worker' = [worker EXCEPT ![m].phase = "removing", ![m].target = v,
                                      ![m].remove = ToRemove(v), ![m].add = ToAdd(m, v)]
    /\ UNCHANGED <<election, database, polling, arriving, leaving, running, pass,
                   recovering, requests>>

\* deactivate: every trigger of the set, concurrently; a failure surfaces
\* after all of them have ended.
Remove(m) ==
    /\ worker[m].phase = "removing"
    /\ \E stuck \in SUBSET worker[m].remove :
        /\ running' = [running EXCEPT ![m] =
               [ n \in Nodes |-> IF n \in worker[m].remove \ stuck THEN None ELSE @[n] ]]
        /\ IF stuck = {}
           THEN /\ worker' = [worker EXCEPT ![m].phase = "advancing"]
                /\ UNCHANGED trouble
           ELSE /\ worker' = [worker EXCEPT ![m].phase = "reporting",
                                            ![m].result = "thrown"]
                /\ Trouble
    /\ UNCHANGED <<roles, database, polling, arriving, leaving, pass, recovering,
                   requests>>

\* setPublishedVersion, removePublishedVersion
Advance(m) ==
    /\ worker[m].phase = "advancing"
    /\ published' = worker[m].target
    /\ worker' = IF worker[m].target = None
                 THEN [worker EXCEPT ![m].phase = "reporting", ![m].result = "unpublished"]
                 ELSE IF worker[m].add = {}
                 THEN [worker EXCEPT ![m].phase = "reporting", ![m].result = "completed"]
                 ELSE [worker EXCEPT ![m].phase = "activating"]
    /\ UNCHANGED <<election, active, pending, inProgress, outcome, statuses, polling,
                   arriving, leaving, running, pass, recovering, requests>>

\* activate: a trigger that fails is rolled back by itself, the others stay.
Activate(m) ==
    LET v == worker[m].target IN
    /\ worker[m].phase = "activating"
    /\ \E failed \in SUBSET worker[m].add :
        /\ IF failed = {} THEN UNCHANGED trouble ELSE Trouble
        /\ running' = [running EXCEPT ![m] =
               [ n \in Nodes |->
                   IF n \in failed THEN None
                   ELSE IF n \in worker[m].add
                   THEN [ parameters |-> Triggers[v][n], by |-> "apply" ]
                   ELSE @[n] ]]
        /\ worker' = [worker EXCEPT
               ![m].phase = "reporting",
               ![m].failed = failed,
               ![m].result = IF failed = {} THEN "completed"
                             ELSE IF failed = EnabledNodes(v) THEN "failed"
                             ELSE "partial"]
    /\ UNCHANGED <<roles, database, polling, arriving, leaving, pass, recovering,
                   requests>>

Outcome(result) ==
    CASE result \in {"completed", "unpublished"} -> "completed"
      [] result = "partial" -> "partial_success"
      [] result \in {"failed", "thrown", "version-missing"} -> "failed"

\* Mutant: the rows of an unpublished workflow are kept.
StatusesKept(w) ==
    IF w.result \in {"completed", "partial", "failed"}
    THEN EnabledNodes(w.target) \ w.failed ELSE statuses

\* The trigger status rows after a result: those of an error that says nothing
\* of the triggers stay as they were.
StatusesAfter(w) ==
    CASE w.result \in {"completed", "partial", "failed"} -> EnabledNodes(w.target) \ w.failed
      [] w.result = "unpublished" -> {}
      [] OTHER -> statuses

\* report: the outcome goes to a row that is still in progress, together with
\* the status rows; otherwise the transaction fails and both stay as they are.
Report(m) ==
    /\ worker[m].phase = "reporting"
    /\ \/ /\ inProgress # None /\ inProgress.id = worker[m].id
          /\ inProgress' = None
          /\ outcome' = Outcome(worker[m].result)
          /\ statuses' = StatusesAfter(worker[m])
          /\ UNCHANGED trouble
       \/ /\ inProgress = None \/ inProgress.id # worker[m].id
          /\ UNCHANGED <<inProgress, outcome, statuses, trouble>>
       \/ /\ Trouble
          /\ UNCHANGED <<inProgress, outcome, statuses>>
    /\ worker' = [worker EXCEPT ![m] = Idle]
    /\ UNCHANGED <<roles, active, published, pending, polling, arriving, leaving,
                   running, pass, recovering, requests>>

\* publicationOutboxLeaseSeconds have passed since the claim.
LeaseExpires ==
    /\ inProgress # None
    /\ ~inProgress.expired
    /\ SlowApplies \/ \A m \in Mains : ~Holds(m, inProgress.id)
    /\ inProgress' = [inProgress EXCEPT !.expired = TRUE]
    /\ UNCHANGED <<election, active, published, pending, outcome, statuses, drains,
                   running, pass, recovering, requests>>

-----------------------------------------------------------------------------
\* The reconciler.

InFlight == pending # None \/ inProgress # None

PassGoes(m, next) ==
    /\ pass' = [pass EXCEPT ![m] = next]
    /\ UNCHANGED <<election, drains, recovering, requests>>

\* Mutant: what runs is compared with what is published.
SurplusToPublished(m) == Registered(m) # {} /\ published = None

Surplus(m) == Registered(m) # {} /\ active = None

\* reconcile, findSurplusWorkflowIds
FindSurplus(m) ==
    /\ m \in leaders
    /\ "start" \notin arriving[m]
    /\ pass[m] = "idle"
    /\ PassGoes(m, IF Surplus(m) THEN "surplus" ELSE "missing")
    /\ UNCHANGED <<database, running>>

\* removeGhostTriggers: looks again in the lock, and removes.
CheckSurplus(m) ==
    /\ pass[m] = "surplus"
    /\ ~Locked(m)
    /\ PassGoes(m, IF active # None \/ InFlight THEN "missing" ELSE "removing")
    /\ UNCHANGED <<database, running>>

RemoveSurplus(m) ==
    /\ pass[m] = "removing"
    /\ running' = [running EXCEPT ![m] = Nothing]
    /\ PassGoes(m, "missing")
    /\ UNCHANGED database

\* findMissingActiveWorkflows
Missing(m) == statuses \ Registered(m)
FindMissing(m) ==
    /\ pass[m] = "missing"
    /\ PassGoes(m, IF ~InFlight /\ Missing(m) # {} THEN "enqueueing" ELSE "idle")
    /\ UNCHANGED <<database, running>>

\* republishMissingWorkflows: starts to poll without looking at the role again.
RepublishMissing(m) ==
    /\ pass[m] = "enqueueing"
    /\ EnqueueUnlessPending
    /\ polling' = polling \union {m}
    /\ pass' = [pass EXCEPT ![m] = "idle"]
    /\ UNCHANGED <<election, active, published, inProgress, outcome, statuses, arriving,
                   worker, leaving, running, recovering, requests>>

-----------------------------------------------------------------------------
\* Triggers that fail while they run.

\* recoverFromRuntimeTriggerFailure: the trigger is taken down and started
\* again as it was, whatever has become of the workflow or the role meanwhile.
TriggerFails(m, n) ==
    /\ running[m][n] # None
    /\ Trouble
    /\ recovering' = [recovering EXCEPT ![m] = @ \union {<<n, running[m][n].parameters>>}]
    /\ running' = [running EXCEPT ![m][n] = None]
    /\ UNCHANGED <<roles, database, drains, pass, requests>>

Recover(m, r) ==
    /\ r \in recovering[m]
    /\ recovering' = [recovering EXCEPT ![m] = @ \ {r}]
    /\ \/ running' = [running EXCEPT ![m][r[1]] = [ parameters |-> r[2], by |-> "recovery" ]]
       \/ UNCHANGED running
    /\ UNCHANGED <<election, database, drains, pass, requests>>

-----------------------------------------------------------------------------
ElectionStep ==
    /\ \/ KeyExpires
       \/ \E m \in Mains : SeesVacancy(m) \/ ClaimFails(m) \/ KeepsLeadership(m)
    /\ UNCHANGED <<database, drains, running, pass, recovering, requests>>

RoleStep(m) ==
    \/ Start(m) \/ Takeover(m) \/ Demote(m) \/ TakeDown(m)
    \/ \E kind \in {"start", "takeover"} : Arrive(m, kind)
ConsumerStep(m) ==
    HandBack(m) \/ Resolve(m) \/ Remove(m) \/ Advance(m) \/ Activate(m) \/ Report(m)
ReconcilerStep(m) ==
    FindSurplus(m) \/ CheckSurplus(m) \/ RemoveSurplus(m) \/ FindMissing(m)
    \/ RepublishMissing(m)
RecoveryStep(m) == \E r \in Nodes \X Contents : Recover(m, r)

Next ==
    \/ ElectionStep
    \/ Publish \/ Unpublish \/ LeaseExpires
    \/ \E m \in Mains :
        \/ RoleStep(m) \/ Claim(m) \/ ConsumerStep(m) \/ ReconcilerStep(m)
        \/ RecoveryStep(m) \/ WakeUp(m) \/ Crash(m) \/ Shutdown(m)
        \/ \E n \in Nodes : TriggerFails(m, n)

Spec == Init /\ [][Next]_vars

\* Mains start and look at the key again and again, the key of a dead main
\* expires, statements and triggers end, leases run out, the reconciler's
\* interval ticks.  Claims are strongly fair: a consumer looks for rows again
\* and again and meets a row that is pending again and again.
FairSpec ==
    /\ Spec
    /\ WF_vars(ElectionStep)
    /\ WF_vars(LeaseExpires)
    /\ \A m \in Mains :
        /\ WF_vars(RoleStep(m))
        /\ WF_vars(ConsumerStep(m))
        /\ WF_vars(ReconcilerStep(m))
        /\ WF_vars(RecoveryStep(m))
        /\ SF_vars(Claim(m))

-----------------------------------------------------------------------------
\* Safety.

\* The newest request is never lost and never overtaken: a pending row carries
\* it, or else the row in progress does, or else it has been carried out or has
\* been answered with a failure.  Enqueues of requests, of a new leader and of
\* the reconciler, rows handed back and rows dropped must keep it so.
IsNewest(row) == row # None /\ (active = None \/ row.version = active)
NewestRequestIsQueued ==
    \/ IsNewest(pending)
    \/ pending = None /\ (IsNewest(inProgress) \/ published = active \/ outcome = "failed")

\* apply: "Serialized per workflow" - two mains never apply rows of one
\* workflow at the same time, whoever of them is the leader.
SerializedPerWorkflow ==
    \A m, n \in Mains : Applies(m) /\ Applies(n) => m = n

\* After a completed publication with nothing in flight the three tables agree:
\* the version wanted, the version published, and the triggers recorded for it,
\* on which the reconciler and the next handoff rely.
CompletedTablesAgree ==
    ~InFlight /\ outcome = "completed"
        => published = active /\ statuses = EnabledNodes(published)

\* A follower that is done with taking triggers down runs none, unless a broken
\* trigger was started again behind the lock.
FollowerRunsNothing ==
    \A m \in up \ (leaders \union leaving) :
        ~Locked(m) => \A n \in Registered(m) : running[m][n].by = "recovery"

-----------------------------------------------------------------------------
\* Liveness.

\* The main that owns the key ends up as the only leader.
LeadershipSettles == <>[](up # {} => leaders = {leaderKey})

\* The outbox empties, and the version wanted is the version published unless a
\* failure was reported.
PublicationSettles ==
    <>[](up # {} => ~InFlight /\ (published = active \/ outcome = "failed"))

\* The leader ends up with what is recorded: of a published workflow every
\* trigger recorded as running runs, by its node at least, of any other none.  What
\* went missing or stayed behind, in a change of the role or of itself, is put right.
TriggersConverge ==
    <>[](\A m \in leaders :
            IF active = None THEN Registered(m) = {}
                             ELSE statuses \subseteq Registered(m))
=============================================================================
