--------------------------- MODULE ExecutionControl ---------------------------
(***************************************************************************)
(* Executions of a main in regular mode, from the row in the database to   *)
(* the end of the run: the concurrency limit (ConcurrencyControlService,   *)
(* ConcurrencyQueue), the registry of runs in memory (ActiveExecutions),   *)
(* the runs (WorkflowRunner) and the timers that wake waiting executions   *)
(* (WaitTracker).  The status of an execution is all that survives the     *)
(* process.                                                                *)
(*                                                                         *)
(* A call is one call of WorkflowRunner.run.  It creates its execution or  *)
(* resumes one, and may be superseded while it has not ended, so two calls *)
(* of one execution can be alive.  What happens between two awaits is one  *)
(* action.  A promise callback runs with the action that settles it.       *)
(***************************************************************************)
EXTENDS Integers, FiniteSets, Sequences

CONSTANTS
    MaxExecutions, \* bound on the rows
    Limits,        \* values of N8N_CONCURRENCY_PRODUCTION_LIMIT
    MaxWaits,      \* bound on the waits of all executions
    MaxRequests,   \* bound on stops, time-outs and calls of webhooks
    MaxEnds,       \* bound on the ends of the process
    None

Executions == 1..MaxExecutions
Calls == Executions \X {1, 2}
ExecutionOf(c) == c[1]

ASSUME ExecutionAssumption ==
    /\ Limits \subseteq Nat \ {0}
    /\ {MaxExecutions, MaxWaits, MaxRequests, MaxEnds} \subseteq Nat
    /\ None \notin Calls

VARIABLES
    limit,     \* the configured limit, which never changes
    status,    \* status[e]: column of the execution's row
    process,   \* the main: "up", "stopping" or "down"
    calls,     \* calls[c]: progress of the call
    capacity,  \* capacity of the ConcurrencyQueue
    queue,     \* its queue
    active,    \* activeExecutions[e]: the call whose promise it holds, status
    timers,    \* executions in waitingExecutions
    polled,    \* answer of getWaitingExecutions not looked at yet
    waits,     \* waits so far
    requests,  \* stops, time-outs and calls of webhooks so far
    ends       \* ends of the process so far

frame == <<limit, waits, requests, ends>>
vars == <<status, process, calls, capacity, queue, active, timers, polled,
          frame>>

Phases == {"none", "arriving", "queued", "admitted", "registered",
           "executing", "saved"}
Call == [kind : {"create", "resume"}, phase : Phases, reserved : BOOLEAN,
         attached : BOOLEAN, cancelled : BOOLEAN, waiting : BOOLEAN]
Arriving(kind) ==
    [kind |-> kind, phase |-> "arriving", reserved |-> FALSE,
     attached |-> FALSE, cancelled |-> FALSE, waiting |-> FALSE]
NoCall == [Arriving("create") EXCEPT !.phase = "none"]
NoEntry == [call |-> None, status |-> "absent"]

Held == {c \in Calls : calls[c].reserved}
Waits == waits < MaxWaits /\ waits' = waits + 1
Requested == requests < MaxRequests /\ requests' = requests + 1
Ends == ends < MaxEnds /\ ends' = ends + 1

FreshMemory ==
    /\ capacity' = limit
    /\ queue' = <<>>
    /\ active' = [e \in Executions |-> NoEntry]
    /\ timers' = {}
    /\ polled' = {}

Init ==
    /\ limit \in Limits
    /\ status = [e \in Executions |-> "absent"]
    /\ process = "up"
    /\ calls = [c \in Calls |-> NoCall]
    /\ capacity = limit
    /\ queue = <<>>
    /\ active = [e \in Executions |-> NoEntry]
    /\ timers = {} /\ polled = {}
    /\ waits = 0 /\ requests = 0 /\ ends = 0
-----------------------------------------------------------------------------
(* The concurrency limit. *)

\* Mutant: capacity is counted, but the queue is not looked at.
OnlyCount(q, cs) == capacity' = capacity + 1 /\ queue' = q /\ calls' = cs

\* One more unit of capacity, and the next call in the queue q is let through.
ResolveNext(q, cs) ==
    /\ capacity' = capacity + 1
    /\ IF q = <<>>
       THEN queue' = q /\ calls' = cs
       ELSE /\ queue' = Tail(q)
            /\ calls' = [cs EXCEPT ![Head(q)].phase = "admitted",
                                   ![Head(q)].reserved = TRUE]

\* A reservation is released once, and counts while the limit is enforced.
\* holder: the calls it may belong to, none or one.
Release(holder, cs) ==
    LET returned == {c \in holder : calls[c].reserved}
        rest == [c \in Calls |->
                    IF c \in holder THEN [cs[c] EXCEPT !.reserved = FALSE]
                                    ELSE cs[c]]
    IN IF process = "up" /\ returned # {}
       THEN ResolveNext(queue, rest)
       ELSE calls' = rest /\ UNCHANGED <<capacity, queue>>

Reserve(c) ==
    /\ calls[c].phase = "arriving"
    /\ IF process = "up"
       THEN /\ capacity' = capacity - 1
            /\ IF capacity' < 0
               THEN /\ queue' = Append(queue, c)
                    /\ calls' = [calls EXCEPT ![c].phase = "queued"]
               ELSE /\ calls' = [calls EXCEPT ![c].phase = "admitted",
                                              ![c].reserved = TRUE]
                    /\ UNCHANGED queue
       ELSE /\ calls' = [calls EXCEPT ![c].phase = "admitted"]
            /\ UNCHANGED <<capacity, queue>>
    /\ UNCHANGED <<status, process, active, timers, polled, frame>>
-----------------------------------------------------------------------------
(* The registry of runs. *)

\* The row, with the next id, exists before the capacity is asked for.
Create(e) ==
    /\ process = "up"
    /\ status[e] = "absent"
    /\ \A d \in 1..(e - 1) : status[d] # "absent"
    /\ status' = [status EXCEPT ![e] = "new"]
    /\ calls' = [calls EXCEPT ![<<e, 1>>] = Arriving("create")]
    /\ UNCHANGED <<process, capacity, queue, active, timers, polled, frame>>

\* Mutant: any execution that has not ended may be resumed.
MayResumeUnfinished(e) == status[e] \in {"new", "running", "waiting"}

\* A resumption goes on only if it finds the row waiting.
MayResume(e) == status[e] = "waiting"

Add(c) ==
    LET e == ExecutionOf(c)
    IN /\ calls[c].phase = "admitted"
       /\ calls[c].kind = "resume" => MayResume(e)
       /\ status' = [status EXCEPT ![e] = "running"]
       /\ calls' = [calls EXCEPT ![c].phase = "registered"]
       /\ active' = [active EXCEPT ![e] = [call |-> c, status |-> "running"]]
       /\ UNCHANGED <<process, capacity, queue, timers, polled, frame>>

\* Mutant: the error leaves the reservation as it is.
RefuseKeeping(c) ==
    calls' = [calls EXCEPT ![c] = NoCall] /\ UNCHANGED <<capacity, queue>>

\* The error that a refused resumption ends with gives its capacity back.
RefuseRelease(c) == Release({c}, [calls EXCEPT ![c] = NoCall])

Refuse(c) ==
    /\ calls[c].phase = "admitted"
    /\ calls[c].kind = "resume"
    /\ ~ MayResume(ExecutionOf(c))
    /\ RefuseRelease(c)
    /\ UNCHANGED <<status, process, active, timers, polled, frame>>

\* The promise of the entry of e is settled: the call it belongs to, whichever
\* that is, releases its capacity.  A waiting entry stays.
Settle(e, cs) ==
    /\ Release({active[e].call} \ {None}, cs)
    /\ active' = [active EXCEPT ![e] =
                     IF @.status = "waiting" THEN [@ EXCEPT !.call = None]
                                             ELSE NoEntry]
-----------------------------------------------------------------------------
(* The runs. *)

\* The row is set to running whatever it says by now, and the workflow starts.
\* Without an entry to attach it to, nobody will hear of its end.
Begin(c) ==
    LET e == ExecutionOf(c)
    IN /\ calls[c].phase = "registered"
       /\ status' = [status EXCEPT ![e] = "running"]
       /\ calls' = [calls EXCEPT ![c].phase = "executing",
                                 ![c].attached = active[e] # NoEntry]
       /\ UNCHANGED <<process, capacity, queue, active, timers, polled, frame>>

\* A node puts the execution to wait: the run goes on to its end.
PutToWait(c) ==
    LET e == ExecutionOf(c)
    IN /\ calls[c].phase = "executing" /\ ~ calls[c].waiting
       /\ active[e] # NoEntry
       /\ Waits
       /\ calls' = [calls EXCEPT ![c].waiting = TRUE]
       /\ active' = [active EXCEPT ![e].status = "waiting"]
       /\ UNCHANGED <<status, process, capacity, queue, timers, polled,
                      limit, requests, ends>>

\* Mutant: the result is written whatever the row says.
SavedAlways(e, result) == [status EXCEPT ![e] = result]

\* The conditional write of a result: a canceled row stays as it is.
Saved(e, result) ==
    IF status[e] = "canceled" THEN status ELSE [status EXCEPT ![e] = result]

\* A check before the run fails.
FailExecution(c) ==
    /\ calls[c].phase = "registered"
    /\ status' = Saved(ExecutionOf(c), "error")
    /\ calls' = [calls EXCEPT ![c].phase = "saved"]
    /\ UNCHANGED <<process, capacity, queue, active, timers, polled, frame>>

\* The run ends.  What a cancelled run did is not saved.
Save(c) ==
    /\ calls[c].phase = "executing"
    /\ \E result \in IF calls[c].waiting THEN {"waiting"}
                                         ELSE {"success", "error"} :
          status' = IF calls[c].cancelled THEN status
                    ELSE Saved(ExecutionOf(c), result)
    /\ calls' = IF calls[c].attached THEN [calls EXCEPT ![c].phase = "saved"]
                                     ELSE [calls EXCEPT ![c] = NoCall]
    /\ UNCHANGED <<process, capacity, queue, active, timers, polled, frame>>

FinalizeExecution(c) ==
    LET e == ExecutionOf(c)
        gone == [calls EXCEPT ![c] = NoCall]
    IN /\ calls[c].phase = "saved"
       /\ IF active[e] = NoEntry
          THEN calls' = gone /\ UNCHANGED <<capacity, queue, active>>
          ELSE Settle(e, gone)
       /\ UNCHANGED <<status, process, timers, polled, frame>>

CallStep(c) ==
    \/ Reserve(c) \/ Add(c) \/ Refuse(c) \/ Begin(c) \/ FailExecution(c)
    \/ Save(c) \/ FinalizeExecution(c)
-----------------------------------------------------------------------------
(* A user stops an execution. *)

Stoppable(e) == process # "down" /\ status[e] \in {"new", "waiting", "running"}
QueuedCalls(e) == {i \in 1..Len(queue) : ExecutionOf(queue[i]) = e}

\* The call leaves the queue, and another one is let through.
Remove(i) ==
    ResolveNext(SubSeq(queue, 1, i - 1) \o SubSeq(queue, i + 1, Len(queue)),
                [calls EXCEPT ![queue[i]] = NoCall])

StopQueued(e) ==
    /\ Stoppable(e)
    /\ process = "up"
    /\ \E i \in QueuedCalls(e) :
          /\ \A j \in QueuedCalls(e) : i <= j
          /\ Remove(i)
    /\ status' = [status EXCEPT ![e] = "canceled"]
    /\ UNCHANGED <<process, active, timers, polled>>

\* A waiting entry is only forgotten; a running one is cancelled and settled.
StopActive(e) ==
    IF active[e].status = "running"
    THEN LET c == active[e].call
         IN Settle(e, [calls EXCEPT ![c].cancelled = calls[c].attached])
    ELSE /\ active' = [active EXCEPT ![e] = NoEntry]
         /\ UNCHANGED <<calls, capacity, queue>>

StopDuringRun(e) ==
    /\ Stoppable(e)
    /\ process = "up" => QueuedCalls(e) = {}
    /\ StopActive(e)
    /\ timers' = timers \ {e}
    /\ status' = [status EXCEPT ![e] = "canceled"]
    /\ UNCHANGED <<process, polled>>

Stop(e) ==
    /\ Requested
    /\ StopQueued(e) \/ StopDuringRun(e)
    /\ UNCHANGED <<limit, waits, ends>>

\* The time limit of a run stops the entry of its execution.  The row becomes
\* canceled when that cancels a run.
TimeOut(c) ==
    LET e == ExecutionOf(c)
        d == active[e].call
    IN /\ calls[c].phase \in {"executing", "saved"} /\ calls[c].attached
       /\ active[e] # NoEntry
       /\ Requested
       /\ StopActive(e)
       /\ status' = IF active[e].status = "running" /\ calls[d].attached
                    THEN [status EXCEPT ![e] = "canceled"] ELSE status
       /\ UNCHANGED <<process, timers, polled, limit, waits, ends>>
-----------------------------------------------------------------------------
(* Waiting executions. *)

Waiting == {e \in Executions : status[e] = "waiting"}

GetWaitingExecutions ==
    /\ process = "up"
    /\ polled = {}
    /\ ~ Waiting \subseteq timers
    /\ polled' = Waiting
    /\ UNCHANGED <<status, process, calls, capacity, queue, active, timers,
                   frame>>

SetTimers ==
    /\ polled # {}
    /\ timers' = timers \cup polled
    /\ polled' = {}
    /\ UNCHANGED <<status, process, calls, capacity, queue, active, frame>>

FreeCalls(e) == {c \in Calls : ExecutionOf(c) = e /\ calls[c].phase = "none"}

\* A new call of run for e; two at a time bound the model.
Resume(e) ==
    \E c \in FreeCalls(e) :
        /\ \A d \in FreeCalls(e) : c[2] <= d[2]
        /\ calls' = [calls EXCEPT ![c] = Arriving("resume")]

\* Mutant: an execution that has an entry in memory is left alone.
FinishedOrActive(e) == status[e] = "success" \/ active[e] # NoEntry

Finished(e) == status[e] = "success"

\* The timer of a finished execution only throws.
StartExecution(e) ==
    /\ e \in timers
    /\ timers' = timers \ {e}
    /\ IF Finished(e) THEN UNCHANGED calls ELSE Resume(e)
    /\ UNCHANGED <<status, process, capacity, queue, active, polled, frame>>

\* The webhook of a waiting execution is called.
WaitingWebhook(e) ==
    /\ process = "up"
    /\ status[e] = "waiting"
    /\ Requested
    /\ Resume(e)
    /\ UNCHANGED <<status, process, capacity, queue, active, timers, polled,
                   limit, waits, ends>>
-----------------------------------------------------------------------------
(* The process. *)

\* The limit is off before the queue would be emptied, so the queue stays.
Shutdown ==
    /\ process = "up"
    /\ Ends
    /\ process' = "stopping"
    /\ timers' = {}
    /\ active' = [e \in Executions |->
                     IF active[e].status = "waiting" THEN NoEntry
                                                     ELSE active[e]]
    /\ UNCHANGED <<status, calls, capacity, queue, polled, limit, waits,
                   requests>>

Stopped ==
    /\ process' = "down"
    /\ calls' = [c \in Calls |-> NoCall]
    /\ FreshMemory
    /\ UNCHANGED <<status, limit, waits, requests>>

\* Every run has ended, or the time to do so is over.
Exit == process = "stopping" /\ Stopped /\ UNCHANGED ends

Crash ==
    /\ process = "up"
    /\ Ends
    /\ Stopped

\* What was running has crashed, what was new is resumed.
Restart ==
    /\ process = "down"
    /\ process' = "up"
    /\ status' = [e \in Executions |->
                     IF status[e] = "running" THEN "crashed" ELSE status[e]]
    /\ calls' = [c \in Calls |->
                    IF status[ExecutionOf(c)] = "new" /\ c[2] = 1
                    THEN Arriving("resume") ELSE NoCall]
    /\ UNCHANGED <<capacity, queue, active, timers, polled, frame>>

Next ==
    \/ \E c \in Calls : CallStep(c) \/ PutToWait(c) \/ TimeOut(c)
    \/ \E e \in Executions :
          \/ Create(e) \/ Stop(e) \/ StartExecution(e) \/ WaitingWebhook(e)
    \/ GetWaitingExecutions \/ SetTimers
    \/ Shutdown \/ Exit \/ Crash \/ Restart

Spec == Init /\ [][Next]_vars

\* What the process does by itself: promises are served, timers fire, polls
\* recur, runs end and a supervisor restarts what is down.
Progress ==
    \/ \E c \in Calls : CallStep(c)
    \/ \E e \in Executions : StartExecution(e)
    \/ GetWaitingExecutions \/ SetTimers \/ Exit \/ Restart

\* The process is not idle while it has something to do.
FairSpec == Spec /\ WF_vars(Progress)
-----------------------------------------------------------------------------
(* Properties. *)

Statuses == {"absent", "new", "running", "waiting", "success", "error",
             "canceled", "crashed"}

\* Every variable has the values its comment says, and an entry holds the
\* promise of a live call of its execution: always while it runs.
TypeOK ==
    /\ limit \in Limits
    /\ status \in [Executions -> Statuses]
    /\ process \in {"up", "stopping", "down"}
    /\ calls \in [Calls -> Call]
    /\ capacity \in Int
    /\ queue \in Seq(Calls)
    /\ active \in [Executions -> [call : Calls \cup {None},
                                  status : {"absent", "running", "waiting"}]]
    /\ \A e \in Executions :
          /\ active[e].status = "running" => active[e].call # None
          /\ active[e].call # None =>
                /\ ExecutionOf(active[e].call) = e
                /\ calls[active[e].call].phase
                      \in {"registered", "executing", "saved"}
    /\ timers \in SUBSET Executions
    /\ polled \in SUBSET Executions
    /\ waits \in Nat /\ requests \in Nat /\ ends \in Nat

\* Units of capacity that are in nobody's hands.
Lost == limit - capacity - Cardinality(Held) - Len(queue)

\* Whatever refusals, stops, failures and ends of runs there were, no unit of
\* capacity is given back twice, and none is lost but by an execution that was
\* put to wait: at most one for each wait.
SlotsAreLostOnlyToWaits == process = "up" => Lost \in 0..waits

\* No call is kept in the queue while there is a free slot.
NoIdleSlot ==
    process = "up" /\ queue # <<>> => Cardinality(Held) + Lost >= limit

\* The queue holds the calls that wait for capacity, each once.
QueueHoldsTheQueued ==
    process = "up" =>
        /\ \A i, j \in 1..Len(queue) : queue[i] = queue[j] => i = j
        /\ {queue[i] : i \in 1..Len(queue)}
              = {c \in Calls : calls[c].phase = "queued"}

\* However often a timer, a webhook and a restart resume one execution, it is
\* run by one call at a time.
OneRunPerExecution ==
    \A c, d \in Calls :
        /\ ExecutionOf(c) = ExecutionOf(d)
        /\ calls[c].phase \in {"registered", "executing"}
        /\ calls[d].phase \in {"registered", "executing"}
        => c = d

\* A completed run never overwrites the status a user has canceled.  Only a
\* run that was admitted before the stop sets it to running again.
CancelIsNotOverwritten ==
    [][\A e \in Executions :
          status[e] = "canceled" => status'[e] \in {"canceled", "running"}]_vars

\* Again and again nobody is in the queue, unless every slot has been lost:
\* no throttled call is forgotten.
QueueDrains == []<>(queue = <<>> \/ Lost >= limit)

\* Again and again no execution waits, unless every slot has been lost: each
\* is resumed or ended, across stops, restarts, webhooks that come first and
\* polls that answer late.
WaitingIsResumed == []<>(Waiting = {} \/ Lost >= limit)

\* "If so, start running any such executions concurrently up to the
\* concurrency limit" (start.ts:500): an execution that was enqueued when the
\* process stopped is started by the next one.
EnqueuedExecutionsStart ==
    \A e \in Executions :
        status[e] = "new" ~> (status[e] # "new" \/ Lost >= limit)
=============================================================================
