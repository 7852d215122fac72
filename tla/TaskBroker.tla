------------------------------ MODULE TaskBroker ------------------------------
(***************************************************************************)
(* The task broker, its runners and the requester, between the moment a    *)
(* workflow asks for code to be run and the moment it has an answer.       *)
(*                                                                         *)
(* Broker and requester live in one process: a handler and what follows    *)
(* its resolved promises run before the next message or timer, so a        *)
(* handler is one action.  Each runner is a process behind a WebSocket:    *)
(* two FIFO channels and a connection either side may lose.  A runner      *)
(* lives once; the one that replaces it connects under a new id.           *)
(*                                                                         *)
(* The broker uses an offer at most once and then names the task, so a     *)
(* task is identified by its offer: the runner and a serial number.        *)
(***************************************************************************)
EXTENDS Naturals, FiniteSets, SequencesExt

CONSTANTS
    Runners,
    Requests,
    Kind,            \* Kind[x]: task type of a runner or a request
    MaxConcurrency,  \* tasks a runner takes at a time
    MaxOffers,       \* bound on the offers of one runner
    None

ASSUME BrokerAssumption ==
    /\ MaxConcurrency \in Nat \ {0}
    /\ MaxOffers \in Nat
    /\ None \notin Requests \cup (Runners \X Nat)

VARIABLES
    external,   \* the configured mode of the runners, which never changes
    launchers,  \* who of them is an external launcher, which never changes
    known,      \* runners the broker has a connection to
    draining,   \* the broker is shutting down
    requests,   \* pendingTaskRequests
    busy,       \* requests with acceptInProgress
    offers,     \* pendingTaskOffers
    accepting,  \* accepting[o]: the request whose acceptOffer waits for o
    tasks,      \* tasks of the broker
    armed,      \* tasks with a timeout
    reply,      \* reply[q]: the promise of startTask
    taskOf,     \* taskOf[q]: the task the requester was told of
    proc,       \* proc[r]: life cycle of the runner
    open,       \* open[r]: openOffers
    status,     \* status[o]: the entry of o in runningTasks
    sent,       \* offers made so far
    toRunner, toBroker

config == <<external, launchers>>
brokerVars ==
    <<config, known, draining, requests, busy, offers, accepting, tasks, armed>>
requesterVars == <<reply, taskOf>>
runnerVars == <<proc, open, status, sent>>
vars == <<brokerVars, requesterVars, runnerVars, toRunner, toBroker>>

Offers == Runners \X (1..MaxOffers)
RunnerOf(o) == o[1]

RunnerMessage ==
    [type : {"offer", "accepted", "declined", "finished"}, task : Offers]
BrokerMessage == [type : {"registered", "drain"}]
                     \cup [type : {"offeraccept", "settings", "cancel"}, task : Offers]

TypeOK ==
    /\ external \in BOOLEAN /\ launchers \subseteq Runners
    /\ known \subseteq Runners
    /\ draining \in BOOLEAN
    /\ requests \in Seq(Requests) /\ IsInjective(requests)
    /\ busy \subseteq Requests
    /\ offers \in Seq(Offers) /\ IsInjective(offers)
    /\ accepting \in [Offers -> Requests \cup {None}]
    /\ tasks \subseteq Offers /\ armed \subseteq tasks
    /\ reply \in [Requests -> {"idle", "waiting", "started", "answered",
                               "failed", "expired", "cancelled"}]
    /\ taskOf \in [Requests -> Offers \cup {None}]
    /\ proc \in [Runners -> {"starting", "connected", "serving", "draining", "gone"}]
    /\ open \in [Runners -> SUBSET Offers]
    /\ status \in [Offers -> {"none", "waitingForSettings", "running",
                              "cancelled", "timeout"}]
    /\ sent \in [Runners -> 0..MaxOffers]
    /\ toRunner \in [Runners -> Seq(BrokerMessage)]
    /\ toBroker \in [Runners -> Seq(RunnerMessage)]

Init ==
    /\ external \in BOOLEAN
    /\ launchers \in IF external THEN SUBSET Runners ELSE {{}}
    /\ known = {} /\ draining = FALSE
    /\ requests = <<>> /\ busy = {} /\ offers = <<>>
    /\ accepting = [o \in Offers |-> None]
    /\ tasks = {} /\ armed = {}
    /\ reply = [q \in Requests |-> "idle"]
    /\ taskOf = [q \in Requests |-> None]
    /\ proc = [r \in Runners |-> "starting"]
    /\ open = [r \in Runners |-> {}]
    /\ status = [o \in Offers |-> "none"]
    /\ sent = [r \in Runners |-> 0]
    /\ toRunner = [r \in Runners |-> <<>>]
    /\ toBroker = [r \in Runners |-> <<>>]

-----------------------------------------------------------------------------
(* Channels.  Nobody reads what is sent to a runner that is gone, nor what  *)
(* a runner sends after the broker has closed its connection.               *)

Told(to, r, msg) == IF proc[r] = "gone" THEN to
                    ELSE [to EXCEPT ![r] = Append(@, msg)]
Tell(r, msg) == toRunner' = Told(toRunner, r, msg)
Say(r, msgs) == toBroker' = IF r \in known
                            THEN [toBroker EXCEPT ![r] = @ \o msgs] ELSE toBroker

\* Type and task of the message a side takes next.
Hears(r, type, o) ==
    /\ r \in known /\ toBroker[r] # <<>>
    /\ Head(toBroker[r]) = [type |-> type, task |-> o]
Gets(r, type) ==
    /\ proc[r] # "gone" /\ toRunner[r] # <<>>
    /\ Head(toRunner[r]).type = type
    /\ toRunner' = [toRunner EXCEPT ![r] = Tail(@)]
Consume(r) == toBroker' = [toBroker EXCEPT ![r] = Tail(@)]

-----------------------------------------------------------------------------
(* The broker. *)

Without(q) == RemoveAt(requests, CHOOSE i \in DOMAIN requests : requests[i] = q)

\* The queue of offers without some of them, place by place.
Kept(queue, dropped) ==
    LET upTo[i \in 0..Len(queue)] ==
            IF i = 0 THEN <<>>
            ELSE IF queue[i] \in dropped THEN upTo[i - 1]
            ELSE Append(upTo[i - 1], queue[i])
    IN  upTo[Len(queue)]

\* The validity of a launcher's offer never ends; any other that has waited in
\* the queue may have run out by now.
Expirable(os) == SUBSET {o \in ToSet(os) : RunnerOf(o) \notin launchers}

\* Mutant: a request whose accept is in progress is matched again.
TakenNever(s, q) == FALSE
Taken(s, q) == q \in s.busy

\* One turn of the loop: the oldest offer of the request's type is accepted.
Match(s, q) ==
    LET fit == {i \in DOMAIN s.offers : Kind[RunnerOf(s.offers[i])] = Kind[q]}
    IN  IF Taken(s, q) \/ fit = {} THEN s
        ELSE LET i == Min(fit)
                 o == s.offers[i]
             IN  [ offers    |-> RemoveAt(s.offers, i),
                   busy      |-> s.busy \cup {q},
                   accepting |-> [s.accepting EXCEPT ![o] = q],
                   to        |-> Told(s.to, RunnerOf(o),
                                      [type |-> "offeraccept", task |-> o]) ]

\* expireTasks, then every pending request in order.
SettleTasks(reqs, offs, expired) ==
    LET after[i \in 0..Len(reqs)] ==
            IF i = 0
            THEN [ offers |-> Kept(offs, expired), busy |-> busy,
                   accepting |-> accepting, to |-> toRunner ]
            ELSE Match(after[i - 1], reqs[i])
        s == after[Len(reqs)]
    IN  /\ offers' = s.offers /\ busy' = s.busy
        /\ accepting' = s.accepting /\ toRunner' = s.to

TaskRequested(q) ==
    /\ reply[q] = "idle"
    /\ IF draining
       THEN /\ reply' = [reply EXCEPT ![q] = "expired"]
            /\ UNCHANGED <<requests, offers, busy, accepting, toRunner>>
       ELSE /\ reply' = [reply EXCEPT ![q] = "waiting"]
            /\ requests' = Append(requests, q)
            /\ \E expired \in Expirable(offers) :
                   SettleTasks(Append(requests, q), offers, expired)
    /\ UNCHANGED <<config, known, draining, tasks, armed, taskOf, runnerVars,
                   toBroker>>

TaskOffered(r, o) ==
    /\ Hears(r, "offer", o) /\ Consume(r)
    /\ \E expired \in Expirable(offers) :
           SettleTasks(requests, Append(offers, o), expired)
    /\ UNCHANGED <<config, known, draining, requests, tasks, armed, requesterVars,
                   runnerVars>>

\* Whether an accept is in progress or not.
RequestTimesOut(q) ==
    /\ q \in ToSet(requests)
    /\ requests' = Without(q)
    /\ reply' = [reply EXCEPT ![q] = "expired"]
    /\ UNCHANGED <<config, known, draining, busy, offers, accepting, tasks, armed,
                   taskOf, runnerVars, toRunner, toBroker>>

\* Mutant: the request is queued again, though it never left the queue.
GiveUpRequeuing(o) ==
    /\ accepting' = [accepting EXCEPT ![o] = None]
    /\ busy' = busy \ {accepting[o]}
    /\ requests' = Append(requests, accepting[o])
\* The request waits again; the next offer or request settles it.
GiveUpOn(o) ==
    /\ accepting' = [accepting EXCEPT ![o] = None]
    /\ busy' = busy \ {accepting[o]}
    /\ UNCHANGED requests

AcceptTimesOut(o) ==
    /\ accepting[o] # None
    /\ GiveUpOn(o)
    /\ UNCHANGED <<config, known, draining, offers, tasks, armed, requesterVars,
                   runnerVars, toRunner, toBroker>>

\* Rejected or deferred; a deferral also starts the request's timer anew.
RunnerDeclined(r, o) ==
    /\ Hears(r, "declined", o) /\ Consume(r)
    /\ IF accepting[o] # None THEN GiveUpOn(o)
       ELSE UNCHANGED <<accepting, busy, requests>>
    /\ UNCHANGED <<config, known, draining, offers, tasks, armed, requesterVars,
                   runnerVars, toRunner>>

\* The requester learns the task and sends its settings, the task's timer starts.
StartTask(q, o) ==
    /\ requests' = Without(q)
    /\ tasks' = tasks \cup {o} /\ armed' = armed \cup {o}
    /\ reply' = [reply EXCEPT ![q] = "started"]
    /\ taskOf' = [taskOf EXCEPT ![q] = o]
    /\ Tell(RunnerOf(o), [type |-> "settings", task |-> o])

\* "Failed to find task request": a task without settings, requester or timer.
LeaveTaskWithoutRequest(o) ==
    /\ tasks' = tasks \cup {o}
    /\ UNCHANGED <<requests, armed, reply, taskOf, toRunner>>

RunnerAccepted(r, o) ==
    LET q == accepting[o]
    IN  /\ Hears(r, "accepted", o) /\ Consume(r)
        /\ accepting' = [accepting EXCEPT ![o] = None]
        /\ \/ q \in ToSet(requests) /\ StartTask(q, o)
           \/ q \notin ToSet(requests) \cup {None} /\ LeaveTaskWithoutRequest(o)
           \/ q = None /\ UNCHANGED <<requests, tasks, armed, requesterVars, toRunner>>
        /\ UNCHANGED <<config, known, draining, busy, offers, runnerVars>>

\* The requester forgets a task it has had an answer for.
Answer(finished, how) ==
    reply' = [q \in Requests |->
                 IF reply[q] = "started" /\ taskOf[q] \in finished THEN how
                 ELSE reply[q]]

Forget(finished) == tasks' = tasks \ finished /\ armed' = armed \ finished

\* taskDoneHandler and taskErrorHandler.
TaskFinished(r, o) ==
    /\ Hears(r, "finished", o) /\ Consume(r)
    /\ Answer({o} \cap tasks, "answered") /\ Forget({o})
    /\ UNCHANGED <<config, known, draining, requests, busy, offers, accepting, taskOf,
                   runnerVars, toRunner>>

\* Mutant: a runner in external mode is told nothing.
NoCancelOnTimeout(o) == UNCHANGED toRunner
\* An external runner is told to cancel, an internal one is killed.
CancelOnTimeout(o) ==
    IF external THEN Tell(RunnerOf(o), [type |-> "cancel", task |-> o])
    ELSE UNCHANGED toRunner

\* Mutant: the task is forgotten before its error is sent.
AnswerForgotten(o) == Answer({o} \cap (tasks \ {o}), "failed")
\* The answer to a task that ran too long.
AnswerTimedOut(o) == Answer({o} \cap tasks, "failed")

Kill(r) ==
    /\ proc' = [proc EXCEPT ![r] = "gone"]
    /\ open' = [open EXCEPT ![r] = {}]
    /\ status' = [o \in Offers |-> IF RunnerOf(o) = r THEN "none" ELSE status[o]]

TaskTimesOut(o) ==
    /\ o \in armed
    /\ AnswerTimedOut(o) /\ Forget({o})
    /\ IF external THEN UNCHANGED <<proc, open, status>> ELSE Kill(RunnerOf(o))
    /\ CancelOnTimeout(o)
    /\ UNCHANGED <<config, known, draining, requests, busy, offers, accepting, taskOf,
                   sent, toBroker>>

\* The execution is cancelled in the workflow: only a task that has started.
CancelTask(q) ==
    /\ reply[q] = "started"
    /\ reply' = [reply EXCEPT ![q] = "cancelled"]
    /\ Forget({taskOf[q]})
    /\ IF taskOf[q] \in tasks
       THEN Tell(RunnerOf(taskOf[q]), [type |-> "cancel", task |-> taskOf[q]])
       ELSE UNCHANGED toRunner
    /\ UNCHANGED <<config, known, draining, requests, busy, offers, accepting, taskOf,
                   runnerVars, toBroker>>

RegisterRunner(r) ==
    /\ proc[r] = "starting" /\ ~ draining
    /\ proc' = [proc EXCEPT ![r] = "connected"]
    /\ known' = known \cup {r}
    /\ Tell(r, [type |-> "registered"])
    /\ UNCHANGED <<config, draining, requests, busy, offers, accepting, tasks, armed,
                   requesterVars, open, status, sent, toBroker>>

\* Close event, failed heartbeat or shutdown.  An accept in progress waits for
\* its own timeout: its task is not among the tasks yet.
DeregisterRunner(r) ==
    LET mine == {o \in tasks : RunnerOf(o) = r}
    IN  /\ r \in known
        /\ known' = known \ {r}
        /\ offers' = Kept(offers, {o \in Offers : RunnerOf(o) = r})
        /\ Answer(mine, "failed") /\ Forget(mine)
        /\ toBroker' = [toBroker EXCEPT ![r] = <<>>]
        /\ UNCHANGED <<config, draining, requests, busy, accepting, taskOf,
                       runnerVars, toRunner>>

StartDraining ==
    /\ ~ draining /\ draining' = TRUE
    /\ toRunner' = [r \in Runners |->
                       IF r \in known /\ proc[r] # "gone"
                       THEN Append(toRunner[r], [type |-> "drain"]) ELSE toRunner[r]]
    /\ UNCHANGED <<config, known, requests, busy, offers, accepting, tasks, armed,
                   requesterVars, runnerVars, toBroker>>

-----------------------------------------------------------------------------
(* A runner. *)

RunningTasks(r) == {o \in Offers : RunnerOf(o) = r /\ status[o] # "none"}

OffersToSend(r, held) ==
    IF proc[r] # "serving" THEN 0
    ELSE Min({MaxConcurrency - held, MaxOffers - sent[r]})

\* sendOffers, after the messages in first: stale offers are dropped, and every
\* slot that is neither open nor running is offered.
SendOffers(r, first, running) ==
    \E keep \in SUBSET open[r] :
        LET n     == OffersToSend(r, Cardinality(keep) + Cardinality(running))
            fresh == [i \in 1..n |-> <<r, sent[r] + i>>]
        IN  /\ open' = [open EXCEPT ![r] = keep \cup ToSet(fresh)]
            /\ sent' = [sent EXCEPT ![r] = @ + n]
            /\ Say(r, first \o [i \in 1..n |-> [type |-> "offer", task |-> fresh[i]]])

ReceiveRegistered(r) ==
    /\ Gets(r, "registered")
    /\ proc' = [proc EXCEPT ![r] = IF @ = "connected" THEN "serving" ELSE @]
    /\ UNCHANGED <<brokerVars, requesterVars, open, status, sent, toBroker>>

\* The interval that starts with broker:runnerregistered.
OfferInterval(r) ==
    /\ r \notin launchers /\ proc[r] = "serving"
    /\ SendOffers(r, <<>>, RunningTasks(r))
    /\ UNCHANGED <<brokerVars, requesterVars, proc, status, toRunner>>

HasOffer(r, o) ==
    /\ proc[r] # "draining"
    /\ Cardinality(RunningTasks(r)) < MaxConcurrency
    /\ o \in open[r]

OfferAccepted(r) ==
    LET o == Head(toRunner[r]).task
    IN  /\ r \notin launchers
        /\ Gets(r, "offeraccept")
        /\ open' = [open EXCEPT ![r] = IF proc[r] = "draining" THEN @ ELSE @ \ {o}]
        /\ IF HasOffer(r, o)
           THEN /\ status' = [status EXCEPT ![o] = "waitingForSettings"]
                /\ Say(r, <<[type |-> "accepted", task |-> o]>>)
           ELSE Say(r, <<[type |-> "declined", task |-> o]>>) /\ UNCHANGED status
        /\ UNCHANGED <<brokerVars, requesterVars, proc, sent>>

ReceiveSettings(r) ==
    LET o == Head(toRunner[r]).task
    IN  /\ Gets(r, "settings")
        /\ status' = [status EXCEPT ![o] =
                         IF @ = "waitingForSettings" THEN "running" ELSE @]
        /\ UNCHANGED <<brokerVars, requesterVars, proc, open, sent, toBroker>>

\* A task that waits for its settings is over; a running one is aborted.
TaskCancelled(r) ==
    LET o == Head(toRunner[r]).task
    IN  /\ Gets(r, "cancel")
        /\ \/ /\ status[o] = "waitingForSettings"
              /\ status' = [status EXCEPT ![o] = "none"]
              /\ SendOffers(r, <<>>, RunningTasks(r) \ {o})
           \/ /\ status[o] = "running"
              /\ status' = [status EXCEPT ![o] = "cancelled"]
              /\ UNCHANGED <<open, sent, toBroker>>
           \/ /\ status[o] \notin {"waitingForSettings", "running"}
              /\ UNCHANGED <<status, open, sent, toBroker>>
        /\ UNCHANGED <<brokerVars, requesterVars, proc>>

\* Mutant: it is dropped without an error to the broker.
DropTimedOutWaiting(o) ==
    /\ status' = [status EXCEPT ![o] = "none"]
    /\ SendOffers(RunnerOf(o), <<>>, RunningTasks(RunnerOf(o)) \ {o})
\* Mutant: its timer is ignored.
IgnoreTimedOutWaiting(o) == UNCHANGED <<status, open, sent, toBroker>>
\* What the runner's own timer makes of a task without settings.
WhenTimedOutWaiting(o) ==
    /\ status' = [status EXCEPT ![o] = "none"]
    /\ SendOffers(RunnerOf(o), <<[type |-> "finished", task |-> o]>>,
                  RunningTasks(RunnerOf(o)) \ {o})

TaskTimedOut(o) ==
    /\ \/ status[o] = "waitingForSettings" /\ WhenTimedOutWaiting(o)
       \/ /\ status[o] = "running"
          /\ status' = [status EXCEPT ![o] = "timeout"]
          /\ UNCHANGED <<open, sent, toBroker>>
    /\ UNCHANGED <<brokerVars, requesterVars, proc, toRunner>>

\* The code resolves, throws, or is interrupted by its abort signal.
ExecutionEnds(o) ==
    LET r == RunnerOf(o)
        word == IF status[o] = "cancelled" THEN <<>>
                ELSE <<[type |-> "finished", task |-> o]>>
    IN  /\ status[o] \in {"running", "cancelled", "timeout"}
        /\ status' = [status EXCEPT ![o] = "none"]
        /\ SendOffers(r, word, RunningTasks(r) \ {o})
        /\ UNCHANGED <<brokerVars, requesterVars, proc, toRunner>>

\* broker:drain; no offer is sent or honoured from here on.
ReceiveDrain(r) ==
    /\ Gets(r, "drain")
    /\ proc' = [proc EXCEPT ![r] = "draining"]
    /\ UNCHANGED <<brokerVars, requesterVars, open, status, sent, toBroker>>

\* stop(): idle timeout or SIGTERM.
StopRunner(r) ==
    /\ proc[r] = "serving"
    /\ proc' = [proc EXCEPT ![r] = "draining"]
    /\ open' = [open EXCEPT ![r] = {}]
    /\ UNCHANGED <<brokerVars, requesterVars, status, sent, toRunner, toBroker>>

\* Crash, end of stop(), or the close event of its connection.
RunnerExits(r) ==
    /\ proc[r] # "gone"
    /\ Kill(r)
    /\ toRunner' = [toRunner EXCEPT ![r] = <<>>]
    /\ UNCHANGED <<brokerVars, requesterVars, sent, toBroker>>

-----------------------------------------------------------------------------
(* An external launcher: one offer that does not expire, answered by a      *)
(* deferral; it then leaves its place to the runner it launches.            *)

LauncherOffers(r) ==
    /\ r \in launchers /\ proc[r] = "serving" /\ sent[r] = 0 /\ MaxOffers > 0
    /\ sent' = [sent EXCEPT ![r] = 1]
    /\ Say(r, <<[type |-> "offer", task |-> <<r, 1>>]>>)
    /\ UNCHANGED <<brokerVars, requesterVars, proc, open, status, toRunner>>

LauncherDefers(r) ==
    LET o == Head(toRunner[r]).task
    IN  /\ r \in launchers
        /\ Gets(r, "offeraccept")
        /\ Say(r, <<[type |-> "declined", task |-> o]>>)
        /\ UNCHANGED <<brokerVars, requesterVars, runnerVars>>

-----------------------------------------------------------------------------
BrokerHears(r) ==
    \E o \in Offers : \/ TaskOffered(r, o) \/ RunnerAccepted(r, o)
                      \/ RunnerDeclined(r, o) \/ TaskFinished(r, o)

RunnerGets(r) ==
    \/ ReceiveRegistered(r) \/ OfferAccepted(r) \/ ReceiveSettings(r)
    \/ TaskCancelled(r) \/ ReceiveDrain(r) \/ LauncherDefers(r)

Next ==
    \/ \E q \in Requests : TaskRequested(q) \/ RequestTimesOut(q) \/ CancelTask(q)
    \/ \E o \in Offers : \/ AcceptTimesOut(o) \/ TaskTimesOut(o)
                         \/ TaskTimedOut(o) \/ ExecutionEnds(o)
    \/ \E r \in Runners : \/ RegisterRunner(r) \/ DeregisterRunner(r)
                          \/ BrokerHears(r) \/ RunnerGets(r)
                          \/ OfferInterval(r) \/ LauncherOffers(r)
                          \/ StopRunner(r) \/ RunnerExits(r)
    \/ StartDraining

Spec == Init /\ [][Next]_vars

\* Timers fire, connections deliver, a closed connection is noticed on both
\* sides, and an aborted execution ends.  Code that was not aborted may run on.
Fairness ==
    /\ \A q \in Requests : WF_vars(RequestTimesOut(q))
    /\ \A o \in Offers : /\ WF_vars(AcceptTimesOut(o)) /\ WF_vars(TaskTimesOut(o))
                         /\ WF_vars(TaskTimedOut(o))
                         /\ WF_vars(status[o] # "running" /\ ExecutionEnds(o))
    /\ \A r \in Runners : /\ WF_vars(BrokerHears(r)) /\ WF_vars(RunnerGets(r))
                          /\ WF_vars(proc[r] = "gone" /\ DeregisterRunner(r))

FairSpec == Spec /\ Fairness

-----------------------------------------------------------------------------
(* Safety. *)

\* At any time at most one runner is being asked to take a request: the flag
\* acceptInProgress holds over rejections, deferrals, timeouts and new offers.
OneAcceptPerRequest ==
    \A o1, o2 \in Offers :
        accepting[o1] # None /\ accepting[o1] = accepting[o2] => o1 = o2

\* The broker never counts more tasks on a runner than the runner takes,
\* although it learns of the end of one and the start of another by messages.
BrokerWithinCapacity ==
    \A r \in Runners :
        Cardinality({o \in tasks : RunnerOf(o) = r}) <= MaxConcurrency

\* Code that runs on a connected runner is on the broker's books, or the order
\* to abort it is on its way.
NoForgottenExecution ==
    \A o \in Offers : status[o] = "running" /\ RunnerOf(o) \in known =>
        \/ o \in tasks
        \/ [type |-> "cancel", task |-> o] \in ToSet(toRunner[RunnerOf(o)])

(* Liveness. *)

\* A workflow that asks for code to be run gets an answer, whatever runners do.
EveryRequestAnswered ==
    \A q \in Requests : reply[q] \in {"waiting", "started"} ~>
                            reply[q] \notin {"waiting", "started"}

\* Every slot of a runner is given back.
EverySlotFreed == \A o \in Offers : status[o] # "none" ~> status[o] = "none"
=============================================================================
