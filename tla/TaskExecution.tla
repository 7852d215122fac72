---------------------------- MODULE TaskExecution ----------------------------
(***************************************************************************)
(* The life of recorded occurrences on several mains: the executor claims  *)
(* due rows, arms a timer for each and fires it through the pre-dispatch   *)
(* mutex to the handler; the reaper recovers rows whose lease expired;     *)
(* retention and job deletion remove rows; mains stop, crash and restart.  *)
(*                                                                         *)
(* Between any two awaits of the code another actor may run, so a fire is  *)
(* a record with a phase, one per claim, that carries the task as it was   *)
(* read by the claim: its epoch and its attempts are a snapshot.           *)
(*                                                                         *)
(*   claimed    the claim committed, its promise has not resolved          *)
(*   armed      a timer is set                                             *)
(*   releasing  stop() sent releaseClaim                                   *)
(*   fired      the timer fired; no statement yet                          *)
(*   running    beginDispatch won; the handler has handed nothing off      *)
(*   inserted   the execution row exists; not yet reported                 *)
(*   reported   report.dispatched() was called                             *)
(*   returned   the handler returned                                       *)
(*   threw      the handler threw                                          *)
(*                                                                         *)
(* mark is the promise of the markDispatched write: none, sent, settled.   *)
(***************************************************************************)
EXTENDS ScheduledTaskStore, FiniteSets

CONSTANTS
    Tasks,            \* recorded occurrences
    MaxDisruptions    \* bound on crashes, stops, aborted passes and lost writes

ASSUME MaxDisruptionsAssumption == MaxDisruptions \in Nat

VARIABLES
    row,          \* row[t]: the row of t in scheduled_task
    executions,   \* rows of execution_entity created for occurrences
    host,         \* host[h]: life cycle of the main h
    fires,        \* claims a main holds in memory, armed or in flight
    tracked,      \* tracked[h][t]: epoch under t in claimedTaskById, 0 if none
    sweep,        \* sweep[h]: rows the reaper of h has read and not decided
    disruptions   \* disruptions so far

vars == <<row, executions, host, fires, tracked, sweep, disruptions>>

HandlerPhases == {"running", "inserted", "reported"}

Phases == {"claimed", "armed", "releasing", "fired", "returned", "threw"}
              \union HandlerPhases

Fire == [ task : Tasks, host : Hosts, epoch : Nat, attempts : Nat,
          phase : Phases, mark : {"none", "sent", "settled"} ]

\* What a sweep keeps of a row until it decides.
ExpiredLeaseRow == [ task : Tasks, epoch : Nat, attempts : Nat,
                     dispatched : BOOLEAN ]

TypeOK ==
    /\ row \in [Tasks -> Row]
    /\ executions \subseteq [task : Tasks, epoch : Nat]
    /\ host \in [Hosts -> {"up", "stopping", "down"}]
    /\ fires \subseteq Fire
    /\ tracked \in [Hosts -> [Tasks -> Nat]]
    /\ sweep \in [Hosts -> SUBSET ExpiredLeaseRow]
    /\ disruptions \in 0..MaxDisruptions

Init ==
    /\ row = [t \in Tasks |-> NewRow]
    /\ executions = {}
    /\ host = [h \in Hosts |-> "up"]
    /\ fires = {}
    /\ tracked = [h \in Hosts |-> [t \in Tasks |-> 0]]
    /\ sweep = [h \in Hosts |-> {}]
    /\ disruptions = 0

-----------------------------------------------------------------------------
(* Helpers.                                                                *)

SetRow(t, r) == row' = [row EXCEPT ![t] = r]

\* f leaves memory, whatever became of its row.
Drop(f) == fires' = fires \ {f}

Become(f, g) == fires' = (fires \ {f}) \union {g}

Advance(f, phase) == Become(f, [f EXCEPT !.phase = phase])

Disrupt ==
    /\ disruptions < MaxDisruptions
    /\ disruptions' = disruptions + 1

Executed(t) == \E x \in executions : x.task = t

\* No attempt is left after this one.  The snapshot decides, not the row.
LastAttempt(s) == s.attempts + 1 >= MaxAttempts

-----------------------------------------------------------------------------
(* Claiming and arming.                                                    *)

\* claimDueTasks takes one due row; a batch is several such steps.
ClaimDueTasks(h, t) ==
    /\ host[h] = "up"
    /\ row[t].status = "pending"
    /\ LET claimed == ClaimRow(row[t], h) IN
        /\ SetRow(t, claimed)
        /\ fires' = fires \union
             {[ task |-> t, host |-> h, epoch |-> claimed.epoch,
                attempts |-> claimed.attempts, phase |-> "claimed",
                mark |-> "none" ]}
    /\ UNCHANGED <<executions, host, tracked, sweep, disruptions>>

\* The claim resolves: track the task and arm its timer.  An entry of an
\* older claim of the same task is overwritten, its timer is not.
ScheduleClaimed(f) ==
    /\ f.phase = "claimed"
    /\ host[f.host] = "up"
    /\ Advance(f, "armed")
    /\ tracked' = [tracked EXCEPT ![f.host][f.task] = f.epoch]
    /\ UNCHANGED <<row, executions, host, sweep, disruptions>>

\* The claim resolves after stop(), or after its tick was aborted.
HandBackClaims(f) ==
    /\ f.phase = "claimed"
    /\ \/ host[f.host] = "stopping" /\ UNCHANGED disruptions
       \/ host[f.host] = "up" /\ Disrupt
    /\ SetRow(f.task, ReleaseRow(row[f.task], f))
    /\ Drop(f)
    /\ UNCHANGED <<executions, host, tracked, sweep>>

\* The timer callback drops the task's entry, whichever claim it names.
TimerFires(f) ==
    /\ f.phase = "armed"
    /\ Advance(f, "fired")
    /\ tracked' = [tracked EXCEPT ![f.host][f.task] = 0]
    /\ UNCHANGED <<row, executions, host, sweep, disruptions>>

-----------------------------------------------------------------------------
(* Firing.                                                                 *)

\* No handler is registered for the type any more.
ReleaseUnhandled(f) ==
    /\ f.phase = "fired"
    /\ Disrupt
    /\ SetRow(f.task, ReleaseRow(row[f.task], f))
    /\ Drop(f)
    /\ UNCHANGED <<executions, host, tracked, sweep>>

BeginDispatch(f) ==
    /\ f.phase = "fired"
    /\ SetRow(f.task, BeginDispatchRow(row[f.task], f))
    /\ IF WinsDispatch(row[f.task], f) THEN Advance(f, "running") ELSE Drop(f)
    /\ UNCHANGED <<executions, host, tracked, sweep, disruptions>>

\* The key names the lease, so each delivery has a key of its own.
HasExecutionOfLease(f) ==
    \E x \in executions : x.task = f.task /\ x.epoch = f.epoch

\* An execution carries the deduplication key of f's occurrence: job and
\* instant, the same for every delivery.
HasExecution(f) == Executed(f.task)

\* runWorkflow inserts the execution row.
RunWorkflow(f) ==
    /\ f.phase = "running"
    /\ ~HasExecution(f)
    /\ executions' = executions \union {[task |-> f.task, epoch |-> f.epoch]}
    /\ Advance(f, "inserted")
    /\ UNCHANGED <<row, host, tracked, sweep, disruptions>>

\* The unique index rejects the insert: DuplicateExecutionError is a clean
\* return, and a clean return sends the marker.
SkipDuplicate(f) ==
    /\ f.phase = "running"
    /\ HasExecution(f)
    /\ Become(f, [f EXCEPT !.phase = "returned", !.mark = "sent"])
    /\ UNCHANGED <<row, executions, host, tracked, sweep, disruptions>>

\* report.dispatched() sends the marker without waiting for it.
ReportDispatched(f) ==
    /\ f.phase = "inserted"
    /\ Become(f, [f EXCEPT !.phase = "reported", !.mark = "sent"])
    /\ UNCHANGED <<row, executions, host, tracked, sweep, disruptions>>

HandlerReturns(f) ==
    /\ f.phase = "reported"
    /\ Advance(f, "returned")
    /\ UNCHANGED <<row, executions, host, tracked, sweep, disruptions>>

\* Any await of the handler may reject, before the insert or after it.
HandlerThrows(f) ==
    /\ f.phase \in HandlerPhases
    /\ Advance(f, "threw")
    /\ UNCHANGED <<row, executions, host, tracked, sweep, disruptions>>

-----------------------------------------------------------------------------
(* Recording the outcome: the marker write settles before any of it.       *)

MarkDispatched(f) ==
    /\ f.mark = "sent"
    /\ SetRow(f.task, MarkDispatchedRow(row[f.task], f))
    /\ Become(f, [f EXCEPT !.mark = "settled"])
    /\ UNCHANGED <<executions, host, tracked, sweep, disruptions>>

\* The marker write fails; the failure is reported and swallowed.
LoseMark(f) ==
    /\ f.mark = "sent"
    /\ Disrupt
    /\ Become(f, [f EXCEPT !.mark = "settled"])
    /\ UNCHANGED <<row, executions, host, tracked, sweep>>

RecordSuccess(f) ==
    /\ f.phase = "returned"
    /\ f.mark = "settled"
    /\ SetRow(f.task, CompleteRow(row[f.task], f))
    /\ Drop(f)
    /\ UNCHANGED <<executions, host, tracked, sweep, disruptions>>

\* The last attempt threw after it had reported its effect.
CompleteDispatched(f) ==
    /\ f.phase = "threw"
    /\ f.mark = "settled"
    /\ LastAttempt(f)
    /\ SetRow(f.task, CompleteRow(row[f.task], f))
    /\ Drop(f)
    /\ UNCHANGED <<executions, host, tracked, sweep, disruptions>>

DeadLetter(f) ==
    /\ f.phase = "threw"
    /\ f.mark = "none"
    /\ LastAttempt(f)
    /\ SetRow(f.task, FailRow(row[f.task], f))
    /\ Drop(f)
    /\ UNCHANGED <<executions, host, tracked, sweep, disruptions>>

\* Attempts are left: retried whether or not the effect was reported.
Reschedule(f) ==
    /\ f.phase = "threw"
    /\ f.mark # "sent"
    /\ ~LastAttempt(f)
    /\ SetRow(f.task, RescheduleRow(row[f.task], f))
    /\ Drop(f)
    /\ UNCHANGED <<executions, host, tracked, sweep, disruptions>>

\* A statement other than the marker fails, or its reply is lost.  "running"
\* is beginDispatch committed without a reply: the handler was not called.
StatementFails(f) ==
    /\ \/ f.phase \in {"claimed", "releasing", "fired", "running"}
       \/ f.phase \in {"returned", "threw"} /\ f.mark # "sent"
    /\ Disrupt
    /\ Drop(f)
    /\ UNCHANGED <<row, executions, host, tracked, sweep>>

-----------------------------------------------------------------------------
(* Stopping, crashing, restarting.                                         *)

ArmedOn(h) == {f \in fires : f.host = h /\ f.phase = "armed"}

\* Executor.stop(): cancel every timer, release what claimedTaskById names.
Stop(h) ==
    /\ host[h] = "up"
    /\ Disrupt
    /\ host' = [host EXCEPT ![h] = "stopping"]
    /\ fires' = (fires \ ArmedOn(h)) \union
         {[f EXCEPT !.phase = "releasing"] :
             f \in {g \in ArmedOn(h) : tracked[h][g.task] = g.epoch}}
    /\ tracked' = [tracked EXCEPT ![h] = [t \in Tasks |-> 0]]
    /\ UNCHANGED <<row, executions, sweep>>

ReleaseOnStop(f) ==
    /\ f.phase = "releasing"
    /\ SetRow(f.task, ReleaseRow(row[f.task], f))
    /\ Drop(f)
    /\ UNCHANGED <<executions, host, tracked, sweep, disruptions>>

\* The process is gone, with everything it held in memory.
LoseMemory(h) ==
    /\ host' = [host EXCEPT ![h] = "down"]
    /\ fires' = {f \in fires : f.host # h}
    /\ tracked' = [tracked EXCEPT ![h] = [t \in Tasks |-> 0]]
    /\ sweep' = [sweep EXCEPT ![h] = {}]
    /\ UNCHANGED <<row, executions>>

\* stop() awaited its releases; fires in flight are not waited for.
Exit(h) ==
    /\ host[h] = "stopping"
    /\ ~ \E f \in fires : f.host = h /\ f.phase = "releasing"
    /\ LoseMemory(h)
    /\ UNCHANGED disruptions

Crash(h) ==
    /\ host[h] # "down"
    /\ Disrupt
    /\ LoseMemory(h)

Restart(h) ==
    /\ host[h] = "down"
    /\ host' = [host EXCEPT ![h] = "up"]
    /\ UNCHANGED <<row, executions, fires, tracked, sweep, disruptions>>

-----------------------------------------------------------------------------
(* The reaper: one statement reads, later statements decide row by row.    *)

\* The database clock passes leaseExpiresAt.
LeaseExpires(t) ==
    /\ row[t].status = "running"
    /\ row[t].lease = "live"
    /\ SetRow(t, [row[t] EXCEPT !.lease = "expired"])
    /\ UNCHANGED <<executions, host, fires, tracked, sweep, disruptions>>

\* A sweep that looks at rows without a marker only.
ExpiredUnmarked ==
    {t \in Tasks : /\ row[t].status = "running"
                   /\ row[t].lease = "expired"
                   /\ ~row[t].dispatched}

Expired == {t \in Tasks : row[t].status = "running" /\ row[t].lease = "expired"}

FindExpiredLeases(h) ==
    /\ host[h] = "up"
    /\ sweep[h] = {}
    /\ Expired # {}
    /\ sweep' = [sweep EXCEPT ![h] =
         {[ task |-> t, epoch |-> row[t].epoch, attempts |-> row[t].attempts,
            dispatched |-> row[t].dispatched ] : t \in Expired}]
    /\ UNCHANGED <<row, executions, host, fires, tracked, disruptions>>

Decided(h, s) ==
    /\ sweep' = [sweep EXCEPT ![h] = @ \ {s}]
    /\ UNCHANGED <<executions, host, fires, tracked>>

\* Post-dispatch: the effect exists, so the row is complete.
CompleteExpired(h, s) ==
    /\ s.dispatched
    /\ SetRow(s.task, CompleteExpiredRow(row[s.task], s))
    /\ Decided(h, s)
    /\ UNCHANGED disruptions

DeadLetterExpired(h, s) ==
    /\ ~s.dispatched
    /\ LastAttempt(s)
    /\ SetRow(s.task, DeadLetterExpiredRow(row[s.task], s))
    /\ Decided(h, s)
    /\ UNCHANGED disruptions

ReclaimExpired(h, s) ==
    /\ ~s.dispatched
    /\ ~LastAttempt(s)
    /\ SetRow(s.task, ReclaimExpiredRow(row[s.task], s))
    /\ Decided(h, s)
    /\ UNCHANGED disruptions

\* The statement for one row fails: the row is skipped, not the pass.
SkipRow(h, s) ==
    /\ Disrupt
    /\ Decided(h, s)
    /\ UNCHANGED row

Reap(h, s) ==
    \/ CompleteExpired(h, s)
    \/ DeadLetterExpired(h, s)
    \/ ReclaimExpired(h, s)

\* The loop times the pass out or stops it: no further row is decided.
AbortSweep(h) ==
    /\ sweep[h] # {}
    /\ \/ host[h] = "stopping" /\ UNCHANGED disruptions
       \/ host[h] = "up" /\ Disrupt
    /\ sweep' = [sweep EXCEPT ![h] = {}]
    /\ UNCHANGED <<row, executions, host, fires, tracked>>

-----------------------------------------------------------------------------
(* Deletion.                                                               *)

PruneFinished(t) ==
    /\ row[t].status \in Terminal
    /\ SetRow(t, AbsentRow)
    /\ UNCHANGED <<executions, host, fires, tracked, sweep, disruptions>>

\* The row goes with its job, or is withdrawn, whatever a main does with it.
DeleteTask(t) ==
    /\ row[t].status \in {"pending", "running"}
    /\ SetRow(t, AbsentRow)
    /\ UNCHANGED <<executions, host, fires, tracked, sweep, disruptions>>

-----------------------------------------------------------------------------

\* Steps a fire takes when nothing disrupts it.
FireProgress(f) ==
    \/ ScheduleClaimed(f)
    \/ TimerFires(f)
    \/ BeginDispatch(f)
    \/ RunWorkflow(f)
    \/ SkipDuplicate(f)
    \/ ReportDispatched(f)
    \/ HandlerReturns(f)
    \/ HandlerThrows(f)
    \/ MarkDispatched(f)
    \/ RecordSuccess(f)
    \/ CompleteDispatched(f)
    \/ DeadLetter(f)
    \/ Reschedule(f)

FireDisrupted(f) ==
    \/ HandBackClaims(f)
    \/ ReleaseUnhandled(f)
    \/ LoseMark(f)
    \/ StatementFails(f)
    \/ ReleaseOnStop(f)

HostStep(h) ==
    \/ \E t \in Tasks : ClaimDueTasks(h, t)
    \/ Stop(h)
    \/ Exit(h)
    \/ Crash(h)
    \/ Restart(h)
    \/ FindExpiredLeases(h)
    \/ \E s \in sweep[h] : Reap(h, s) \/ SkipRow(h, s)
    \/ AbortSweep(h)

Next ==
    \/ \E f \in fires : FireProgress(f) \/ FireDisrupted(f)
    \/ \E h \in Hosts : HostStep(h)
    \/ \E t \in Tasks : LeaseExpires(t) \/ PruneFinished(t) \/ DeleteTask(t)

Spec == Init /\ [][Next]_vars

-----------------------------------------------------------------------------
(* Safety.                                                                 *)

\* f is the claim its row names now.
Holds(f) == HeldBy(row[f.task], f)

\* The epoch identifies a claim: no two fires in memory anywhere, of one main
\* or of two, carry the same task and epoch, so the fencing token tells every
\* delivery apart (claimDueTasks and reclaimExpired bump it).
EpochIdentifiesClaim ==
    \A f, g \in fires : f.task = g.task /\ f.epoch = g.epoch => f = g

\* The pre-dispatch mutex is free for the claim that holds the row until that
\* claim takes it: no fire of an older claim, stalled past its lease, can have
\* stamped startedAt in its place (beginDispatch).
MutexFreeForHolder ==
    \A f \in fires :
        /\ Holds(f)
        /\ f.phase \in {"claimed", "armed", "releasing", "fired"}
        => ~row[f.task].started

\* An occurrence recorded as succeeded has its execution, whichever of the
\* owner, a redelivery that found a duplicate, or the reaper recorded it.
SucceededHasExecution ==
    \A t \in Tasks : row[t].status = "succeeded" => Executed(t)

\* A failed occurrence never carries the dispatch marker: work that is known
\* to have been handed off is never blamed on the scheduler, even if the
\* marker lands between the reaper's read and its write, or just before the
\* owner's last attempt throws.
FailedNeverMarked ==
    \A t \in Tasks : row[t].status = "failed" => ~row[t].dispatched

\* Attempts are counted once each, by the owner or by the reaper, from
\* snapshots read earlier: a live row always has one left, and a failed row
\* has used exactly all of them.
AttemptsAccounted ==
    \A t \in Tasks :
        /\ row[t].status \in {"pending", "running"} => row[t].attempts < MaxAttempts
        /\ row[t].status = "failed" => row[t].attempts = MaxAttempts

\* However often an occurrence is redelivered, by retries, by reclaims or by
\* owners that outlived their lease, it has one execution.
OneExecutionPerOccurrence ==
    \A x, y \in executions : x.task = y.task => x = y

-----------------------------------------------------------------------------
(* Steps that may never happen.                                            *)

\* A claim that was superseded writes nothing: the last step of a fire whose
\* epoch the row has left behind leaves the row as it is.
SupersededClaimWritesNothing ==
    [][\A f \in fires \ fires' :
          row[f.task].epoch # f.epoch => row'[f.task] = row[f.task]]_vars

\* A row whose lease is live leaves "running" only by a write of the claim
\* that holds it (or by deletion).  In particular the reaper leaves alone a row
\* whose lease beginDispatch renewed after the sweep had read it as expired.
LiveLeaseRespected ==
    [][\A t \in Tasks :
          /\ row[t].status = "running"
          /\ row[t].lease = "live"
          /\ row'[t].status \notin {"running", "absent"}
          => \E f \in fires \ fires' :
                f.task = t /\ f.epoch = row[t].epoch]_vars

\* The reaper never requeues an occurrence whose marker is set, although it
\* decides from a row it read earlier: every step that returns a dispatched
\* row to "pending" is a step of the claim that holds it.
ReaperNeverRedelivers ==
    [][\A t \in Tasks :
          /\ row[t].status = "running"
          /\ row[t].dispatched
          /\ row'[t].status = "pending"
          => \E f \in fires \ fires' :
                f.task = t /\ f.epoch = row[t].epoch]_vars

-----------------------------------------------------------------------------
(* The inductive invariant: what the safety properties rest on.            *)

\* A row that is not running and not terminal carries no owner's marks.
IdleRowIsClean ==
    \A t \in Tasks :
        row[t].status \in {"pending", "absent"} =>
            ~row[t].started /\ ~row[t].dispatched

\* No fire is ahead of its row.
FiresBehindRow ==
    \A f \in fires :
        row[f.task].status = "absent" \/ f.epoch <= row[f.task].epoch

\* The claim that holds a row has its attempts right, and a marker on the row
\* is its own.
HolderIsCurrent ==
    \A f \in fires :
        Holds(f) =>
            /\ f.attempts = row[f.task].attempts
            /\ row[f.task].dispatched => f.mark = "settled"

\* No marker is sent before the handler reports or ends.
MarkFollowsReport ==
    \A f \in fires :
        f.phase \notin {"reported", "returned", "threw"} => f.mark = "none"

\* The handler's progress and the marker are never ahead of the effect.
EffectBehindMark ==
    /\ \A f \in fires :
        f.mark # "none" \/ f.phase \in {"inserted", "reported", "returned"}
        => Executed(f.task)
    /\ \A t \in Tasks : row[t].dispatched => Executed(t)

\* What a sweep read is older than the row, or has its attempts right.
SweepBehindRow ==
    \A h \in Hosts : \A s \in sweep[h] :
        \/ row[s.task].status = "absent"
        \/ /\ s.epoch <= row[s.task].epoch
           /\ row[s.task].status = "running" /\ s.epoch = row[s.task].epoch
              => s.attempts = row[s.task].attempts

\* Type correctness and all of the above: preserved by every step, and it
\* implies the safety properties.
IInv ==
    /\ TypeOK
    /\ IdleRowIsClean
    /\ FiresBehindRow
    /\ EpochIdentifiesClaim
    /\ MutexFreeForHolder
    /\ HolderIsCurrent
    /\ MarkFollowsReport
    /\ EffectBehindMark
    /\ SweepBehindRow
    /\ SucceededHasExecution
    /\ FailedNeverMarked
    /\ AttemptsAccounted
    /\ OneExecutionPerOccurrence

-----------------------------------------------------------------------------
(* Refinement: a claim, a lease, a timer and a sweep are invisible in the  *)
(* ledger; pending and running are both "live".                            *)

LedgerOutcome(t) ==
    CASE row[t].status \in {"pending", "running"} -> "live"
      [] row[t].status = "absent" -> "removed"
      [] OTHER -> row[t].status

Ledger == INSTANCE OccurrenceLedger WITH
    outcome   <- [t \in Tasks |-> LedgerOutcome(t)],
    used      <- [t \in Tasks |-> row[t].attempts],
    delivered <- [t \in Tasks |-> Executed(t)]

\* The executor, the reaper and deletion together implement the ledger.
ImplementsLedger == Ledger!LedgerSpec

-----------------------------------------------------------------------------
(* Liveness.                                                               *)

\* The loops of every main tick forever, timers fire, statements return and
\* handlers end; leases run out; a main that is down is started again, and one
\* that is stopping exits.  Nothing is assumed of disruptions: they may happen
\* at any point, MaxDisruptions times.
Fairness ==
    /\ \A h \in Hosts :
        /\ \A t \in Tasks :
            /\ WF_vars(ClaimDueTasks(h, t))
            /\ WF_vars(\E f \in fires :
                  f.host = h /\ f.task = t /\ FireProgress(f))
            /\ WF_vars(\E f \in fires :
                  f.host = h /\ f.task = t /\ ReleaseOnStop(f))
        /\ WF_vars(FindExpiredLeases(h))
        /\ WF_vars(\E s \in sweep[h] : Reap(h, s))
        /\ WF_vars(Exit(h))
        /\ WF_vars(Restart(h))
    /\ \A t \in Tasks : WF_vars(LeaseExpires(t))

FairSpec == Spec /\ Fairness

\* Every recorded occurrence is settled or deleted in the end: neither a
\* crash, a lost write or an aborted pass, nor a claim that nobody remembers,
\* strands it.
EveryOccurrenceSettles ==
    \A t \in Tasks : <>(row[t].status \notin {"pending", "running"})
=============================================================================
