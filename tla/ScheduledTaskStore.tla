------------------------- MODULE ScheduledTaskStore -------------------------
(***************************************************************************)
(* One row of scheduled_task and the SQL statements of                     *)
(* ScheduledTaskRepository that change it.  Each statement is a function   *)
(* from the row before to the row after: a statement is atomic in the      *)
(* database, and its WHERE clause is the guard inside the function ("0     *)
(* rows affected" is the row unchanged).                                   *)
(*                                                                         *)
(* A caller identifies itself with a claim c, a record with at least the   *)
(* fields host and epoch (HostedClaimedRef); the reaper with a ref s that  *)
(* has the epoch its sweep read (ClaimedRef).                              *)
(*                                                                         *)
(* Abstracted: the lease deadline is only live or expired (the environment *)
(* moves it), runAt and its backoff are the choice of the moment at which  *)
(* a pending row is claimed, startedAt and dispatchedAt are null or not.   *)
(***************************************************************************)
EXTENDS Naturals

CONSTANTS
    Hosts,        \* instance host ids (claimedBy); a restarted main may reuse its id
    NoHost,       \* claimedBy IS NULL
    MaxAttempts   \* maxAttempts of the row, N8N_SCHEDULER_MAX_ATTEMPTS

ASSUME NoHostAssumption == NoHost \notin Hosts
ASSUME MaxAttemptsAssumption == MaxAttempts \in Nat \ {0}

Terminal == {"succeeded", "failed"}

\* "absent": the row was deleted, by retention or with its job.
Status == {"pending", "running", "absent"} \union Terminal

Row == [ status     : Status,
         attempts   : 0..MaxAttempts,
         claimedBy  : Hosts \union {NoHost},
         lease      : {"none", "live", "expired"},
         epoch      : Nat,
         started    : BOOLEAN,     \* startedAt IS NOT NULL
         dispatched : BOOLEAN ]    \* dispatchedAt IS NOT NULL

\* A row as insertIgnoringDuplicates records it.
NewRow == [ status |-> "pending", attempts |-> 0, claimedBy |-> NoHost,
            lease |-> "none", epoch |-> 0, started |-> FALSE,
            dispatched |-> FALSE ]

AbsentRow == [NewRow EXCEPT !.status = "absent"]

-----------------------------------------------------------------------------
(* The claim.                                                              *)

ClaimRow(r, h) ==
    [r EXCEPT !.status = "running", !.claimedBy = h, !.lease = "live",
              !.epoch = @ + 1]

-----------------------------------------------------------------------------
(* Statements of the owner, guarded by runGuardedUpdate.                   *)

\* The row is still the one c claimed, judged without its fencing token.
HeldIgnoringEpoch(r, c) ==
    /\ r.status = "running"
    /\ r.claimedBy = c.host

\* The row is still the one c claimed, judged without its status: a terminal
\* row keeps claimedBy and leaseEpoch.
HeldIgnoringStatus(r, c) ==
    /\ r.claimedBy = c.host
    /\ r.epoch = c.epoch

HeldBy(r, c) ==
    /\ r.status = "running"
    /\ r.claimedBy = c.host
    /\ r.epoch = c.epoch

GuardedUpdate(r, c, new) == IF HeldBy(r, c) THEN new ELSE r

\* The mutex taken whenever the row runs, whoever claimed it.
WinsWithoutClaim(r, c) == r.status = "running" /\ ~r.started

\* beginDispatch affects one row: the caller may run the handler.
WinsDispatch(r, c) == HeldBy(r, c) /\ ~r.started

BeginDispatchRow(r, c) ==
    IF WinsDispatch(r, c)
    THEN [r EXCEPT !.started = TRUE, !.lease = "live"]
    ELSE r

MarkDispatchedRow(r, c) ==
    GuardedUpdate(r, c, [r EXCEPT !.dispatched = TRUE])

CompleteRow(r, c) ==
    GuardedUpdate(r, c, [r EXCEPT !.status = "succeeded"])

FailRow(r, c) ==
    GuardedUpdate(r, c, [r EXCEPT !.status = "failed", !.attempts = @ + 1])

\* The row back to pending: no owner, no lease, no marker.
Requeued(r) ==
    [r EXCEPT !.status = "pending", !.claimedBy = NoHost, !.lease = "none",
              !.started = FALSE, !.dispatched = FALSE]

RescheduleRow(r, c) ==
    GuardedUpdate(r, c, [Requeued(r) EXCEPT !.attempts = @ + 1])

\* A release that counts an attempt, as a reclaim does.
ReleaseCounting(r, c) ==
    GuardedUpdate(r, c, [Requeued(r) EXCEPT !.attempts = @ + 1])

ReleaseRow(r, c) == GuardedUpdate(r, c, Requeued(r))

-----------------------------------------------------------------------------
(* Statements of the reaper, guarded by runReaperUpdate: no owner, but the *)
(* epoch the sweep read, the expiry asserted again at the write, and the   *)
(* effect boundary as it is at the write.                                  *)

\* The sweep's read of the expiry is trusted at the write.
ExpiredAtRead(r, s) ==
    /\ r.status = "running"
    /\ r.epoch = s.epoch

StillExpired(r, s) ==
    /\ r.status = "running"
    /\ r.epoch = s.epoch
    /\ r.lease = "expired"

\* The reclaim without its dispatchedAt IS NULL fence.
ReclaimUnfenced(r, s) ==
    IF StillExpired(r, s)
    THEN [Requeued(r) EXCEPT !.attempts = @ + 1, !.epoch = @ + 1]
    ELSE r

ReclaimExpiredRow(r, s) ==
    IF StillExpired(r, s) /\ ~r.dispatched
    THEN [Requeued(r) EXCEPT !.attempts = @ + 1, !.epoch = @ + 1]
    ELSE r

\* The dead letter without its dispatchedAt IS NULL fence.
DeadLetterUnfenced(r, s) ==
    IF StillExpired(r, s)
    THEN [r EXCEPT !.status = "failed", !.attempts = @ + 1]
    ELSE r

DeadLetterExpiredRow(r, s) ==
    IF StillExpired(r, s) /\ ~r.dispatched
    THEN [r EXCEPT !.status = "failed", !.attempts = @ + 1]
    ELSE r

CompleteExpiredRow(r, s) ==
    IF StillExpired(r, s) /\ r.dispatched
    THEN [r EXCEPT !.status = "succeeded"]
    ELSE r
=============================================================================
