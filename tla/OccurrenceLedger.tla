-------------------------- MODULE OccurrenceLedger --------------------------
(***************************************************************************)
(* What the durable scheduler promises about a recorded occurrence, with   *)
(* no host, lease, timer or sweep in sight: it stays live until it is      *)
(* settled, it succeeds only if its effect was delivered, it fails only    *)
(* once every attempt is used, its effect is delivered at most once, and   *)
(* a settled occurrence is never live again.  The effect may still arrive  *)
(* late, after the occurrence was given up or deleted: an owner that lost  *)
(* its lease is fenced off the ledger, not off the world.                  *)
(*                                                                         *)
(* TaskExecution implements this specification.                            *)
(***************************************************************************)
EXTENDS Naturals

CONSTANTS
    Tasks,        \* recorded occurrences
    MaxAttempts   \* attempts an occurrence may use

VARIABLES
    outcome,      \* outcome[t] \in Outcomes
    used,         \* used[t]: attempts counted against t
    delivered     \* delivered[t]: the effect of t exists

ledgerVars == <<outcome, used, delivered>>

Outcomes == {"live", "succeeded", "failed", "removed"}

LedgerInit ==
    /\ outcome = [t \in Tasks |-> "live"]
    /\ used = [t \in Tasks |-> 0]
    /\ delivered = [t \in Tasks |-> FALSE]

\* The effect of t comes into being, once.
Deliver(t) ==
    /\ ~delivered[t]
    /\ delivered' = [delivered EXCEPT ![t] = TRUE]
    /\ UNCHANGED <<outcome, used>>

\* An attempt is lost and t waits for the next one.
Retry(t) ==
    /\ outcome[t] = "live"
    /\ used[t] + 1 < MaxAttempts
    /\ used' = [used EXCEPT ![t] = @ + 1]
    /\ UNCHANGED <<outcome, delivered>>

Succeed(t) ==
    /\ outcome[t] = "live"
    /\ delivered[t]
    /\ outcome' = [outcome EXCEPT ![t] = "succeeded"]
    /\ UNCHANGED <<used, delivered>>

\* The last attempt is lost.
GiveUp(t) ==
    /\ outcome[t] = "live"
    /\ used[t] + 1 = MaxAttempts
    /\ outcome' = [outcome EXCEPT ![t] = "failed"]
    /\ used' = [used EXCEPT ![t] = @ + 1]
    /\ UNCHANGED delivered

\* Retention deletes a settled occurrence; a job takes its own with it.
Remove(t) ==
    /\ outcome[t] # "removed"
    /\ outcome' = [outcome EXCEPT ![t] = "removed"]
    /\ used' = [used EXCEPT ![t] = 0]
    /\ UNCHANGED delivered

LedgerNext ==
    \E t \in Tasks :
        Deliver(t) \/ Retry(t) \/ Succeed(t) \/ GiveUp(t) \/ Remove(t)

LedgerSpec == LedgerInit /\ [][LedgerNext]_ledgerVars
=============================================================================
