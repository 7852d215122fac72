--------------------------- MODULE LeaderElection ---------------------------
(***************************************************************************)
(* The election of the main that runs triggers, pollers and pruning in a   *)
(* multi-main setup (packages/cli/src/scaling/multi-main-setup.ee.ts and   *)
(* leader-election-client.ts).  The leader holds a Redis key that expires; *)
(* every main looks at it on its own timer, renews it, claims it, or gives *)
(* the role up.  A look is one command, or two when the key is missing:    *)
(* between them another main may take the key.                             *)
(*                                                                         *)
(* What a main does on gaining or losing the role is the business of the   *)
(* modules that extend this one; they conjoin it to BecomesLeader and      *)
(* StepsDown, because the events are emitted in the same turn.             *)
(***************************************************************************)
EXTENDS Naturals, FiniteSets

CONSTANTS
    Mains,          \* the main processes
    None,
    MaxTrouble      \* bound on crashes, expired keys, lost replies and other faults

ASSUME BoundsAssumption ==
    /\ IsFiniteSet(Mains)
    /\ None \notin Mains
    /\ MaxTrouble \in Nat

VARIABLES
    leaderKey, \* the owner in the key, or None
    leaders,   \* the mains whose instance role is leader
    up,        \* the mains that run
    vacant,    \* the mains that found no key and are about to claim it
    trouble    \* how much trouble there has been

roles == <<leaderKey, leaders, up, vacant>>
election == <<roles, trouble>>

ElectionTypeOK ==
    /\ leaderKey \in Mains \union {None}
    /\ leaders \subseteq up
    /\ vacant \subseteq up
    /\ up \subseteq Mains
    /\ trouble \in 0 .. MaxTrouble

ElectionInit ==
    /\ leaderKey = None
    /\ leaders = {}
    /\ up = {}
    /\ vacant = {}
    /\ trouble = 0

Trouble == trouble < MaxTrouble /\ trouble' = trouble + 1

\* SET NX: the three ways a claim of the key can end for the caller.  An error
\* leaves open whether Redis has applied the command; an error that it has not
\* applied changes nothing and is the same as not having asked yet, except for
\* the leader (see StepsDown).
Claimed(m) == leaderKey = None /\ leaderKey' = m /\ UNCHANGED trouble
Refused(m) == leaderKey # None /\ UNCHANGED <<leaderKey, trouble>>
ReplyLost(m) == leaderKey = None /\ leaderKey' = m /\ Trouble

\* init: the first claim decides the role.  No handler is attached yet, so no
\* event reaches anybody.
StartsAs(m) ==
    /\ m \notin up
    /\ up' = up \union {m}
    /\ \/ Claimed(m) /\ leaders' = leaders \union {m}
       \/ (Refused(m) \/ ReplyLost(m)) /\ UNCHANGED leaders
    /\ UNCHANGED vacant

\* The renewal or the GET of a look finds no key.
SeesVacancy(m) ==
    /\ m \in up \ vacant
    /\ leaderKey = None
    /\ vacant' = vacant \union {m}
    /\ UNCHANGED <<leaderKey, leaders, up, trouble>>

\* checkCanBecomeLeader: the key is ours although we do not know it, or the
\* claim after a vacancy succeeds.
BecomesLeader(m) ==
    /\ m \in up \ leaders
    /\ \/ m \notin vacant /\ leaderKey = m /\ UNCHANGED <<leaderKey, trouble>>
       \/ m \in vacant /\ Claimed(m)
    /\ leaders' = leaders \union {m}
    /\ vacant' = vacant \ {m}
    /\ UNCHANGED up

\* A claim after a vacancy fails, or succeeds unheard.
ClaimFails(m) ==
    /\ m \in vacant \ leaders
    /\ Refused(m) \/ ReplyLost(m)
    /\ vacant' = vacant \ {m}
    /\ UNCHANGED <<leaders, up>>

\* checkAreWeStillLeader: the key was missing and is ours again.
KeepsLeadership(m) ==
    /\ m \in vacant \intersect leaders
    /\ Claimed(m)
    /\ vacant' = vacant \ {m}
    /\ UNCHANGED <<leaders, up>>

\* Mutant: the renewal does not tell whose key it finds.
StepsDownWhenRefused(m) ==
    /\ m \in vacant \intersect leaders
    /\ Refused(m) \/ ReplyLost(m)
    /\ leaders' = leaders \ {m}
    /\ vacant' = vacant \ {m}
    /\ UNCHANGED up

\* checkAreWeStillLeader: the renewal finds the key of another main, or the
\* claim of a missing key fails in one way or another.
StepsDown(m) ==
    /\ m \in leaders
    /\ \/ m \notin vacant /\ leaderKey \notin {m, None} /\ UNCHANGED <<leaderKey, trouble>>
       \/ m \in vacant /\ (Refused(m) \/ ReplyLost(m))
       \/ m \in vacant /\ UNCHANGED leaderKey /\ Trouble
    /\ leaders' = leaders \ {m}
    /\ vacant' = vacant \ {m}
    /\ UNCHANGED up

\* The key outlives its owner by its TTL at most; while the owner is up it
\* expires only when no renewal gets through for that long.
KeyExpires ==
    /\ leaderKey # None
    /\ IF leaderKey \in up THEN Trouble ELSE UNCHANGED trouble
    /\ leaderKey' = None
    /\ UNCHANGED <<leaders, up, vacant>>

Dies(m) ==
    /\ m \in up
    /\ Trouble
    /\ up' = up \ {m}
    /\ leaders' = leaders \ {m}
    /\ vacant' = vacant \ {m}
    /\ UNCHANGED leaderKey

\* shutdown: a leader deletes the key, whoever has it by now.
LeavesAs(m) ==
    /\ m \in up
    /\ Trouble
    /\ up' = up \ {m}
    /\ leaders' = leaders \ {m}
    /\ vacant' = vacant \ {m}
    /\ leaderKey' = IF m \in leaders THEN None ELSE leaderKey
=============================================================================
