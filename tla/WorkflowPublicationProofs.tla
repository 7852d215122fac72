---------------------- MODULE WorkflowPublicationProofs ----------------------
(***************************************************************************)
(* Safety of WorkflowPublication for every number of mains, versions and   *)
(* triggers and every bound on requests and trouble.  What rests on the    *)
(* lock and on the lease is proved for applies that end in time            *)
(* (~SlowApplies), as it is checked: without that it fails.                *)
(***************************************************************************)
EXTENDS WorkflowPublication, FiniteSetTheorems, TLAPS

Aiming == {"removing", "advancing", "activating"}
Closing == {"completed", "unpublished", "partial", "failed"}

\* Nothing is left of a main that does not run.
DownIsEmpty ==
    \A m \in Mains \ up :
        /\ worker[m].phase = "idle"
        /\ running[m] = Nothing
        /\ arriving[m] = {} /\ pass[m] = "idle" /\ recovering[m] = {}

\* What a worker knows of its row in each phase.
ShapedOf(m) ==
    /\ worker[m].phase \in {"idle", "claimed"} =>
          worker[m].target = None /\ worker[m].add = {}
    /\ worker[m].phase \in {"idle", "claimed"} \union Aiming => worker[m].failed = {}
    /\ worker[m].add \subseteq EnabledNodes(worker[m].target)
    /\ worker[m].phase = "activating" => worker[m].target # None
    /\ worker[m].phase = "reporting" =>
          /\ worker[m].result # "none"
          /\ worker[m].result = "unpublished" => worker[m].target = None
          /\ worker[m].result \in {"completed", "partial"} => worker[m].target # None
          /\ worker[m].result = "completed" => worker[m].failed = {}
Shaped == \A m \in Mains : ShapedOf(m)

TypeInv == TypeOK /\ DownIsEmpty /\ Shaped

-----------------------------------------------------------------------------
\* The constants.

\* What the assumptions say, as the proofs use it.
LEMMA Constants ==
    /\ IsFiniteSet(Mains) /\ Cardinality(Mains) \in Nat
    /\ None \notin Mains /\ None \notin Versions
    /\ None \notin Registration /\ None \notin Pending /\ None \notin InProgress
    /\ MaxTrouble \in Nat /\ MaxRequests \in Nat
BY BoundsAssumption, PublicationAssumption, NoneAssumption, FS_CardinalityType

\* The rows at hand never use up the ids, so that CHOOSE finds one.
LEMMA FreshIdExists ==
    ASSUME TypeOK
    PROVE  /\ FreshId \in Rows
           /\ pending = None \/ pending.id # FreshId
           /\ inProgress = None \/ inProgress.id # FreshId
<1> DEFINE held == { worker[m].id : m \in Mains }
           ids == [ m \in Mains |-> worker[m].id ]
           used == (held \union {pending.id}) \union {inProgress.id}
<1>1. IsFiniteSet(held) /\ Cardinality(held) <= Cardinality(Mains)
  <2>1. ids \in Surjection(Mains, held)
    BY DEF Surjection
  <2> QED BY <2>1, FS_Surjection, Constants
<1>2. IsFiniteSet(used) /\ Cardinality(used) <= Cardinality(Mains) + 2
  <2> DEFINE half == held \union {pending.id}
  <2>1. Cardinality(held) \in Nat
    BY <1>1, FS_CardinalityType
  <2> HIDE DEF held
  <2>2. /\ IsFiniteSet(half) /\ Cardinality(half) \in Nat
        /\ Cardinality(half) = Cardinality(held) \/ Cardinality(half) = Cardinality(held) + 1
    BY <1>1, FS_AddElement, FS_CardinalityType
  <2> HIDE DEF half
  <2>3. /\ IsFiniteSet(half \union {inProgress.id})
        /\ \/ Cardinality(half \union {inProgress.id}) = Cardinality(half)
           \/ Cardinality(half \union {inProgress.id}) = Cardinality(half) + 1
    BY <2>2, FS_AddElement
  <2>4. Cardinality(half \union {inProgress.id}) <= Cardinality(Mains) + 2
    BY <1>1, <2>1, <2>2, <2>3, Constants
  <2> QED BY <2>3, <2>4 DEF half
<1>3. IsFiniteSet(Rows) /\ Cardinality(Rows) = Cardinality(Mains) + 3
  <2>1. Cardinality(Mains) \in Nat
    BY Constants
  <2>2. 0 \in Int /\ Cardinality(Mains) + 2 \in Int
    BY <2>1
  <2>3. /\ IsFiniteSet(0 .. (Cardinality(Mains) + 2))
        /\ Cardinality(0 .. (Cardinality(Mains) + 2)) =
              IF 0 > Cardinality(Mains) + 2 THEN 0 ELSE Cardinality(Mains) + 2 - 0 + 1
    BY <2>2, FS_Interval
  <2> QED BY <2>1, <2>3 DEF Rows
<1>4. ~(Rows \subseteq used)
  <2> SUFFICES ASSUME Rows \in SUBSET used PROVE FALSE
    OBVIOUS
  <2> HIDE DEF used
  <2>1. Cardinality(Rows) <= Cardinality(used)
    BY <1>2, FS_Subset
  <2>2. Cardinality(used) \in Nat
    BY <1>2, FS_CardinalityType
  <2> QED BY <1>2, <1>3, <2>1, <2>2, Constants
<1>5. \E id \in Rows :
         /\ pending = None \/ pending.id # id
         /\ inProgress = None \/ inProgress.id # id
         /\ \A m \in Mains : ~Holds(m, id)
  BY <1>4 DEF Holds
<1> QED BY <1>5 DEF FreshId

-----------------------------------------------------------------------------
\* The types.

\* The election keeps its types; only a start and an end change who is up.
LEMMA ElectionTypes ==
    ASSUME ElectionTypeOK, NEW m \in Mains,
           \/ SeesVacancy(m) \/ ClaimFails(m) \/ KeepsLeadership(m) \/ BecomesLeader(m)
           \/ StepsDown(m) \/ KeyExpires \/ StartsAs(m) \/ Dies(m) \/ LeavesAs(m)
    PROVE  ElectionTypeOK'
<1> USE Constants DEF ElectionTypeOK, Claimed, Refused, ReplyLost, Trouble
<1>1. CASE SeesVacancy(m)      BY <1>1 DEF SeesVacancy
<1>2. CASE ClaimFails(m)       BY <1>2 DEF ClaimFails
<1>3. CASE KeepsLeadership(m)  BY <1>3 DEF KeepsLeadership
<1>4. CASE BecomesLeader(m)    BY <1>4 DEF BecomesLeader
<1>5. CASE StepsDown(m)        BY <1>5 DEF StepsDown
<1>6. CASE KeyExpires          BY <1>6 DEF KeyExpires
<1>7. CASE StartsAs(m)         BY <1>7 DEF StartsAs
<1>8. CASE Dies(m)             BY <1>8 DEF Dies
<1>9. CASE LeavesAs(m)         BY <1>9 DEF LeavesAs
<1> QED BY <1>1, <1>2, <1>3, <1>4, <1>5, <1>6, <1>7, <1>8, <1>9

\* Steps of the election other than starts and ends leave the mains that run.
LEMMA ElectionKeepsUp ==
    ASSUME NEW m \in Mains,
           \/ SeesVacancy(m) \/ ClaimFails(m) \/ KeepsLeadership(m) \/ BecomesLeader(m)
           \/ StepsDown(m) \/ KeyExpires
    PROVE  up' = up
BY DEF SeesVacancy, ClaimFails, KeepsLeadership, BecomesLeader, StepsDown, KeyExpires

\* Trouble counts up to its bound.
LEMMA TroubleTypes ==
    ASSUME ElectionTypeOK, UNCHANGED roles, Trouble \/ UNCHANGED trouble
    PROVE  ElectionTypeOK'
BY Constants DEF ElectionTypeOK, roles, Trouble

\* The triggers of a version are among the nodes, and have parameters.
LEMMA EnabledFacts ==
    ASSUME NEW v \in Wanted
    PROVE  /\ EnabledNodes(v) \in SUBSET Nodes
           /\ \A n \in EnabledNodes(v) : v \in Versions /\ Triggers[v][n] \in Contents
BY DEF EnabledNodes, Wanted, Contents

\* What the diff starts belongs to the version aimed at.
LEMMA ToAddFacts ==
    ASSUME NEW v \in Wanted, NEW m \in Mains
    PROVE  /\ ToAdd(m, v) \subseteq EnabledNodes(v)
           /\ ToRemove(v) \in SUBSET Nodes
BY EnabledFacts DEF ToAdd, ToRemove, Differing, EnabledNodes

\* A registration names a trigger and has a type.
LEMMA NothingTypes ==
    /\ Nothing \in [ Nodes -> Registration \union {None} ]
    /\ Idle \in Work
BY Constants DEF Nothing, Idle, Work, Phases, Results, Rows, Wanted

-----------------------------------------------------------------------------
(* The types, step by step.                                                *)

\* The row starts queued if it is not what is published, and every worker is idle.
LEMMA TypeInit == Init => TypeInv
<1> SUFFICES ASSUME Init PROVE TypeInv
  OBVIOUS
<1> USE Constants, NothingTypes
<1>1. ElectionTypeOK
  BY DEF Init, ElectionInit, ElectionTypeOK
<1>2. active \in Wanted /\ published \in Wanted
  BY DEF Init
<1>3. pending = None \/ pending \in Pending
  BY <1>2 DEF Init, Pending, Rows
<1>4. statuses \subseteq Nodes
  BY <1>2, EnabledFacts DEF Init
<1>5. running \in [ Mains -> [ Nodes -> Registration \union {None} ] ] /\ worker \in [ Mains -> Work ]
  BY DEF Init
<1>6. TypeOK
  BY <1>1, <1>2, <1>3, <1>4, <1>5 DEF Init, TypeOK
<1>7. DownIsEmpty /\ Shaped
  BY DEF Init, DownIsEmpty, Shaped, ShapedOf, Idle, EnabledNodes, Aiming
<1> QED BY <1>6, <1>7 DEF TypeInv

\* Everything but the database and the requests is the business of mains that run.
LEMMA TypeRequest ==
    ASSUME TypeInv, NEW v \in Wanted, Request(v)
    PROVE  TypeInv'
<1> USE Constants DEF TypeInv
<1>1. \E w \in Wanted : Enqueue(w)
  BY DEF Request, TypeOK
<1>2. /\ pending' \in Pending
      /\ inProgress # None => inProgress.id # pending'.id
  BY <1>1, FreshIdExists DEF Enqueue, TypeOK, Pending
<1>3. TypeOK'
  BY <1>2 DEF Request, TypeOK, ElectionTypeOK, election, roles, drains
<1>4. DownIsEmpty'
  BY DEF Request, DownIsEmpty, election, roles, drains
<1>5. Shaped'
  BY DEF Request, Shaped, ShapedOf, drains
<1> QED BY <1>3, <1>4, <1>5

\* A main that does anything but start is up.
LEMMA WhoActsIsUp ==
    ASSUME TypeInv, NEW m \in Mains,
           \/ worker[m].phase # "idle" \/ pass[m] # "idle" \/ running[m] # Nothing
           \/ arriving[m] # {} \/ recovering[m] # {} \/ m \in polling \/ m \in leaving
           \/ m \in leaders
    PROVE  m \in up
BY DEF TypeInv, DownIsEmpty, TypeOK, ElectionTypeOK

\* The steps that move the role or look at the key (Start.run, MultiMainSetup).
LEMMA TypeRole ==
    ASSUME TypeInv, NEW m \in Mains,
           \/ Start(m) \/ Takeover(m) \/ Demote(m) \/ ElectionStep \/ WakeUp(m)
    PROVE  TypeInv'
<1> USE Constants, ElectionTypes, ElectionKeepsUp, WhoActsIsUp DEF TypeInv
<1>1. CASE Start(m)
  <2>1. up' = up \union {m} /\ arriving'[m] \subseteq {"start"} /\ \A k \in Mains \ {m} : arriving'[k] = arriving[k]
    BY <1>1 DEF Start, StartsAs, TypeOK
  <2>2. ElectionTypeOK' /\ arriving' \in [ Mains -> SUBSET {"start", "takeover"} ]
    BY <1>1 DEF Start, TypeOK
  <2>3. TypeOK'
    BY <1>1, <2>1, <2>2 DEF Start, TypeOK, database
  <2>4. DownIsEmpty'
    BY <1>1, <2>1 DEF Start, DownIsEmpty
  <2>5. Shaped'
    BY <1>1 DEF Start, Shaped, ShapedOf
  <2> QED BY <2>3, <2>4, <2>5
<1>2. CASE Takeover(m)
  <2>1. up' = up /\ ElectionTypeOK' /\ m \in up
    BY <1>2 DEF Takeover, TypeOK, BecomesLeader
  <2>2. TypeOK'
    BY <1>2, <2>1 DEF Takeover, TypeOK, database
  <2>3. DownIsEmpty'
    BY <1>2, <2>1 DEF Takeover, DownIsEmpty, TypeOK
  <2>4. Shaped'
    BY <1>2 DEF Takeover, Shaped, ShapedOf
  <2> QED BY <2>2, <2>3, <2>4
<1>3. CASE Demote(m)
  <2>1. up' = up /\ ElectionTypeOK' /\ m \in up
    BY <1>3 DEF Demote, TypeOK, StepsDown, ElectionTypeOK
  <2>2. TypeOK'
    BY <1>3, <2>1 DEF Demote, TypeOK, database
  <2>3. DownIsEmpty'
    BY <1>3, <2>1 DEF Demote, DownIsEmpty
  <2>4. Shaped'
    BY <1>3 DEF Demote, Shaped, ShapedOf
  <2> QED BY <2>2, <2>3, <2>4
<1>4. CASE ElectionStep
  <2>1. up' = up /\ ElectionTypeOK'
    BY <1>4 DEF ElectionStep, TypeOK
  <2>2. TypeOK'
    BY <1>4, <2>1 DEF ElectionStep, TypeOK, database, drains
  <2>3. DownIsEmpty' /\ Shaped'
    BY <1>4, <2>1 DEF ElectionStep, DownIsEmpty, Shaped, ShapedOf, drains
  <2> QED BY <2>2, <2>3
<1>5. CASE WakeUp(m)
  <2>1. TypeOK'
    BY <1>5 DEF WakeUp, TypeOK, ElectionTypeOK, database, election, roles
  <2>2. DownIsEmpty' /\ Shaped'
    BY <1>5 DEF WakeUp, DownIsEmpty, Shaped, ShapedOf, election, roles
  <2> QED BY <2>1, <2>2
<1> QED BY <1>1, <1>2, <1>3, <1>4, <1>5

\* The enqueue for a new leader, and the removal of an old leader's triggers.
LEMMA TypeHandoff ==
    ASSUME TypeInv, NEW m \in Mains,
           (\E kind \in {"start", "takeover"} : Arrive(m, kind)) \/ TakeDown(m)
    PROVE  TypeInv'
<1> USE Constants, NothingTypes DEF TypeInv
<1>1. CASE TakeDown(m)
  <2>1. running' \in [ Mains -> [ Nodes -> Registration \union {None} ] ]
    BY <1>1 DEF TakeDown, TypeOK
  <2>2. TypeOK'
    BY <1>1, <2>1 DEF TakeDown, TypeOK, ElectionTypeOK, database, election, roles
  <2>3. DownIsEmpty' /\ Shaped'
    BY <1>1 DEF TakeDown, DownIsEmpty, Shaped, ShapedOf, TypeOK, election, roles
  <2> QED BY <2>2, <2>3
<1>2. ASSUME NEW kind \in {"start", "takeover"}, Arrive(m, kind) PROVE TypeInv'
  <2>1. m \in up
    BY <1>2, WhoActsIsUp DEF Arrive
  <2>2. /\ pending' = None \/ pending' \in Pending
        /\ inProgress # None /\ pending' # None => inProgress.id # pending'.id
    BY <1>2, FreshIdExists DEF Arrive, Enqueue, TypeOK, Pending
  <2>3. polling' \subseteq up
    BY <1>2, <2>1 DEF Arrive, TypeOK
  <2>4. TypeOK'
    BY <1>2, <2>2, <2>3 DEF Arrive, TypeOK, ElectionTypeOK, election, roles
  <2>5. DownIsEmpty'
    BY <1>2, <2>1 DEF Arrive, DownIsEmpty, TypeOK, election, roles
  <2>6. Shaped'
    BY <1>2 DEF Arrive, Shaped, ShapedOf
  <2> QED BY <2>4, <2>5, <2>6
<1> QED BY <1>1, <1>2

\* The end of a main, in one way or the other.
LEMMA TypeEnd ==
    ASSUME TypeInv, NEW m \in Mains, Crash(m) \/ Shutdown(m)
    PROVE  TypeInv'
<1> USE Constants, NothingTypes DEF TypeInv
<1>1. up' = up \ {m} /\ ElectionTypeOK' /\ Forgets(m)
  BY ElectionTypes DEF Crash, Shutdown, Dies, LeavesAs, TypeOK
<1>2. /\ worker' \in [ Mains -> Work ] /\ worker'[m] = Idle
      /\ running' \in [ Mains -> [ Nodes -> Registration \union {None} ] ] /\ running'[m] = Nothing
      /\ arriving' \in [ Mains -> SUBSET {"start", "takeover"} ] /\ arriving'[m] = {}
      /\ pass'[m] = "idle" /\ recovering'[m] = {}
      /\ pass' \in [ Mains -> {"idle", "surplus", "removing", "missing", "enqueueing"} ]
      /\ recovering' \in [ Mains -> SUBSET (Nodes \X Contents) ]
      /\ \A k \in Mains \ {m} :
            /\ worker'[k] = worker[k] /\ running'[k] = running[k] /\ arriving'[k] = arriving[k]
            /\ pass'[k] = pass[k] /\ recovering'[k] = recovering[k]
  BY <1>1 DEF Forgets, TypeOK
<1>3. TypeOK'
  BY <1>1, <1>2 DEF Forgets, TypeOK, database
<1>4. DownIsEmpty'
  BY <1>1, <1>2 DEF DownIsEmpty, Idle
<1>5. Shaped'
  BY <1>2 DEF Shaped, ShapedOf, Idle, Aiming
<1> QED BY <1>3, <1>4, <1>5

\* A worker's step keeps what the workers know, if it does so for that worker.
LEMMA TypeOfWorkers ==
    ASSUME TypeInv, NEW m \in up, TypeOK', up' = up,
           ShapedOf(m)',
           \A k \in Mains \ {m} :
              worker'[k] = worker[k] /\ (k \notin up => running'[k] = running[k]),
           UNCHANGED <<arriving, pass, recovering>>
    PROVE  TypeInv'
<1>1. m \in Mains
  BY DEF TypeInv, TypeOK, ElectionTypeOK
<1>2. DownIsEmpty'
  BY <1>1 DEF TypeInv, DownIsEmpty
<1>3. Shaped'
  <2> SUFFICES ASSUME NEW k \in Mains PROVE ShapedOf(k)'
    BY DEF Shaped, ShapedOf
  <2>1. CASE k = m
    BY <2>1
  <2>2. CASE k # m
    BY <2>2 DEF TypeInv, Shaped, ShapedOf
  <2> QED BY <2>1, <2>2
<1> QED BY <1>2, <1>3 DEF TypeInv

\* A claim (PublicationOutboxRepository.claimNextPendingRecord).
LEMMA TypeClaim ==
    ASSUME TypeInv, NEW m \in Mains, Claim(m)
    PROVE  TypeInv'
<1> USE Constants
<1>1. m \in up /\ up' = up
  BY DEF Claim, TypeInv, TypeOK, election, roles
<1>2. PICK id \in Rows, v \in Wanted :
         /\ ClaimPending(id, v) \/ ClaimExpired(id, v)
         /\ worker' = [worker EXCEPT ![m].phase = "claimed", ![m].id = id, ![m].version = v]
  BY DEF Claim
<1>0. worker[m] = Idle /\ worker[m] \in Work /\ worker \in [ Mains -> Work ]
  BY DEF Claim, TypeInv, TypeOK
<1>3. /\ worker' \in [ Mains -> Work ]
      /\ \A k \in Mains \ {m} : worker'[k] = worker[k]
      /\ worker'[m] = [worker[m] EXCEPT !.phase = "claimed", !.id = id, !.version = v]
  <2>1. worker' = [worker EXCEPT ![m].phase = "claimed", ![m].id = id, ![m].version = v]
    BY <1>2
  <2>2. [worker[m] EXCEPT !.phase = "claimed", !.id = id, !.version = v] \in Work
    BY <1>0 DEF Work, Phases
  <2> QED BY <1>0, <2>1, <2>2
<1>4. /\ inProgress' \in InProgress
      /\ pending' = None \/ pending' \in Pending
      /\ pending' # None => inProgress'.id # pending'.id
  <2>1. CASE ClaimPending(id, v)
    BY <2>1 DEF ClaimPending, InProgress
  <2>2. CASE ClaimExpired(id, v)
    <3>1. inProgress \in InProgress /\ (pending = None \/ pending \in Pending)
          /\ (pending # None => inProgress.id # pending.id)
      BY <2>2 DEF ClaimExpired, TypeInv, TypeOK
    <3>2. inProgress' = [inProgress EXCEPT !.expired = FALSE] /\ pending' = pending
      BY <2>2 DEF ClaimExpired
    <3> QED BY <3>1, <3>2 DEF InProgress
  <2> QED BY <1>2, <2>1, <2>2
<1>5. TypeOK'
  BY <1>3, <1>4 DEF Claim, TypeInv, TypeOK, ElectionTypeOK, election, roles
<1>6. ShapedOf(m)'
  BY <1>0, <1>3 DEF Idle, ShapedOf, Aiming, EnabledNodes
<1> QED BY <1>1, <1>3, <1>5, <1>6, TypeOfWorkers DEF Claim

\* A row handed back by a follower (WorkflowPublicationOutboxConsumer.processRecord).
LEMMA TypeHandBack ==
    ASSUME TypeInv, NEW m \in Mains, HandBack(m)
    PROVE  TypeInv'
<1> USE Constants, NothingTypes
<1>1. m \in up /\ up' = up
  BY WhoActsIsUp DEF HandBack, TypeInv, TypeOK, election, roles
<1>2. /\ worker' \in [ Mains -> Work ]
      /\ \A k \in Mains \ {m} : worker'[k] = worker[k]
      /\ worker'[m] = Idle
  BY DEF HandBack, TypeInv, TypeOK
<1>3. /\ inProgress' = None \/ inProgress' \in InProgress
      /\ pending' = None \/ pending' \in Pending
      /\ pending' # None /\ inProgress' # None => inProgress'.id # pending'.id
  BY DEF HandBack, ReturnToPending, TypeInv, TypeOK, InProgress, Pending
<1>4. TypeOK'
  BY <1>2, <1>3 DEF HandBack, TypeInv, TypeOK, ElectionTypeOK, election, roles
<1>5. ShapedOf(m)'
  BY <1>2 DEF ShapedOf, Idle, Aiming, EnabledNodes
<1> QED BY <1>1, <1>2, <1>4, <1>5, TypeOfWorkers DEF HandBack

\* The decision what to do about a row (WorkflowPublicationApplier.apply).
LEMMA TypeResolve ==
    ASSUME TypeInv, NEW m \in Mains, Resolve(m)
    PROVE  TypeInv'
<1> USE Constants
<1>1. m \in up /\ up' = up /\ worker[m] \in Work /\ worker[m].phase = "claimed"
  BY WhoActsIsUp DEF Resolve, TypeInv, TypeOK, election, roles
<1>2. /\ worker[m].target = None /\ worker[m].add = {} /\ worker[m].failed = {}
      /\ active \in Wanted /\ published \in Wanted
  BY <1>1 DEF TypeInv, TypeOK, Shaped, ShapedOf
<1> DEFINE v == worker[m].version
           w == worker'[m]
<1>3. v \in Wanted
  BY <1>1 DEF Work
<1>4. /\ worker' \in [ Mains -> Work ]
      /\ \A k \in Mains \ {m} : worker'[k] = worker[k]
      /\ \/ w = [worker[m] EXCEPT !.phase = "removing", !.remove = EnabledNodes(published)]
         \/ w = [worker[m] EXCEPT !.phase = "reporting", !.result = "version-missing"]
         \/ w = [worker[m] EXCEPT !.phase = "removing", !.target = v, !.remove = ToRemove(v),
                                  !.add = ToAdd(m, v)]
  <2>1. EnabledNodes(published) \in SUBSET Nodes /\ ToRemove(v) \in SUBSET Nodes
        /\ ToAdd(m, v) \in SUBSET Nodes
    BY <1>2, <1>3, EnabledFacts, ToAddFacts
  <2> worker \in [ Mains -> Work ]
    BY DEF TypeInv, TypeOK
  <2>2. CASE worker' = [worker EXCEPT ![m].phase = "removing",
                                      ![m].remove = EnabledNodes(published)]
    <3>1. [worker[m] EXCEPT !.phase = "removing", !.remove = EnabledNodes(published)] \in Work
      BY <1>1, <2>1 DEF Work, Phases
    <3> QED BY <2>2, <3>1
  <2>3. CASE worker' = [worker EXCEPT ![m].phase = "reporting",
                                      ![m].result = "version-missing"]
    <3>1. [worker[m] EXCEPT !.phase = "reporting", !.result = "version-missing"] \in Work
      BY <1>1 DEF Work, Phases, Results
    <3> QED BY <2>3, <3>1
  <2>4. CASE worker' = [worker EXCEPT ![m].phase = "removing", ![m].target = v,
                                      ![m].remove = ToRemove(v), ![m].add = ToAdd(m, v)]
    <3>1. [worker[m] EXCEPT !.phase = "removing", !.target = v, !.remove = ToRemove(v),
                            !.add = ToAdd(m, v)] \in Work
      BY <1>1, <1>3, <2>1 DEF Work, Phases
    <3> QED BY <2>4, <3>1
  <2> QED BY <2>2, <2>3, <2>4 DEF Resolve
<1>5. TypeOK'
  BY <1>4 DEF Resolve, TypeInv, TypeOK, ElectionTypeOK, election, roles, database
<1>6. ShapedOf(m)'
  <2>1. CASE w = [worker[m] EXCEPT !.phase = "removing", !.remove = EnabledNodes(published)]
    BY <1>1, <1>2, <2>1 DEF ShapedOf, Work, EnabledNodes, Aiming
  <2>2. CASE w = [worker[m] EXCEPT !.phase = "reporting", !.result = "version-missing"]
    BY <1>1, <1>2, <2>2 DEF ShapedOf, Work, EnabledNodes, Aiming
  <2>3. CASE w = [worker[m] EXCEPT !.phase = "removing", !.target = v, !.remove = ToRemove(v),
                                   !.add = ToAdd(m, v)]
    <3>1. w.phase = "removing" /\ w.target = v /\ w.add = ToAdd(m, v) /\ w.failed = {}
      BY <1>1, <1>2, <2>3 DEF Work
    <3> QED BY <1>3, <3>1, ToAddFacts DEF ShapedOf, Aiming
  <2> QED BY <1>4, <2>1, <2>2, <2>3
<1> QED BY <1>1, <1>4, <1>5, <1>6, TypeOfWorkers DEF Resolve

\* The removal of triggers (deactivate), which fails or not.
LEMMA TypeRemove ==
    ASSUME TypeInv, NEW m \in Mains, Remove(m)
    PROVE  TypeInv'
<1> USE Constants
<1> DEFINE w == worker'[m]
<1>1. m \in up /\ up' = up /\ worker[m] \in Work /\ worker[m].phase = "removing"
  BY WhoActsIsUp DEF Remove, TypeInv, TypeOK, roles
<1>2. PICK stuck \in SUBSET worker[m].remove :
        /\ running' = [running EXCEPT ![m] =
               [ n \in Nodes |-> IF n \in worker[m].remove \ stuck THEN None ELSE @[n] ]]
        /\ \/ /\ worker' = [worker EXCEPT ![m].phase = "advancing"]
              /\ UNCHANGED trouble
           \/ /\ worker' = [worker EXCEPT ![m].phase = "reporting",
                                          ![m].result = "thrown"]
              /\ Trouble
  BY DEF Remove
<1>3. /\ worker' \in [ Mains -> Work ]
      /\ \A k \in Mains \ {m} : worker'[k] = worker[k]
      /\ \/ w = [worker[m] EXCEPT !.phase = "advancing"]
         \/ w = [worker[m] EXCEPT !.phase = "reporting", !.result = "thrown"]
  <2> worker \in [ Mains -> Work ]
    BY DEF TypeInv, TypeOK
  <2>1. CASE worker' = [worker EXCEPT ![m].phase = "advancing"]
    <3>1. [worker[m] EXCEPT !.phase = "advancing"] \in Work
      BY <1>1 DEF Work, Phases
    <3> QED BY <2>1, <3>1
  <2>2. CASE worker' = [worker EXCEPT ![m].phase = "reporting", ![m].result = "thrown"]
    <3>1. [worker[m] EXCEPT !.phase = "reporting", !.result = "thrown"] \in Work
      BY <1>1 DEF Work, Phases, Results
    <3> QED BY <2>2, <3>1
  <2> QED BY <1>2, <2>1, <2>2
<1>4. /\ running' \in [ Mains -> [ Nodes -> Registration \union {None} ] ]
      /\ \A k \in Mains \ {m} : running'[k] = running[k]
  BY <1>2 DEF TypeInv, TypeOK
<1>5. ElectionTypeOK'
  BY <1>2, TroubleTypes DEF Remove, TypeInv, TypeOK
<1>6. TypeOK'
  BY <1>3, <1>4, <1>5 DEF Remove, TypeInv, TypeOK, roles, database
<1>7. ShapedOf(m)'
  <2>1. ShapedOf(m)
    BY DEF TypeInv, Shaped, ShapedOf
  <2>2. CASE w = [worker[m] EXCEPT !.phase = "advancing"]
    BY <1>1, <2>1, <2>2 DEF ShapedOf, Work, Aiming, EnabledNodes
  <2>3. CASE w = [worker[m] EXCEPT !.phase = "reporting", !.result = "thrown"]
    BY <1>1, <2>1, <2>3 DEF ShapedOf, Work, Aiming, EnabledNodes
  <2> QED BY <1>3, <2>2, <2>3
<1> QED BY <1>1, <1>3, <1>4, <1>6, <1>7, TypeOfWorkers DEF Remove

\* The published version moves (setPublishedVersion, removePublishedVersion).
LEMMA TypeAdvance ==
    ASSUME TypeInv, NEW m \in Mains, Advance(m)
    PROVE  TypeInv'
<1> USE Constants
<1> DEFINE w == worker'[m]
<1>1. /\ m \in up /\ up' = up /\ worker[m] \in Work /\ worker[m].phase = "advancing"
      /\ ShapedOf(m)
  BY WhoActsIsUp DEF Advance, TypeInv, TypeOK, election, roles, Shaped, ShapedOf
<1>2. /\ worker' \in [ Mains -> Work ]
      /\ \A k \in Mains \ {m} : worker'[k] = worker[k]
      /\ \/ /\ worker[m].target = None
            /\ w = [worker[m] EXCEPT !.phase = "reporting", !.result = "unpublished"]
         \/ /\ worker[m].target # None
            /\ w = [worker[m] EXCEPT !.phase = "reporting", !.result = "completed"]
         \/ /\ worker[m].target # None
            /\ w = [worker[m] EXCEPT !.phase = "activating"]
  <2> worker \in [ Mains -> Work ]
    BY DEF TypeInv, TypeOK
  <2>1. CASE /\ worker[m].target = None
             /\ worker' = [worker EXCEPT ![m].phase = "reporting", ![m].result = "unpublished"]
    <3>1. [worker[m] EXCEPT !.phase = "reporting", !.result = "unpublished"] \in Work
      BY <1>1 DEF Work, Phases, Results
    <3> QED BY <2>1, <3>1
  <2>2. CASE /\ worker[m].target # None
             /\ worker' = [worker EXCEPT ![m].phase = "reporting", ![m].result = "completed"]
    <3>1. [worker[m] EXCEPT !.phase = "reporting", !.result = "completed"] \in Work
      BY <1>1 DEF Work, Phases, Results
    <3> QED BY <2>2, <3>1
  <2>3. CASE /\ worker[m].target # None
             /\ worker' = [worker EXCEPT ![m].phase = "activating"]
    <3>1. [worker[m] EXCEPT !.phase = "activating"] \in Work
      BY <1>1 DEF Work, Phases
    <3> QED BY <2>3, <3>1
  <2> QED BY <2>1, <2>2, <2>3 DEF Advance
<1>3. published' \in Wanted
  BY <1>1 DEF Advance, Work
<1>4. TypeOK'
  BY <1>2, <1>3 DEF Advance, TypeInv, TypeOK, ElectionTypeOK, election, roles
<1>5. ShapedOf(m)'
  <2>1. CASE /\ worker[m].target = None
             /\ w = [worker[m] EXCEPT !.phase = "reporting", !.result = "unpublished"]
    BY <1>1, <2>1 DEF ShapedOf, Work, Aiming, EnabledNodes
  <2>2. CASE /\ worker[m].target # None
             /\ w = [worker[m] EXCEPT !.phase = "reporting", !.result = "completed"]
    BY <1>1, <2>2 DEF ShapedOf, Work, Aiming, EnabledNodes
  <2>3. CASE /\ worker[m].target # None
             /\ w = [worker[m] EXCEPT !.phase = "activating"]
    BY <1>1, <2>3 DEF ShapedOf, Work, Aiming, EnabledNodes
  <2> QED BY <1>2, <2>1, <2>2, <2>3
<1> QED BY <1>1, <1>2, <1>4, <1>5, TypeOfWorkers DEF Advance

\* The start of triggers (activate), some of which fail.
LEMMA TypeActivate ==
    ASSUME TypeInv, NEW m \in Mains, Activate(m)
    PROVE  TypeInv'
<1> USE Constants
<1> DEFINE w == worker'[m]
           v == worker[m].target
<1>1. /\ m \in up /\ up' = up /\ worker[m] \in Work /\ worker[m].phase = "activating"
      /\ ShapedOf(m) /\ v # None /\ v \in Wanted
  BY WhoActsIsUp DEF Activate, TypeInv, TypeOK, roles, Shaped, ShapedOf, Work
<1>2. PICK failed \in SUBSET worker[m].add :
        /\ UNCHANGED trouble \/ Trouble
        /\ running' = [running EXCEPT ![m] =
               [ n \in Nodes |->
                   IF n \in failed THEN None
                   ELSE IF n \in worker[m].add
                   THEN [ parameters |-> Triggers[v][n], by |-> "apply" ]
                   ELSE @[n] ]]
        /\ worker' = [worker EXCEPT
               ![m].phase = "reporting",
               ![m].failed = failed,
               ![m].result = IF failed = {} THEN "completed"
                             ELSE IF failed = EnabledNodes(v) THEN "failed"
                             ELSE "partial"]
  BY DEF Activate
<1>3. /\ worker' \in [ Mains -> Work ]
      /\ \A k \in Mains \ {m} : worker'[k] = worker[k]
      /\ w.phase = "reporting" /\ w.failed = failed /\ w.target = v /\ w.add = worker[m].add
      /\ w.result \in {"completed", "failed", "partial"}
      /\ w.result = "completed" => failed = {}
  <2> DEFINE x == [worker[m] EXCEPT
                      !.phase = "reporting",
                      !.failed = failed,
                      !.result = IF failed = {} THEN "completed"
                                 ELSE IF failed = EnabledNodes(v) THEN "failed"
                                 ELSE "partial"]
  <2>1. worker \in [ Mains -> Work ] /\ worker' = [worker EXCEPT ![m] = x]
    BY <1>2 DEF TypeInv, TypeOK
  <2>2. x \in Work
    BY <1>1 DEF Work, Phases, Results
  <2>3. /\ x.phase = "reporting" /\ x.failed = failed /\ x.target = v /\ x.add = worker[m].add
        /\ x.result \in {"completed", "failed", "partial"}
        /\ x.result = "completed" => failed = {}
    BY <1>1 DEF Work
  <2> HIDE DEF x
  <2> QED BY <2>1, <2>2, <2>3
<1>4. /\ running' \in [ Mains -> [ Nodes -> Registration \union {None} ] ]
      /\ \A k \in Mains \ {m} : running'[k] = running[k]
  <2>1. \A n \in worker[m].add : [ parameters |-> Triggers[v][n], by |-> "apply" ] \in Registration
    BY <1>1, EnabledFacts DEF Registration, ShapedOf
  <2>2. running \in [ Mains -> [ Nodes -> Registration \union {None} ] ]
    BY DEF TypeInv, TypeOK
  <2>3. [ n \in Nodes |->
                   IF n \in failed THEN None
                   ELSE IF n \in worker[m].add
                   THEN [ parameters |-> Triggers[v][n], by |-> "apply" ]
                   ELSE running[m][n] ] \in [ Nodes -> Registration \union {None} ]
    BY <2>1, <2>2
  <2> QED BY <1>2, <2>2, <2>3
<1>5. ElectionTypeOK'
  BY <1>2, TroubleTypes DEF Activate, TypeInv, TypeOK
<1>6. TypeOK'
  BY <1>3, <1>4, <1>5 DEF Activate, TypeInv, TypeOK, roles, database
<1>7. ShapedOf(m)'
  BY <1>1, <1>3 DEF ShapedOf, Aiming
<1> QED BY <1>1, <1>3, <1>4, <1>6, <1>7, TypeOfWorkers DEF Activate

\* The outcome is written (WorkflowPublicationStatusReporter).
LEMMA TypeReport ==
    ASSUME TypeInv, NEW m \in Mains, Report(m)
    PROVE  TypeInv'
<1> USE Constants, NothingTypes
<1>1. /\ m \in up /\ up' = up /\ worker[m] \in Work /\ worker[m].phase = "reporting"
      /\ ShapedOf(m)
  BY WhoActsIsUp DEF Report, TypeInv, TypeOK, roles, Shaped, ShapedOf
<1>2. /\ worker' \in [ Mains -> Work ]
      /\ \A k \in Mains \ {m} : worker'[k] = worker[k]
      /\ worker'[m] = Idle
  BY DEF Report, TypeInv, TypeOK
<1>3. outcome' \in {"completed", "partial_success", "failed"} /\ statuses' \subseteq Nodes
  <2>1. Outcome(worker[m].result) \in {"completed", "partial_success", "failed"}
    BY <1>1 DEF Outcome, ShapedOf, Work, Results
  <2>2. worker[m].target \in Wanted /\ statuses \subseteq Nodes
    BY <1>1 DEF Work, TypeInv, TypeOK
  <2>3. StatusesAfter(worker[m]) \subseteq Nodes
    BY <2>2, EnabledFacts DEF StatusesAfter
  <2> QED BY <2>1, <2>3 DEF Report, TypeInv, TypeOK
<1>4. ElectionTypeOK'
  <2>1. Trouble \/ UNCHANGED trouble
    BY DEF Report
  <2> QED BY <2>1, TroubleTypes DEF Report, TypeInv, TypeOK
<1>5. inProgress' = None \/ inProgress' = inProgress
  BY DEF Report
<1>6. TypeOK'
  BY <1>2, <1>3, <1>4, <1>5 DEF Report, TypeInv, TypeOK, roles
<1>7. ShapedOf(m)'
  BY <1>2 DEF ShapedOf, Idle, Aiming, EnabledNodes
<1> QED BY <1>1, <1>2, <1>6, <1>7, TypeOfWorkers DEF Report

\* A lease runs out.
LEMMA TypeLease ==
    ASSUME TypeInv, LeaseExpires
    PROVE  TypeInv'
<1> USE Constants
<1>1. inProgress \in InProgress /\ inProgress' = [inProgress EXCEPT !.expired = TRUE]
  BY DEF LeaseExpires, TypeInv, TypeOK
<1>2. inProgress' \in InProgress /\ inProgress'.id = inProgress.id
  BY <1>1 DEF InProgress
<1>3. TypeOK'
  BY <1>1, <1>2 DEF LeaseExpires, TypeInv, TypeOK, ElectionTypeOK, election, roles, drains
<1>4. DownIsEmpty' /\ Shaped'
  BY DEF LeaseExpires, TypeInv, DownIsEmpty, Shaped, ShapedOf, election, roles, drains
<1> QED BY <1>3, <1>4 DEF TypeInv

\* The reconciler makes its round (WorkflowPublicationReconciler.reconcile).
LEMMA TypeReconciler ==
    ASSUME TypeInv, NEW m \in Mains, ReconcilerStep(m)
    PROVE  TypeInv'
<1> USE Constants, NothingTypes
<1>2. ASSUME m \in up,
             NEW next \in {"idle", "surplus", "removing", "missing", "enqueueing"}, PassGoes(m, next),
             UNCHANGED database,
             running' = running \/ running' = [running EXCEPT ![m] = Nothing]
      PROVE  TypeInv'
  <2>1. /\ running' \in [ Mains -> [ Nodes -> Registration \union {None} ] ]
        /\ pass' \in [ Mains -> {"idle", "surplus", "removing", "missing", "enqueueing"} ]
        /\ \A k \in Mains \ {m} : running'[k] = running[k] /\ pass'[k] = pass[k]
    BY <1>2 DEF TypeInv, TypeOK, PassGoes
  <2>2. TypeOK'
    BY <1>2, <2>1 DEF TypeInv, TypeOK, ElectionTypeOK, election, roles, drains, database, PassGoes
  <2>3. DownIsEmpty' /\ Shaped'
    BY <1>2, <2>1 DEF TypeInv, DownIsEmpty, Shaped, ShapedOf, election, roles, drains, PassGoes
  <2> QED BY <2>2, <2>3 DEF TypeInv
<1>3. CASE FindSurplus(m)
  BY <1>2, <1>3, WhoActsIsUp DEF FindSurplus
<1>4. CASE CheckSurplus(m)
  BY <1>2, <1>4, WhoActsIsUp DEF CheckSurplus
<1>5. CASE RemoveSurplus(m)
  BY <1>2, <1>5, WhoActsIsUp DEF RemoveSurplus
<1>6. CASE FindMissing(m)
  BY <1>2, <1>6, WhoActsIsUp DEF FindMissing
<1>7. CASE RepublishMissing(m)
  <2>1. m \in up
    BY <1>7, WhoActsIsUp DEF RepublishMissing
  <2>2. /\ pending' \in Pending
        /\ inProgress # None => inProgress.id # pending'.id
    BY <1>7, FreshIdExists DEF RepublishMissing, EnqueueUnlessPending, TypeInv, TypeOK, Pending
  <2>3. TypeOK'
    BY <1>7, <2>1, <2>2 DEF RepublishMissing, TypeInv, TypeOK, ElectionTypeOK, election, roles
  <2>4. DownIsEmpty' /\ Shaped'
    BY <1>7, <2>1 DEF RepublishMissing, TypeInv, TypeOK, DownIsEmpty, Shaped, ShapedOf, election, roles
  <2> QED BY <2>3, <2>4 DEF TypeInv
<1> QED BY <1>3, <1>4, <1>5, <1>6, <1>7 DEF ReconcilerStep

\* A trigger fails while it runs, and is started again
\* (recoverFromRuntimeTriggerFailure).
LEMMA TypeRecovery ==
    ASSUME TypeInv, NEW m \in Mains, (\E n \in Nodes : TriggerFails(m, n)) \/ RecoveryStep(m)
    PROVE  TypeInv'
<1> USE Constants, NothingTypes
<1>1. ASSUME m \in up, UNCHANGED <<roles, database, drains, pass, requests>>,
             ElectionTypeOK',
             running' \in [ Mains -> [ Nodes -> Registration \union {None} ] ],
             recovering' \in [ Mains -> SUBSET (Nodes \X Contents) ],
             \A k \in Mains \ {m} : running'[k] = running[k] /\ recovering'[k] = recovering[k]
      PROVE  TypeInv'
  <2>1. TypeOK'
    BY <1>1 DEF TypeInv, TypeOK, roles, drains, database
  <2>2. DownIsEmpty' /\ Shaped'
    BY <1>1 DEF TypeInv, DownIsEmpty, Shaped, ShapedOf, roles, drains
  <2> QED BY <2>1, <2>2 DEF TypeInv
<1>2. ASSUME NEW n \in Nodes, TriggerFails(m, n) PROVE TypeInv'
  <2>1. running \in [ Mains -> [ Nodes -> Registration \union {None} ] ]
        /\ recovering \in [ Mains -> SUBSET (Nodes \X Contents) ]
    BY DEF TypeInv, TypeOK
  <2>2. running[m][n] \in Registration /\ running[m] # Nothing
    BY <1>2, <2>1 DEF TriggerFails, Nothing
  <2>3. <<n, running[m][n].parameters>> \in Nodes \X Contents
    BY <2>2 DEF Registration
  <2>4. m \in up /\ ElectionTypeOK'
    BY <1>2, <2>2, WhoActsIsUp, TroubleTypes DEF TriggerFails, TypeInv, TypeOK
  <2>5. /\ running' \in [ Mains -> [ Nodes -> Registration \union {None} ] ]
        /\ recovering' \in [ Mains -> SUBSET (Nodes \X Contents) ]
        /\ \A k \in Mains \ {m} : running'[k] = running[k] /\ recovering'[k] = recovering[k]
    BY <1>2, <2>1, <2>3 DEF TriggerFails
  <2> QED BY <1>1, <1>2, <2>4, <2>5 DEF TriggerFails
<1>3. ASSUME NEW q \in Nodes \X Contents, Recover(m, q) PROVE TypeInv'
  <2>1. running \in [ Mains -> [ Nodes -> Registration \union {None} ] ]
        /\ recovering \in [ Mains -> SUBSET (Nodes \X Contents) ]
    BY DEF TypeInv, TypeOK
  <2>2. m \in up /\ ElectionTypeOK'
    BY <1>3, WhoActsIsUp DEF Recover, TypeInv, TypeOK, ElectionTypeOK, election, roles
  <2>3. [ parameters |-> q[2], by |-> "recovery" ] \in Registration
    BY DEF Registration
  <2>4. /\ running' \in [ Mains -> [ Nodes -> Registration \union {None} ] ]
        /\ recovering' \in [ Mains -> SUBSET (Nodes \X Contents) ]
        /\ \A k \in Mains \ {m} : running'[k] = running[k] /\ recovering'[k] = recovering[k]
    BY <1>3, <2>1, <2>3 DEF Recover
  <2> QED BY <1>1, <1>3, <2>2, <2>4 DEF Recover, election
<1> QED BY <1>2, <1>3 DEF RecoveryStep

\* Every step keeps the types.
LEMMA TypeStep ==
    ASSUME TypeInv, [Next]_vars
    PROVE  TypeInv'
<1>1. CASE UNCHANGED vars
  <2>1. TypeOK'
    BY <1>1 DEF TypeInv, TypeOK, ElectionTypeOK, vars, election, roles, database, drains
  <2>2. DownIsEmpty' /\ Shaped'
    BY <1>1 DEF TypeInv, DownIsEmpty, Shaped, ShapedOf, vars, election, roles, database, drains
  <2> QED BY <2>1, <2>2 DEF TypeInv
<1>2. CASE Publish \/ Unpublish
  BY <1>2, TypeRequest DEF Publish, Unpublish, Wanted
<1>3. CASE ElectionStep
  <2>1. Mains # {}
    BY <1>3 DEF ElectionStep, KeyExpires, TypeInv, TypeOK, ElectionTypeOK
  <2> QED BY <1>3, <2>1, TypeRole
<1>4. CASE LeaseExpires
  BY <1>4, TypeLease
<1>5. ASSUME NEW m \in Mains,
             \/ RoleStep(m) \/ Claim(m) \/ ConsumerStep(m) \/ ReconcilerStep(m)
             \/ RecoveryStep(m) \/ WakeUp(m) \/ Crash(m) \/ Shutdown(m)
             \/ \E n \in Nodes : TriggerFails(m, n)
      PROVE  TypeInv'
  <2>1. CASE RoleStep(m) \/ WakeUp(m)
    BY <2>1, TypeRole, TypeHandoff DEF RoleStep
  <2>2. CASE Claim(m) \/ ConsumerStep(m)
    BY <2>2, TypeClaim, TypeHandBack, TypeResolve, TypeRemove, TypeAdvance, TypeActivate,
       TypeReport DEF ConsumerStep
  <2>3. CASE ReconcilerStep(m) \/ RecoveryStep(m) \/ \E n \in Nodes : TriggerFails(m, n)
    BY <2>3, TypeReconciler, TypeRecovery
  <2>4. CASE Crash(m) \/ Shutdown(m)
    BY <2>4, TypeEnd
  <2> QED BY <1>5, <2>1, <2>2, <2>3, <2>4
<1> QED BY <1>1, <1>2, <1>3, <1>4, <1>5 DEF Next

\* The types hold for good.
LEMMA SpecTypeInv == Spec => []TypeInv
<1> QED BY TypeInit, TypeStep, PTL DEF Spec

\* The state has its types, and the rows of the outbox have different ids
\* (the tables of the outbox, the role, the drain worker and the reconciler).
THEOREM TypesHold == Spec => []TypeOK
<1>1. TypeInv => TypeOK
  BY DEF TypeInv
<1> QED BY <1>1, SpecTypeInv, PTL

-----------------------------------------------------------------------------
\* The outbox, when every apply ends before its lease and its lock give out.

\* A row that a worker holds is the row in progress, its lease runs, and no
\* other worker has one.
Owned ==
    /\ \A m \in Mains :
          worker[m].phase # "idle" =>
              /\ inProgress # None
              /\ inProgress.id = worker[m].id
              /\ inProgress.version = worker[m].version
              /\ ~inProgress.expired
    /\ \A m, n \in Mains :
          worker[m].phase # "idle" /\ worker[n].phase # "idle" => m = n

\* Whichever row there is, the pending one first, is the newest request; without
\* any, the newest request has been carried out or refused.
NewestFirst ==
    /\ pending # None => IsNewest(pending)
    /\ pending = None /\ inProgress # None => IsNewest(inProgress)
    /\ pending = None /\ inProgress = None => published = active \/ outcome = "failed"

Closes(w) == w.phase = "reporting" /\ w.result \in Closing
Decided(w) == w.phase \in Aiming \/ Closes(w)
Moved(w) == w.phase = "activating" \/ Closes(w)

\* A worker aims at the version wanted unless a newer request is pending, and
\* has published what it reports.
AimsAtNewest ==
    \A m \in Mains :
        /\ Decided(worker[m]) /\ pending = None => worker[m].target = active
        /\ Moved(worker[m]) => published = worker[m].target

\* With nothing in flight after a completed publication, the status rows are
\* those of the published version.
StatusesRecorded ==
    ~InFlight /\ outcome = "completed" => statuses = EnabledNodes(published)

DrainInv == Owned /\ NewestFirst /\ AimsAtNewest /\ StatusesRecorded

\* A row is not None.
LEMMA PendingFacts ==
    ASSUME NEW i \in Rows, NEW v \in Wanted
    PROVE  [ id |-> i, version |-> v ] # None
BY Constants DEF Pending

\* Initially.
LEMMA DrainInit == Init => DrainInv
<1> SUFFICES ASSUME Init PROVE DrainInv
  OBVIOUS
<1>1. Owned /\ AimsAtNewest
  BY DEF Init, Idle, Owned, AimsAtNewest, Decided, Moved, Closes, Aiming
<1>2. NewestFirst
  <2>1. inProgress = None /\ active \in Wanted /\ published \in Wanted
    BY DEF Init
  <2>2. CASE active = published
    BY <2>1, <2>2 DEF Init, NewestFirst
  <2>3. CASE active # published
    <3>1. pending = [ id |-> 0, version |-> IF active = None THEN published ELSE active ]
      BY <2>3 DEF Init
    <3>2. 0 \in Rows
      BY Constants DEF Rows
    <3>3. pending # None
      BY <2>1, <3>1, <3>2, PendingFacts
    <3> QED BY <2>1, <3>1, <3>3 DEF NewestFirst, IsNewest
  <2> QED BY <2>2, <2>3
<1>3. StatusesRecorded
  BY DEF Init, StatusesRecorded
<1> QED BY <1>1, <1>2, <1>3 DEF DrainInv

\* A step of the worker that holds the row, which changes neither the row nor
\* the versions wanted, keeps the invariant when it aims and moves as it should.
LEMMA DrainWork ==
    ASSUME TypeInv, DrainInv, NEW m \in Mains, worker[m].phase # "idle",
           UNCHANGED <<active, pending, inProgress>>,
           worker'[m].id = worker[m].id, worker'[m].version = worker[m].version,
           \A k \in Mains \ {m} : worker'[k] = worker[k],
           Decided(worker'[m]) /\ pending = None => worker'[m].target = active,
           Moved(worker'[m]) => published' = worker'[m].target
    PROVE  DrainInv'
<1>1. inProgress # None /\ \A k \in Mains \ {m} : worker[k].phase = "idle"
  BY DEF DrainInv, Owned
<1>2. Owned'
  BY <1>1 DEF DrainInv, Owned
<1>3. AimsAtNewest'
  BY <1>1 DEF AimsAtNewest, Decided, Moved, Closes, Aiming
<1>4. NewestFirst'
  BY <1>1 DEF DrainInv, NewestFirst, IsNewest
<1>5. StatusesRecorded'
  BY <1>1 DEF StatusesRecorded, InFlight
<1> QED BY <1>2, <1>3, <1>4, <1>5 DEF DrainInv

\* An enqueue of the version wanted replaces what was pending, and nothing else.
LEMMA DrainEnqueue ==
    ASSUME DrainInv, UNCHANGED <<published, inProgress, outcome, statuses, worker>>,
           pending' # None, IsNewest(pending)'
    PROVE  DrainInv'
<1>1. Owned'
  BY DEF DrainInv, Owned
<1>2. NewestFirst'
  BY DEF NewestFirst
<1>3. AimsAtNewest'
  BY DEF DrainInv, AimsAtNewest, Decided, Moved, Closes
<1>4. StatusesRecorded'
  BY DEF StatusesRecorded, InFlight
<1> QED BY <1>1, <1>2, <1>3, <1>4 DEF DrainInv

\* Steps that touch neither the database nor the workers.
LEMMA DrainStutter ==
    ASSUME DrainInv, UNCHANGED <<database, worker>>
    PROVE  DrainInv'
BY DEF DrainInv, Owned, NewestFirst, IsNewest, AimsAtNewest, Decided, Moved, Closes, StatusesRecorded,
       InFlight, database

\* A request asks for the version it writes down (_publishViaOutbox,
\* _unpublishViaOutbox).
LEMMA RequestKeepsDrain ==
    ASSUME TypeInv, DrainInv, NEW v \in Wanted, Request(v)
    PROVE  DrainInv'
<1>1. pending'.version = (IF v = None THEN active ELSE v) /\ active' = v
  BY DEF Request, Enqueue
<1>2. pending' # None
  <2>1. FreshId \in Rows /\ active \in Wanted /\ (pending # None => pending.id \in Rows)
    BY FreshIdExists DEF TypeInv, TypeOK, Pending
  <2> QED BY <2>1, PendingFacts DEF Request, Enqueue
<1>3. UNCHANGED <<published, inProgress, outcome, statuses, worker>>
  BY DEF Request, drains
<1> QED BY <1>1, <1>2, <1>3, DrainEnqueue DEF IsNewest

\* Every other enqueue is of the version wanted, too
\* (enqueueForLeaderHandoff, republishMissingWorkflows).
LEMMA DrainEnqueues ==
    ASSUME TypeInv, DrainInv, NEW m \in Mains,
           (\E kind \in {"start", "takeover"} : Arrive(m, kind)) \/ RepublishMissing(m)
    PROVE  DrainInv'
<1>1. FreshId \in Rows /\ active \in Wanted /\ (pending # None => pending.id \in Rows)
  BY FreshIdExists DEF TypeInv, TypeOK, Pending
<1>2. ASSUME NEW kind \in {"start", "takeover"}, Arrive(m, kind) PROVE DrainInv'
  <2>1. CASE active = None
    BY <1>2, <2>1, DrainStutter DEF Arrive, database
  <2>2. CASE active # None
    <3>1. pending'.version = active /\ pending' # None /\ active' = active
      BY <1>1, <1>2, <2>2, PendingFacts DEF Arrive, Enqueue
    <3> QED BY <1>2, <3>1, DrainEnqueue DEF Arrive, IsNewest
  <2> QED BY <2>1, <2>2
<1>3. CASE RepublishMissing(m)
  <2>1. CASE pending # None
    BY <1>3, <2>1, DrainStutter DEF RepublishMissing, EnqueueUnlessPending, database
  <2>2. CASE pending = None
    <3>1. pending'.version = active /\ pending' # None /\ active' = active
      BY <1>1, <1>3, <2>2, PendingFacts DEF RepublishMissing, EnqueueUnlessPending
    <3> QED BY <1>3, <3>1, DrainEnqueue DEF RepublishMissing, IsNewest
  <2> QED BY <2>1, <2>2
<1> QED BY <1>2, <1>3

\* The row claimed is the pending one, while nobody holds a row, or one whose
\* holder is gone (claimNextPendingRecord).
LEMMA DrainClaim ==
    ASSUME TypeInv, DrainInv, NEW m \in Mains, Claim(m)
    PROVE  DrainInv'
<1>1. PICK id \in Rows, v \in Wanted :
         /\ ClaimPending(id, v) \/ ClaimExpired(id, v)
         /\ worker' = [worker EXCEPT ![m].phase = "claimed", ![m].id = id, ![m].version = v]
  BY DEF Claim
<1>2. /\ worker'[m].phase = "claimed" /\ worker'[m].id = id /\ worker'[m].version = v
      /\ \A k \in Mains \ {m} : worker'[k] = worker[k]
  <2>1. worker \in [ Mains -> Work ]
    BY DEF TypeInv, TypeOK
  <2> QED BY <1>1, <2>1 DEF Work
<1>3. \A k \in Mains : worker[k].phase = "idle"
  <2>1. inProgress = None \/ inProgress.expired
    BY <1>1 DEF ClaimPending, PendingIsFree, ClaimExpired
  <2> QED BY <2>1 DEF DrainInv, Owned
<1>4. /\ inProgress' # None /\ inProgress'.id = id /\ inProgress'.version = v
      /\ ~inProgress'.expired
  <2>1. CASE ClaimPending(id, v)
    <3>1. inProgress' = [ id |-> id, version |-> v, expired |-> FALSE ]
      BY <2>1 DEF ClaimPending
    <3>2. inProgress' \in InProgress
      BY <3>1 DEF InProgress
    <3> QED BY <3>1, <3>2, Constants
  <2>2. CASE ClaimExpired(id, v)
    <3>1. inProgress \in InProgress /\ inProgress' = [inProgress EXCEPT !.expired = FALSE]
          /\ id = inProgress.id /\ v = inProgress.version
      BY <2>2 DEF ClaimExpired, TypeInv, TypeOK
    <3>2. inProgress' \in InProgress
      BY <3>1 DEF InProgress
    <3> QED BY <3>1, <3>2, Constants DEF InProgress
  <2> QED BY <1>1, <2>1, <2>2
<1>5. Owned'
  BY <1>2, <1>3, <1>4 DEF Owned
<1>6. NewestFirst'
  <2>1. CASE ClaimPending(id, v)
    <3>1. IsNewest(pending) /\ v = pending.version /\ pending' = None /\ active' = active
      BY <2>1 DEF ClaimPending, DrainInv, NewestFirst, Claim
    <3> QED BY <1>4, <3>1 DEF NewestFirst, IsNewest
  <2>2. CASE ClaimExpired(id, v)
    <3>1. pending' = pending /\ active' = active /\ inProgress # None /\ v = inProgress.version
      BY <2>2 DEF ClaimExpired, Claim
    <3> QED BY <1>4, <3>1 DEF DrainInv, NewestFirst, IsNewest
  <2> QED BY <1>1, <2>1, <2>2
<1>7. AimsAtNewest'
  BY <1>2, <1>3 DEF AimsAtNewest, Decided, Moved, Closes, Aiming
<1>8. StatusesRecorded'
  BY <1>4 DEF StatusesRecorded, InFlight
<1> QED BY <1>5, <1>6, <1>7, <1>8 DEF DrainInv

\* The row given back becomes the pending one, or has been replaced
\* (returnToPending).
LEMMA DrainHandBack ==
    ASSUME TypeInv, DrainInv, NEW m \in Mains, HandBack(m)
    PROVE  DrainInv'
<1>1. \A k \in Mains : worker'[k].phase = "idle"
  <2>1. worker'[m] = Idle /\ \A k \in Mains \ {m} : worker'[k] = worker[k]
    BY DEF HandBack, TypeInv, TypeOK
  <2>2. \A k \in Mains \ {m} : worker[k].phase = "idle"
    BY DEF HandBack, DrainInv, Owned
  <2> QED BY <2>1, <2>2 DEF Idle
<1>2. inProgress # None /\ inProgress.id = worker[m].id
  BY DEF HandBack, DrainInv, Owned
<1>3. inProgress' = None /\ pending' # None /\ UNCHANGED active
      /\ pending'.version = IF pending = None THEN inProgress.version ELSE pending.version
  <2>1. inProgress \in InProgress
    BY <1>2 DEF TypeInv, TypeOK
  <2>2. [ id |-> worker[m].id, version |-> inProgress.version ] # None
    BY <1>2, <2>1, PendingFacts DEF InProgress
  <2> QED BY <1>2, <2>2 DEF HandBack, ReturnToPending
<1>4. NewestFirst'
  BY <1>2, <1>3 DEF DrainInv, NewestFirst, IsNewest
<1>5. Owned' /\ AimsAtNewest' /\ StatusesRecorded'
  BY <1>1, <1>3 DEF Owned, AimsAtNewest, Decided, Moved, Closes, Aiming, StatusesRecorded, InFlight
<1> QED BY <1>4, <1>5 DEF DrainInv

\* A row without a newer one is for the version wanted, so that is what the
\* worker aims at (apply).
LEMMA DrainResolve ==
    ASSUME TypeInv, DrainInv, NEW m \in Mains, Resolve(m)
    PROVE  DrainInv'
<1>1. /\ worker[m] \in Work /\ worker \in [ Mains -> Work ] /\ worker[m].phase = "claimed"
      /\ worker[m].target = None
  BY DEF Resolve, TypeInv, TypeOK, Shaped, ShapedOf
<1>2. /\ worker'[m].id = worker[m].id /\ worker'[m].version = worker[m].version
      /\ \A k \in Mains \ {m} : worker'[k] = worker[k]
      /\ \/ active = None /\ worker'[m].phase = "removing" /\ worker'[m].target = None
         \/ worker'[m].phase = "reporting" /\ worker'[m].result = "version-missing"
         \/ active # None /\ worker'[m].phase = "removing"
            /\ worker'[m].target = worker[m].version
  BY <1>1 DEF Resolve, Work
<1>3. pending = None /\ active # None => worker[m].version = active
  BY <1>1 DEF DrainInv, Owned, NewestFirst, IsNewest
<1>4. /\ Decided(worker'[m]) /\ pending = None => worker'[m].target = active
      /\ ~Moved(worker'[m])
  BY <1>2, <1>3 DEF Decided, Moved, Closes, Closing, Aiming
<1>5. UNCHANGED <<active, pending, inProgress>>
  BY DEF Resolve, database
<1> QED BY <1>1, <1>2, <1>4, <1>5, DrainWork

\* Removing triggers does not change what the worker aims at (deactivate).
LEMMA DrainRemove ==
    ASSUME TypeInv, DrainInv, NEW m \in Mains, Remove(m)
    PROVE  DrainInv'
<1>1. worker[m] \in Work /\ worker \in [ Mains -> Work ] /\ worker[m].phase = "removing"
  BY DEF Remove, TypeInv, TypeOK
<1>2. \/ worker' = [worker EXCEPT ![m].phase = "advancing"]
      \/ worker' = [worker EXCEPT ![m].phase = "reporting", ![m].result = "thrown"]
  BY DEF Remove
<1>3. /\ worker'[m].id = worker[m].id /\ worker'[m].version = worker[m].version
      /\ \A k \in Mains \ {m} : worker'[k] = worker[k]
      /\ worker'[m].target = worker[m].target
      /\ \/ worker'[m].phase = "advancing"
         \/ worker'[m].phase = "reporting" /\ worker'[m].result = "thrown"
  BY <1>1, <1>2 DEF Work
<1>4. /\ Decided(worker'[m]) /\ pending = None => worker'[m].target = active
      /\ ~Moved(worker'[m])
  BY <1>1, <1>3 DEF DrainInv, AimsAtNewest, Decided, Moved, Closes, Closing, Aiming
<1>5. UNCHANGED <<active, pending, inProgress>>
  BY DEF Remove, database
<1> QED BY <1>1, <1>3, <1>4, <1>5, DrainWork

\* The published version moves to the version aimed at (setPublishedVersion).
LEMMA DrainAdvance ==
    ASSUME TypeInv, DrainInv, NEW m \in Mains, Advance(m)
    PROVE  DrainInv'
<1>1. worker[m] \in Work /\ worker \in [ Mains -> Work ] /\ worker[m].phase = "advancing"
  BY DEF Advance, TypeInv, TypeOK
<1>2. \/ worker' = [worker EXCEPT ![m].phase = "reporting", ![m].result = "unpublished"]
      \/ worker' = [worker EXCEPT ![m].phase = "reporting", ![m].result = "completed"]
      \/ worker' = [worker EXCEPT ![m].phase = "activating"]
  BY DEF Advance
<1>3. /\ worker'[m].id = worker[m].id /\ worker'[m].version = worker[m].version
      /\ \A k \in Mains \ {m} : worker'[k] = worker[k]
      /\ worker'[m].target = worker[m].target
  BY <1>1, <1>2 DEF Work
<1>4. pending = None => worker'[m].target = active
  BY <1>1, <1>3 DEF DrainInv, AimsAtNewest, Decided, Aiming
<1>5. published' = worker'[m].target /\ UNCHANGED <<active, pending, inProgress>>
  BY <1>3 DEF Advance
<1> QED BY <1>1, <1>3, <1>4, <1>5, DrainWork

\* Starting triggers does not change what was published (activate).
LEMMA DrainActivate ==
    ASSUME TypeInv, DrainInv, NEW m \in Mains, Activate(m)
    PROVE  DrainInv'
<1>1. worker[m] \in Work /\ worker \in [ Mains -> Work ] /\ worker[m].phase = "activating"
  BY DEF Activate, TypeInv, TypeOK
<1>2. /\ worker'[m].id = worker[m].id /\ worker'[m].version = worker[m].version
      /\ \A k \in Mains \ {m} : worker'[k] = worker[k]
      /\ worker'[m].target = worker[m].target
  BY <1>1 DEF Activate, Work
<1>3. (pending = None => worker'[m].target = active) /\ published = worker'[m].target
  BY <1>1, <1>2 DEF DrainInv, AimsAtNewest, Decided, Moved, Aiming
<1>4. published' = published /\ UNCHANGED <<active, pending, inProgress>>
  BY DEF Activate, database
<1> QED BY <1>1, <1>2, <1>3, <1>4, DrainWork

\* A row that is closed without a failure has been carried out (report).
LEMMA DrainReport ==
    ASSUME TypeInv, DrainInv, NEW m \in Mains, Report(m)
    PROVE  DrainInv'
<1>1. /\ worker[m] \in Work /\ worker[m].phase = "reporting" /\ ShapedOf(m)
  BY DEF Report, TypeInv, TypeOK, Shaped, ShapedOf
<1>2. \A k \in Mains : worker'[k].phase = "idle"
  <2>1. worker'[m] = Idle /\ \A k \in Mains \ {m} : worker'[k] = worker[k]
    BY DEF Report, TypeInv, TypeOK
  <2>2. \A k \in Mains \ {m} : worker[k].phase = "idle"
    BY <1>1 DEF DrainInv, Owned
  <2> QED BY <2>1, <2>2 DEF Idle
<1>3. inProgress # None /\ inProgress.id = worker[m].id
  BY <1>1 DEF DrainInv, Owned
<1>4. Owned' /\ AimsAtNewest'
  BY <1>2 DEF Owned, AimsAtNewest, Decided, Moved, Closes, Aiming
<1>5. UNCHANGED <<active, published, pending>>
  BY DEF Report
<1>6. CASE inProgress' = None /\ outcome' = Outcome(worker[m].result)
           /\ statuses' = StatusesAfter(worker[m])
  <2>1. worker[m].result \notin Closing => outcome' = "failed"
    BY <1>1, <1>6 DEF Outcome, Work, Results, Closing, ShapedOf
  <2>2. worker[m].result \in Closing /\ pending = None =>
           published = active /\ published = worker[m].target
    BY <1>1 DEF DrainInv, AimsAtNewest, Decided, Moved, Closes
  <2>3. NewestFirst'
    BY <1>5, <1>6, <2>1, <2>2 DEF DrainInv, NewestFirst, IsNewest
  <2>4. StatusesRecorded'
    <3> SUFFICES ASSUME pending' = None, outcome' = "completed"
                 PROVE  statuses' = EnabledNodes(published)'
      BY DEF StatusesRecorded, InFlight
    <3>1. worker[m].result \in {"completed", "unpublished"}
      BY <1>1, <1>6 DEF Outcome, Work, Results, ShapedOf
    <3>2. published = worker[m].target
      BY <1>5, <2>2, <3>1 DEF Closing
    <3>3. CASE worker[m].result = "completed"
      BY <1>1, <1>5, <1>6, <3>2, <3>3 DEF StatusesAfter, ShapedOf, EnabledNodes
    <3>4. CASE worker[m].result = "unpublished"
      BY <1>1, <1>5, <1>6, <3>2, <3>4 DEF StatusesAfter, ShapedOf, EnabledNodes
    <3> QED BY <3>1, <3>3, <3>4
  <2> QED BY <1>4, <2>3, <2>4 DEF DrainInv
<1>7. CASE UNCHANGED <<inProgress, outcome, statuses>>
  <2>1. NewestFirst' /\ StatusesRecorded'
    BY <1>5, <1>7 DEF DrainInv, NewestFirst, IsNewest, StatusesRecorded, InFlight
  <2> QED BY <1>4, <2>1 DEF DrainInv
<1> QED BY <1>3, <1>6, <1>7 DEF Report

\* A lease that ends in time ends when nobody holds the row.
LEMMA DrainLease ==
    ASSUME ~SlowApplies, TypeInv, DrainInv, LeaseExpires
    PROVE  DrainInv'
<1>1. inProgress \in InProgress /\ inProgress' = [inProgress EXCEPT !.expired = TRUE]
  BY DEF LeaseExpires, TypeInv, TypeOK
<1>2. inProgress' \in InProgress /\ inProgress'.version = inProgress.version /\ inProgress' # None
      /\ inProgress # None
  BY <1>1, Constants DEF InProgress
<1>3. \A m \in Mains : worker[m].phase = "idle"
  BY DEF LeaseExpires, DrainInv, Owned, Holds
<1>4. UNCHANGED <<active, published, pending, worker>>
  BY DEF LeaseExpires, drains
<1>5. Owned' /\ AimsAtNewest'
  BY <1>3, <1>4 DEF Owned, AimsAtNewest, Decided, Moved, Closes, Aiming
<1>6. NewestFirst' /\ StatusesRecorded'
  BY <1>2, <1>4 DEF DrainInv, NewestFirst, IsNewest, StatusesRecorded, InFlight
<1> QED BY <1>5, <1>6 DEF DrainInv

\* A main that ends leaves its row in progress.
LEMMA DrainEnd ==
    ASSUME TypeInv, DrainInv, NEW m \in Mains, Crash(m) \/ Shutdown(m)
    PROVE  DrainInv'
<1>1. worker'[m] = Idle /\ (\A k \in Mains \ {m} : worker'[k] = worker[k]) /\ UNCHANGED database
  BY DEF Crash, Shutdown, Forgets, TypeInv, TypeOK
<1>2. \A k \in Mains : worker'[k].phase # "idle" => worker'[k] = worker[k]
  BY <1>1 DEF Idle
<1>3. UNCHANGED <<active, published, pending, inProgress, outcome, statuses>>
  BY <1>1 DEF database
<1>4. Owned'
  BY <1>2, <1>3 DEF DrainInv, Owned
<1>5. AimsAtNewest'
  BY <1>2, <1>3 DEF DrainInv, AimsAtNewest, Decided, Moved, Closes, Aiming
<1>6. NewestFirst' /\ StatusesRecorded'
  BY <1>3 DEF DrainInv, NewestFirst, IsNewest, StatusesRecorded, InFlight
<1> QED BY <1>4, <1>5, <1>6 DEF DrainInv

\* Every step keeps the outbox.
LEMMA DrainStep ==
    ASSUME ~SlowApplies, TypeInv, TypeInv', DrainInv, [Next]_vars
    PROVE  DrainInv'
<1>1. CASE UNCHANGED vars \/ ElectionStep
  BY <1>1, DrainStutter DEF ElectionStep, vars, database, drains
<1>2. CASE Publish \/ Unpublish
  <2>1. \E v \in Wanted : Request(v)
    BY <1>2 DEF Publish, Unpublish, Wanted
  <2> QED BY <2>1, RequestKeepsDrain
<1>3. CASE LeaseExpires
  BY <1>3, DrainLease
<1>4. ASSUME NEW m \in Mains,
             \/ RoleStep(m) \/ Claim(m) \/ ConsumerStep(m) \/ ReconcilerStep(m)
             \/ RecoveryStep(m) \/ WakeUp(m) \/ Crash(m) \/ Shutdown(m)
             \/ \E n \in Nodes : TriggerFails(m, n)
      PROVE  DrainInv'
  <2>1. CASE Start(m) \/ Takeover(m) \/ Demote(m) \/ TakeDown(m) \/ WakeUp(m)
    BY <2>1, DrainStutter DEF Start, Takeover, Demote, TakeDown, WakeUp
  <2>2. CASE \E kind \in {"start", "takeover"} : Arrive(m, kind)
    BY <2>2, DrainEnqueues
  <2>3. CASE Claim(m) \/ ConsumerStep(m)
    BY <2>3, DrainClaim, DrainHandBack, DrainResolve, DrainRemove, DrainAdvance, DrainActivate,
       DrainReport DEF ConsumerStep
  <2>4. CASE FindSurplus(m) \/ CheckSurplus(m) \/ RemoveSurplus(m) \/ FindMissing(m)
    BY <2>4, DrainStutter DEF FindSurplus, CheckSurplus, RemoveSurplus, FindMissing, PassGoes, drains
  <2>5. CASE RepublishMissing(m)
    BY <2>5, DrainEnqueues
  <2>6. CASE RecoveryStep(m) \/ \E n \in Nodes : TriggerFails(m, n)
    BY <2>6, DrainStutter DEF RecoveryStep, Recover, TriggerFails, drains
  <2>7. CASE Crash(m) \/ Shutdown(m)
    BY <2>7, DrainEnd
  <2> QED BY <1>4, <2>1, <2>2, <2>3, <2>4, <2>5, <2>6, <2>7 DEF RoleStep, ReconcilerStep
<1> QED BY <1>1, <1>2, <1>3, <1>4 DEF Next


-----------------------------------------------------------------------------
\* Followers, when the removal of their triggers waits for the lifecycle lock.

\* A follower that has nothing left to take down applies no row, and runs only
\* what was started again.
Quiet(m) ==
    /\ ~Applies(m)
    /\ \A n \in Registered(m) : running[m][n].by = "recovery"

FollowersQuiet == \A m \in up \ (leaders \union leaving) : Quiet(m)

\* A main's step leaves the other followers quiet, and it if it does so itself.
LEMMA QuietStep ==
    ASSUME FollowersQuiet, NEW m \in Mains,
           \A k \in up' \ {m} :
              /\ k \in up
              /\ worker'[k] = worker[k] /\ running'[k] = running[k]
              /\ k \in leaders => k \in leaders'
              /\ k \in leaving => k \in leaving',
           m \in up' /\ m \notin leaders' /\ m \notin leaving' => Quiet(m)'
    PROVE  FollowersQuiet'
<1> SUFFICES ASSUME NEW k \in up', k \notin leaders', k \notin leaving' PROVE Quiet(k)'
  BY DEF FollowersQuiet
<1>1. CASE k = m
  BY <1>1
<1>2. CASE k # m
  BY <1>2 DEF FollowersQuiet, Quiet, Applies, Registered
<1> QED BY <1>1, <1>2

\* A main stays quiet if it becomes no busier.
LEMMA StaysQuiet ==
    ASSUME FollowersQuiet, NEW m \in up, m \notin leaders, m \notin leaving,
           Applies(m)' => Applies(m),
           \A n \in Nodes : \/ running'[m][n] = None \/ running'[m][n] = running[m][n]
                            \/ running'[m][n].by = "recovery"
    PROVE  Quiet(m)'
BY DEF FollowersQuiet, Quiet, Registered

\* What the election does to the roles.
LEMMA ElectionRoles ==
    ASSUME NEW m \in Mains,
           SeesVacancy(m) \/ ClaimFails(m) \/ KeepsLeadership(m) \/ BecomesLeader(m) \/ KeyExpires
    PROVE  up' = up /\ leaders \subseteq leaders'
BY DEF SeesVacancy, ClaimFails, KeepsLeadership, BecomesLeader, KeyExpires

\* Steps that change neither what runs, nor what the drains do, nor who is up,
\* and take the role from nobody.
LEMMA QuietStutter ==
    ASSUME FollowersQuiet, up' = up, leaders \subseteq leaders',
           leaving \subseteq leaving', UNCHANGED <<worker, running>>
    PROVE  FollowersQuiet'
BY DEF FollowersQuiet, Quiet, Applies, Registered

\* The moves of the role.
LEMMA QuietRole ==
    ASSUME ~SlowApplies, TypeInv, FollowersQuiet, NEW m \in Mains,
           Start(m) \/ Takeover(m) \/ Demote(m) \/ TakeDown(m) \/ Crash(m) \/ Shutdown(m)
    PROVE  FollowersQuiet'
<1>1. CASE Start(m)
  <2>1. m \notin up /\ up' = up \union {m} /\ leaders \subseteq leaders'
    BY <1>1 DEF Start, StartsAs
  <2>2. UNCHANGED <<worker, running, leaving>>
    BY <1>1 DEF Start
  <2>3. Quiet(m)'
    BY <2>1, <2>2 DEF TypeInv, DownIsEmpty, Quiet, Applies, Registered, Nothing
  <2> QED BY <2>1, <2>2, <2>3, QuietStep
<1>2. CASE Takeover(m)
  BY <1>2, QuietStutter, ElectionRoles DEF Takeover
<1>3. CASE Demote(m)
  <2>1. up' = up /\ leaders' = leaders \ {m} /\ leaving \subseteq leaving'
    BY <1>3 DEF Demote, StepsDown
  <2>2. UNCHANGED <<worker, running>>
    BY <1>3 DEF Demote
  <2>3. m \notin leaving' => Quiet(m)'
    BY <1>3, <2>2 DEF Demote, Quiet, Locked, Applies, Registered
  <2> QED BY <2>1, <2>2, <2>3, QuietStep
<1>4. CASE TakeDown(m)
  <2>1. /\ UNCHANGED <<up, leaders, worker>> /\ leaving' = leaving \ {m}
        /\ running'[m] = Nothing /\ \A k \in Mains \ {m} : running'[k] = running[k]
        /\ up \subseteq Mains /\ ~Applies(m)
    BY <1>4 DEF TakeDown, MayTakeDown, Locked, TypeInv, TypeOK, ElectionTypeOK, election, roles
  <2>2. Quiet(m)'
    BY <2>1 DEF Quiet, Applies, Registered, Nothing
  <2> QED BY <2>1, <2>2, QuietStep
<1>5. CASE Crash(m) \/ Shutdown(m)
  <2>1. up' = up \ {m} /\ leaders' = leaders \ {m} /\ Forgets(m) /\ up \subseteq Mains
    BY <1>5 DEF Crash, Shutdown, Dies, LeavesAs, TypeInv, TypeOK, ElectionTypeOK
  <2>2. /\ leaving' = leaving \ {m}
        /\ \A k \in Mains \ {m} : running'[k] = running[k] /\ worker'[k] = worker[k]
    BY <2>1 DEF Forgets, TypeInv, TypeOK
  <2> QED BY <2>1, <2>2, QuietStep
<1> QED BY <1>1, <1>2, <1>3, <1>4, <1>5

\* The drain: only a leader begins to apply a row, and an old leader that still
\* does has its triggers to take down.
LEMMA QuietDrain ==
    ASSUME TypeInv, FollowersQuiet, NEW m \in Mains, Claim(m) \/ ConsumerStep(m)
    PROVE  FollowersQuiet'
<1>1. /\ UNCHANGED <<up, leaders, leaving>> /\ up \subseteq Mains
      /\ \A k \in Mains \ {m} : running'[k] = running[k] /\ worker'[k] = worker[k]
  <2>1. worker \in [ Mains -> Work ] /\ running \in [ Mains -> [ Nodes -> Registration \union {None} ] ]
        /\ up \subseteq Mains
    BY DEF TypeInv, TypeOK, ElectionTypeOK
  <2>2. CASE Claim(m)
    BY <2>1, <2>2 DEF Claim, election, roles
  <2>3. CASE HandBack(m) \/ Resolve(m)
    BY <2>1, <2>3 DEF HandBack, Resolve, election, roles
  <2>4. CASE Remove(m) \/ Activate(m)
    BY <2>1, <2>4 DEF Remove, Activate, roles
  <2>5. CASE Advance(m) \/ Report(m)
    BY <2>1, <2>5 DEF Advance, Report, election, roles
  <2> QED BY <2>2, <2>3, <2>4, <2>5 DEF ConsumerStep
<1>2. ASSUME m \in up', m \notin leaders', m \notin leaving' PROVE Quiet(m)'
  <2>1. Quiet(m) /\ worker \in [ Mains -> Work ] /\ m \in up /\ m \notin leaders /\ m \notin leaving
    BY <1>1, <1>2 DEF FollowersQuiet, TypeInv, TypeOK
  <2>2. CASE Claim(m)
    <3>1. PICK id \in Rows, v \in Wanted :
             worker' = [worker EXCEPT ![m].phase = "claimed", ![m].id = id, ![m].version = v]
      BY <2>2 DEF Claim
    <3>2. worker'[m].phase = "claimed"
      BY <2>1, <3>1 DEF Work
    <3>3. running' = running
      BY <2>2 DEF Claim
    <3> QED BY <2>1, <3>2, <3>3 DEF Quiet, Applies, Registered
  <2>3. CASE HandBack(m)
    <3>1. worker'[m] = Idle /\ running' = running
      BY <2>1, <2>3 DEF HandBack
    <3> QED BY <2>1, <3>1 DEF Quiet, Applies, Registered, Idle
  <2>4. CASE Resolve(m)
    BY <1>1, <1>2, <2>4 DEF Resolve
  <2>5. CASE Remove(m) \/ Advance(m) \/ Activate(m) \/ Report(m)
    BY <2>1, <2>5 DEF Remove, Advance, Activate, Report, Quiet, Applies
  <2> QED BY <2>2, <2>3, <2>4, <2>5 DEF ConsumerStep
<1> QED BY <1>1, <1>2, QuietStep

\* The reconciler and the recovery of triggers.
LEMMA QuietOthers ==
    ASSUME TypeInv, FollowersQuiet, NEW m \in Mains,
           \/ ReconcilerStep(m) \/ RecoveryStep(m) \/ \E n \in Nodes : TriggerFails(m, n)
    PROVE  FollowersQuiet'
<1>1. running \in [ Mains -> [ Nodes -> Registration \union {None} ] ] /\ up \subseteq Mains
  BY DEF TypeInv, TypeOK, ElectionTypeOK
<1>2. /\ UNCHANGED <<up, leaders, leaving, worker>>
      /\ \A k \in Mains \ {m} : running'[k] = running[k]
      /\ \A n \in Nodes : \/ running'[m][n] = None \/ running'[m][n] = running[m][n]
                          \/ running'[m][n].by = "recovery"
  <2>1. CASE FindSurplus(m) \/ CheckSurplus(m) \/ FindMissing(m)
    BY <1>1, <2>1 DEF FindSurplus, CheckSurplus, FindMissing, PassGoes, election, roles, drains
  <2>2. CASE RemoveSurplus(m)
    BY <1>1, <2>2 DEF RemoveSurplus, PassGoes, election, roles, drains, Nothing
  <2>3. CASE RepublishMissing(m)
    BY <1>1, <2>3 DEF RepublishMissing, election, roles
  <2>4. ASSUME NEW n \in Nodes, TriggerFails(m, n)
        PROVE  /\ UNCHANGED <<up, leaders, leaving, worker>>
               /\ \A k \in Mains \ {m} : running'[k] = running[k]
               /\ \A x \in Nodes : running'[m][x] = None \/ running'[m][x] = running[m][x]
    BY <1>1, <2>4 DEF TriggerFails, roles, drains
  <2>5. ASSUME NEW q \in Nodes \X Contents, Recover(m, q)
        PROVE  /\ UNCHANGED <<up, leaders, leaving, worker>>
               /\ \A k \in Mains \ {m} : running'[k] = running[k]
               /\ \A x \in Nodes : running'[m][x] = running[m][x] \/ running'[m][x].by = "recovery"
    BY <1>1, <2>5 DEF Recover, election, roles, drains
  <2> QED BY <2>1, <2>2, <2>3, <2>4, <2>5 DEF ReconcilerStep, RecoveryStep
<1>3. m \in up' /\ m \notin leaders' /\ m \notin leaving' => Quiet(m)'
  BY <1>2, StaysQuiet DEF Applies
<1> QED BY <1>1, <1>2, <1>3, QuietStep

\* Every step leaves the mains that follow with nothing of their own.
LEMMA QuietNext ==
    ASSUME ~SlowApplies, TypeInv, FollowersQuiet, [Next]_vars
    PROVE  FollowersQuiet'
<1>1. CASE UNCHANGED vars
  BY <1>1, QuietStutter DEF vars, election, roles, drains
<1>2. CASE ElectionStep
  <2>1. Mains # {}
    BY <1>2 DEF ElectionStep, KeyExpires, TypeInv, TypeOK, ElectionTypeOK
  <2>2. up' = up /\ leaders \subseteq leaders'
    BY <1>2, <2>1, ElectionRoles DEF ElectionStep
  <2> QED BY <1>2, <2>2, QuietStutter DEF ElectionStep, drains
<1>3. CASE Publish \/ Unpublish \/ LeaseExpires
  <2>1. UNCHANGED <<up, leaders, leaving, worker, running>>
    BY <1>3 DEF Publish, Unpublish, Request, LeaseExpires, election, roles, drains
  <2> QED BY <2>1, QuietStutter
<1>4. ASSUME NEW m \in Mains,
             \/ RoleStep(m) \/ Claim(m) \/ ConsumerStep(m) \/ ReconcilerStep(m)
             \/ RecoveryStep(m) \/ WakeUp(m) \/ Crash(m) \/ Shutdown(m)
             \/ \E n \in Nodes : TriggerFails(m, n)
      PROVE  FollowersQuiet'
  <2>1. CASE WakeUp(m) \/ \E kind \in {"start", "takeover"} : Arrive(m, kind)
    <3>1. UNCHANGED <<up, leaders, leaving, worker, running>>
      BY <2>1 DEF WakeUp, Arrive, election, roles
    <3> QED BY <3>1, QuietStutter
  <2> QED BY <1>4, <2>1, QuietRole, QuietDrain, QuietOthers DEF RoleStep
<1> QED BY <1>1, <1>2, <1>3, <1>4 DEF Next

-----------------------------------------------------------------------------
(* What the invariants give.                                               *)

\* The three parts of the invariant hold of every behaviour together.
LEMMA SpecPublicationInv ==
    ASSUME ~SlowApplies
    PROVE  Spec => [](TypeInv /\ DrainInv /\ FollowersQuiet)
<1>1. Init => TypeInv /\ DrainInv /\ FollowersQuiet
  BY TypeInit, DrainInit DEF Init, ElectionInit, FollowersQuiet
<1>2. TypeInv /\ DrainInv /\ FollowersQuiet /\ [Next]_vars => (TypeInv /\ DrainInv /\ FollowersQuiet)'
  BY TypeStep, DrainStep, QuietNext
<1> QED BY <1>1, <1>2, PTL DEF Spec

\* A request is never lost or overtaken, whatever enqueues, claims, rows handed
\* back and ends of mains come in between (PublicationOutboxRepository).
THEOREM NewestRequestQueued ==
    ASSUME ~SlowApplies
    PROVE  Spec => []NewestRequestIsQueued
<1>1. TypeInv /\ DrainInv /\ FollowersQuiet => NewestRequestIsQueued
  BY DEF DrainInv, NewestFirst, NewestRequestIsQueued, IsNewest
<1> QED BY <1>1, SpecPublicationInv, PTL

\* Two mains never apply rows of the workflow at the same time (apply).
THEOREM Serialized ==
    ASSUME ~SlowApplies
    PROVE  Spec => []SerializedPerWorkflow
<1>1. TypeInv /\ DrainInv /\ FollowersQuiet => SerializedPerWorkflow
  BY DEF DrainInv, Owned, SerializedPerWorkflow, Applies
<1> QED BY <1>1, SpecPublicationInv, PTL

\* After a completed publication the version wanted, the version published and
\* the triggers recorded agree (WorkflowPublicationStatusReporter.report).
THEOREM TablesAgree ==
    ASSUME ~SlowApplies
    PROVE  Spec => []CompletedTablesAgree
<1>1. TypeInv /\ DrainInv /\ FollowersQuiet => CompletedTablesAgree
  BY DEF DrainInv, NewestFirst, StatusesRecorded, CompletedTablesAgree, InFlight
<1> QED BY <1>1, SpecPublicationInv, PTL

\* An old leader runs nothing once it has taken its triggers down, but for those
\* that were started again (deactivateWorkflow).
THEOREM FollowersRunNothing ==
    ASSUME ~SlowApplies
    PROVE  Spec => []FollowerRunsNothing
<1>1. TypeInv /\ DrainInv /\ FollowersQuiet => FollowerRunsNothing
  BY DEF FollowersQuiet, Quiet, FollowerRunsNothing
<1> QED BY <1>1, SpecPublicationInv, PTL
=============================================================================
