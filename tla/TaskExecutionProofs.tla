------------------------ MODULE TaskExecutionProofs ------------------------
(***************************************************************************)
(* Proofs about TaskExecution, for any number of mains, occurrences,       *)
(* attempts and disruptions.                                               *)
(*                                                                         *)
(* The argument: IInv is inductive.  Steps are grouped by what they can    *)
(* disturb: a fire moves on and its row stays (FireStep), a fire stamps    *)
(* the row it holds (HolderStep), one row changes while memory only        *)
(* shrinks (RowStep), memory shrinks and no row changes (MemoryStep).      *)
(* Each action is an instance of one of them.  The safety properties are   *)
(* conjuncts of IInv; the action properties follow from what each step     *)
(* may write (FireWrites, OtherWrites); and every step is a step of        *)
(* OccurrenceLedger or invisible there.                                    *)
(***************************************************************************)
EXTENDS TaskExecution, TLAPS

\* g is the claim f at another moment of its life.
SameClaim(f, g) ==
    /\ g.task = f.task
    /\ g.host = f.host
    /\ g.epoch = f.epoch
    /\ g.attempts = f.attempts

\* Requeueing keeps attempts and epoch and clears both stamps.
LEMMA RequeuedRow ==
    ASSUME NEW r \in Row
    PROVE  /\ Requeued(r) \in Row
           /\ Requeued(r).status = "pending"
           /\ Requeued(r).attempts = r.attempts
           /\ Requeued(r).epoch = r.epoch
           /\ ~Requeued(r).started
           /\ ~Requeued(r).dispatched
  BY DEF Requeued, Row, Status

\* A claim bumps the epoch and keeps the attempts and the stamps.
LEMMA ClaimedRow ==
    ASSUME NEW r \in Row, NEW h \in Hosts
    PROVE  /\ ClaimRow(r, h) \in Row
           /\ ClaimRow(r, h).status = "running"
           /\ ClaimRow(r, h).claimedBy = h
           /\ ClaimRow(r, h).epoch = r.epoch + 1
           /\ ClaimRow(r, h).attempts = r.attempts
           /\ ClaimRow(r, h).started = r.started
           /\ ClaimRow(r, h).dispatched = r.dispatched
  <1>1. r.epoch + 1 \in Nat
    BY DEF Row
  <1>2. QED
    BY <1>1 DEF ClaimRow, Row, Status

\* A row that counts its last attempt and fails, as the owner or the reaper
\* writes it.
LEMMA FailedRow ==
    ASSUME NEW r \in Row, r.attempts + 1 = MaxAttempts
    PROVE  LET q == [r EXCEPT !.status = "failed", !.attempts = r.attempts + 1]
           IN  /\ q \in Row
               /\ q.status = "failed"
               /\ q.attempts = MaxAttempts
               /\ q.epoch = r.epoch
               /\ q.dispatched = r.dispatched
  <1>1. r.attempts + 1 \in 0..MaxAttempts
    BY MaxAttemptsAssumption
  <1>2. QED
    BY <1>1 DEF Row, Status, Terminal

\* The inductive invariant holds when every occurrence has just been recorded.
THEOREM InitIInv == Init => IInv
  <1> SUFFICES ASSUME Init PROVE IInv
    OBVIOUS
  <1> USE NoHostAssumption, MaxAttemptsAssumption, MaxDisruptionsAssumption
  <1>1. TypeOK
    BY DEF Init, TypeOK, Row, NewRow, Status, Terminal
  <1>2. QED
    BY <1>1 DEF Init, IInv, NewRow, IdleRowIsClean, FiresBehindRow,
       EpochIdentifiesClaim, MutexFreeForHolder, HolderIsCurrent,
       MarkFollowsReport, EffectBehindMark, SweepBehindRow,
       SucceededHasExecution, FailedNeverMarked, AttemptsAccounted,
       OneExecutionPerOccurrence, Executed

-----------------------------------------------------------------------------
(* The four ways a step can disturb the invariant.                         *)

\* A fire becomes a later phase of the same claim; no row changes.
LEMMA FireStep ==
    ASSUME IInv, NEW f \in fires, NEW g \in Fire, Become(f, g), SameClaim(f, g),
           UNCHANGED <<row, host, sweep>>,
           tracked' \in [Hosts -> [Tasks -> Nat]],
           disruptions' \in 0..MaxDisruptions,
           executions \subseteq executions',
           executions' \subseteq [task : Tasks, epoch : Nat],
           OneExecutionPerOccurrence',
           f.mark = "settled" => g.mark = "settled",
           g.phase \notin {"reported", "returned", "threw"} => g.mark = "none",
           g.mark # "none" \/ g.phase \in {"inserted", "reported", "returned"}
             => Executed(f.task)',
           g.phase \in {"claimed", "armed", "releasing", "fired"} =>
             f.phase \in {"claimed", "armed", "releasing", "fired"}
    PROVE  IInv'
  <1> USE DEF SameClaim, Become
  <1>1. TypeOK'
    BY DEF IInv, TypeOK
  <1>2. \A t \in Tasks : Executed(t) => Executed(t)'
    BY DEF Executed
  <1>3. \A e \in fires' : \E d \in fires :
           SameClaim(d, e) /\ (e # g => d = e) /\ (e = g => d = f)
    BY DEF IInv
  <1>4. IdleRowIsClean' /\ FiresBehindRow'
    BY <1>3 DEF IInv, IdleRowIsClean, FiresBehindRow
  <1>5. EpochIdentifiesClaim'
    BY <1>3 DEF IInv, EpochIdentifiesClaim
  <1>6. MutexFreeForHolder'
    BY <1>3 DEF IInv, MutexFreeForHolder, Holds, HeldBy
  <1>7. HolderIsCurrent'
    BY <1>3 DEF IInv, HolderIsCurrent, Holds, HeldBy
  <1>8. EffectBehindMark' /\ MarkFollowsReport'
    BY <1>1, <1>2, <1>3
       DEF IInv, EffectBehindMark, MarkFollowsReport, TypeOK, Fire
  <1>9. SweepBehindRow' /\ SucceededHasExecution' /\ FailedNeverMarked' /\ AttemptsAccounted'
    BY <1>2 DEF IInv, SweepBehindRow, SucceededHasExecution, FailedNeverMarked, AttemptsAccounted
  <1>10. QED
    BY <1>1, <1>4, <1>5, <1>6, <1>7, <1>8, <1>9 DEF IInv

\* One row changes, and what memory holds only shrinks.
LEMMA RowStep ==
    ASSUME IInv, NEW t \in Tasks, NEW q \in Row, SetRow(t, q),
           fires' \subseteq fires,
           \A h \in Hosts : sweep'[h] \subseteq sweep[h],
           UNCHANGED executions, TypeOK',
           row[t].status = "absent" => q.status = "absent",
           q.status # "absent" => row[t].epoch <= q.epoch,
           \A f \in fires' : f.task = t /\ HeldBy(q, f) =>
               /\ HeldBy(row[t], f)
               /\ q.attempts = row[t].attempts
               /\ q.started = row[t].started
               /\ q.dispatched = row[t].dispatched,
           q.status = "running" /\ q.epoch = row[t].epoch =>
               row[t].status = "running" /\ q.attempts = row[t].attempts,
           q.status \in {"pending", "absent"} => ~q.started /\ ~q.dispatched,
           q.status \in {"pending", "running"} => q.attempts < MaxAttempts,
           q.status = "failed" => ~q.dispatched /\ q.attempts = MaxAttempts,
           q.status = "succeeded" \/ q.dispatched => Executed(t)
    PROVE  IInv'
  <1> USE DEF SetRow
  <1>1. /\ row[t] \in Row
        /\ row'[t] = q
        /\ \A u \in Tasks : u # t => row'[u] = row[u]
    BY DEF IInv, TypeOK
  <1>2. \A u \in Tasks : Executed(u)' <=> Executed(u)
    BY DEF Executed
  <1>3. \A f \in fires : f.task \in Tasks /\ f.epoch \in Nat
    BY DEF IInv, TypeOK, Fire
  <1>4. IdleRowIsClean'
    BY <1>1 DEF IInv, IdleRowIsClean
  <1>5. FiresBehindRow'
    BY <1>1, <1>3 DEF IInv, FiresBehindRow, Row
  <1>6. EpochIdentifiesClaim' /\ MarkFollowsReport'
    BY DEF IInv, EpochIdentifiesClaim, MarkFollowsReport
  <1>7. MutexFreeForHolder'
    BY <1>1, <1>3 DEF IInv, MutexFreeForHolder, Holds
  <1>8. HolderIsCurrent'
    BY <1>1, <1>3 DEF IInv, HolderIsCurrent, Holds
  <1>9. EffectBehindMark'
    BY <1>1, <1>2, <1>3 DEF IInv, EffectBehindMark
  <1>10. SweepBehindRow'
    <2> SUFFICES ASSUME NEW h \in Hosts, NEW s \in sweep'[h],
                        row'[s.task].status # "absent"
                 PROVE  /\ s.epoch <= row'[s.task].epoch
                        /\ row'[s.task].status = "running" /\ s.epoch = row'[s.task].epoch
                           => s.attempts = row'[s.task].attempts
      BY DEF SweepBehindRow
    <2>1. s \in sweep[h] /\ s.task \in Tasks /\ s.epoch \in Nat
      BY DEF IInv, TypeOK, ExpiredLeaseRow
    <2>2. row[s.task].status # "absent"
      BY <1>1, <2>1
    <2>3. QED
      BY <1>1, <2>1, <2>2 DEF IInv, SweepBehindRow, Row
  <1>11. SucceededHasExecution' /\ FailedNeverMarked' /\ AttemptsAccounted'
    BY <1>1, <1>2 DEF IInv, SucceededHasExecution, FailedNeverMarked, AttemptsAccounted
  <1>12. OneExecutionPerOccurrence'
    BY DEF IInv, OneExecutionPerOccurrence
  <1>13. QED
    BY <1>4, <1>5, <1>6, <1>7, <1>8, <1>9, <1>10, <1>11, <1>12 DEF IInv

-----------------------------------------------------------------------------
(* The actions.                                                            *)

\* The owner releases, retries, completes or fails its row and is done with
\* it, or finds that it no longer holds it.
LEMMA OwnerWriteStep ==
    ASSUME IInv, NEW f \in fires, NEW q,
           \/ q = ReleaseRow(row[f.task], f)
           \/ q = RescheduleRow(row[f.task], f) /\ ~LastAttempt(f)
           \/ q = CompleteRow(row[f.task], f) /\ Executed(f.task)
           \/ q = FailRow(row[f.task], f) /\ f.mark = "none" /\ LastAttempt(f),
           SetRow(f.task, q), Drop(f),
           UNCHANGED <<executions, host, tracked, sweep>>,
           disruptions' \in 0..MaxDisruptions
    PROVE  IInv'
  <1>1. f.task \in Tasks /\ f \in Fire /\ row[f.task] \in Row
    BY DEF IInv, TypeOK, Fire
  <1>2. fires' \subseteq fires /\ \A h \in Hosts : sweep'[h] \subseteq sweep[h]
    BY DEF Drop
  <1>3. CASE ~HeldBy(row[f.task], f)
    <2>1. q = row[f.task]
      BY <1>3 DEF ReleaseRow, RescheduleRow, CompleteRow, FailRow, GuardedUpdate
    <2>2. TypeOK'
      BY <1>1, <2>1 DEF IInv, TypeOK, SetRow, Drop
    <2>3. /\ q \in Row
          /\ q.epoch \in Nat
          /\ q.status \in {"pending", "absent"} => ~q.started /\ ~q.dispatched
          /\ q.status \in {"pending", "running"} => q.attempts < MaxAttempts
          /\ q.status = "failed" => ~q.dispatched /\ q.attempts = MaxAttempts
          /\ q.status = "succeeded" \/ q.dispatched => Executed(f.task)
      BY <1>1, <2>1 DEF IInv, IdleRowIsClean, FailedNeverMarked, Row,
         AttemptsAccounted, SucceededHasExecution, EffectBehindMark
    <2>4. QED
      BY <1>1, <1>2, <2>1, <2>2, <2>3, RowStep
  <1>4. CASE HeldBy(row[f.task], f)
    <2> DEFINE r == row[f.task]
    <2>1. /\ f.attempts = r.attempts
          /\ r.dispatched => f.mark = "settled"
          /\ r.status = "running"
          /\ r.attempts \in Nat
          /\ r.attempts < MaxAttempts
          /\ r.dispatched => Executed(f.task)
      BY <1>1, <1>4 DEF IInv, HolderIsCurrent, Holds, HeldBy, AttemptsAccounted,
         EffectBehindMark, Row
    <2>2. /\ q \in Row
          /\ q.status \in {"pending", "succeeded", "failed"}
          /\ q.epoch = r.epoch
          /\ q.status = "pending" =>
                ~q.started /\ ~q.dispatched /\ q.attempts < MaxAttempts
          /\ q.status = "succeeded" => Executed(f.task)
          /\ q.status = "failed" => ~q.dispatched /\ q.attempts = MaxAttempts
          /\ q.dispatched => Executed(f.task)
      <3> USE <1>1, <1>4, <2>1, MaxAttemptsAssumption
          DEF GuardedUpdate, LastAttempt, Row, Status, Terminal
      <3>1. CASE q = ReleaseRow(r, f)
        BY <3>1, RequeuedRow DEF ReleaseRow
      <3>2. CASE q = RescheduleRow(r, f) /\ ~LastAttempt(f)
        <4>1. r.attempts + 1 \in 0..MaxAttempts /\ r.attempts + 1 < MaxAttempts
          BY <3>2
        <4>2. q = [Requeued(r) EXCEPT !.attempts = Requeued(r).attempts + 1]
          BY <3>2 DEF RescheduleRow
        <4>3. QED
          BY <4>1, <4>2, RequeuedRow
      <3>3. CASE q = CompleteRow(r, f) /\ Executed(f.task)
        BY <3>3 DEF CompleteRow
      <3>4. CASE q = FailRow(r, f) /\ f.mark = "none" /\ LastAttempt(f)
        <4>1. ~r.dispatched
          BY <3>4
        <4>2. f.attempts + 1 >= MaxAttempts /\ f.attempts = r.attempts
          BY <3>4
        <4>3. r.attempts + 1 = MaxAttempts
          BY <4>2
        <4>4. QED
          BY <3>4, <4>1, <4>3, FailedRow DEF FailRow
      <3>5. QED
        BY <3>1, <3>2, <3>3, <3>4
    <2>3. TypeOK'
      BY <1>1, <2>2 DEF IInv, TypeOK, SetRow, Drop
    <2>4. /\ q.epoch \in Nat
          /\ \A g \in fires' : ~HeldBy(q, g)
      BY <2>2 DEF HeldBy, Row
    <2>5. QED
      BY <1>1, <1>2, <2>1, <2>2, <2>3, <2>4, RowStep
  <1>5. QED
    BY <1>3, <1>4

\* No row changes, and what memory holds only shrinks.
LEMMA MemoryStep ==
    ASSUME IInv, TypeOK', UNCHANGED <<row, executions>>,
           fires' \subseteq fires,
           \A h \in Hosts : sweep'[h] \subseteq sweep[h]
    PROVE  IInv'
  <1>1. \A t \in Tasks : Executed(t)' <=> Executed(t)
    BY DEF Executed
  <1>2. \A f \in fires : f.task \in Tasks
    BY DEF IInv, TypeOK, Fire
  <1>3. /\ IdleRowIsClean' /\ FiresBehindRow' /\ EpochIdentifiesClaim'
        /\ MarkFollowsReport'
    BY DEF IInv, IdleRowIsClean, FiresBehindRow, EpochIdentifiesClaim,
       MarkFollowsReport
  <1>4. MutexFreeForHolder' /\ HolderIsCurrent'
    BY DEF IInv, MutexFreeForHolder, HolderIsCurrent, Holds, HeldBy
  <1>5. EffectBehindMark' /\ SucceededHasExecution'
    BY <1>1, <1>2 DEF IInv, EffectBehindMark, SucceededHasExecution
  <1>6. SweepBehindRow' /\ FailedNeverMarked' /\ AttemptsAccounted'
    BY DEF IInv, SweepBehindRow, FailedNeverMarked, AttemptsAccounted
  <1>7. QED
    BY <1>3, <1>4, <1>5, <1>6 DEF IInv, OneExecutionPerOccurrence

\* A main claims a due row: a new epoch, and a fire that is ahead of all others.
LEMMA ClaimStep ==
    ASSUME IInv, NEW h \in Hosts, NEW t \in Tasks, ClaimDueTasks(h, t)
    PROVE  IInv'
  <1> DEFINE c == ClaimRow(row[t], h)
             n == [ task |-> t, host |-> h, epoch |-> c.epoch,
                    attempts |-> c.attempts, phase |-> "claimed",
                    mark |-> "none" ]
  <1>1. /\ row[t] \in Row
        /\ row[t].status = "pending"
        /\ row'[t] = c
        /\ \A u \in Tasks : u # t => row'[u] = row[u]
        /\ fires' = fires \union {n}
        /\ UNCHANGED <<executions, host, tracked, sweep, disruptions>>
    BY DEF ClaimDueTasks, SetRow, IInv, TypeOK
  <1>2. /\ c \in Row
        /\ c.status = "running"
        /\ c.claimedBy = h
        /\ c.epoch = row[t].epoch + 1
        /\ c.attempts = row[t].attempts
        /\ ~c.started
        /\ ~c.dispatched
        /\ c.attempts < MaxAttempts
    BY <1>1, ClaimedRow DEF IInv, IdleRowIsClean, AttemptsAccounted
  <1>3. n \in Fire
    <2>1. c.epoch \in Nat /\ c.attempts \in Nat
      BY <1>2, MaxAttemptsAssumption DEF Row
    <2>2. "claimed" \in Phases
      BY DEF Phases
    <2> HIDE DEF c
    <2>3. QED
      BY <2>1, <2>2 DEF Fire
  <1>4. \A f \in fires :
          /\ f.task \in Tasks
          /\ f.epoch \in Nat
          /\ f.task = t => f.epoch < c.epoch
    BY <1>1, <1>2 DEF IInv, TypeOK, Fire, FiresBehindRow, Row
  <1> HIDE DEF c
  <1>5. TypeOK'
    BY <1>1, <1>2, <1>3 DEF IInv, TypeOK, ClaimDueTasks, SetRow, c
  <1>6. \A u \in Tasks : Executed(u)' <=> Executed(u)
    BY <1>1 DEF Executed
  <1>7. IdleRowIsClean' /\ SucceededHasExecution' /\ FailedNeverMarked'
        /\ AttemptsAccounted' /\ OneExecutionPerOccurrence'
    BY <1>1, <1>2, <1>6 DEF IInv, IdleRowIsClean, SucceededHasExecution,
       FailedNeverMarked, AttemptsAccounted, OneExecutionPerOccurrence
  <1>8. FiresBehindRow' /\ EpochIdentifiesClaim'
    BY <1>1, <1>2, <1>4 DEF IInv, FiresBehindRow, EpochIdentifiesClaim, Row
  <1>9. MutexFreeForHolder' /\ HolderIsCurrent'
    BY <1>1, <1>2, <1>4 DEF IInv, MutexFreeForHolder, HolderIsCurrent, Holds,
       HeldBy
  <1>10. EffectBehindMark' /\ MarkFollowsReport'
    BY <1>1, <1>2, <1>4, <1>6 DEF IInv, EffectBehindMark, MarkFollowsReport
  <1>11. SweepBehindRow'
    <2>1. \A g \in Hosts : \A s \in sweep[g] : s.task \in Tasks /\ s.epoch \in Nat
      BY DEF IInv, TypeOK, ExpiredLeaseRow
    <2>2. QED
      BY <1>1, <1>2, <2>1 DEF IInv, SweepBehindRow, Row
  <1>12. QED
    BY <1>5, <1>7, <1>8, <1>9, <1>10, <1>11 DEF IInv

\* The claim that holds a row stamps it and goes on.
LEMMA HolderStep ==
    ASSUME IInv, NEW f \in fires, NEW g \in Fire, NEW q \in Row,
           SetRow(f.task, q), Become(f, g), SameClaim(f, g),
           UNCHANGED <<executions, host, tracked, sweep, disruptions>>,
           HeldBy(row[f.task], f),
           q.status = "running",
           q.claimedBy = row[f.task].claimedBy,
           q.epoch = row[f.task].epoch,
           q.attempts = row[f.task].attempts,
           q.started => row[f.task].started \/ g.phase = "running",
           g.phase \in {"claimed", "armed", "releasing", "fired"} =>
             f.phase = g.phase,
           q.dispatched => g.mark = "settled",
           g.phase \notin {"reported", "returned", "threw"} => g.mark = "none",
           q.dispatched \/ g.mark # "none"
             \/ g.phase \in {"inserted", "reported", "returned"} => Executed(f.task)
    PROVE  IInv'
  <1> DEFINE t == f.task
  <1>1. /\ f \in Fire /\ t \in Tasks /\ row[t] \in Row
        /\ row[t].status = "running"
        /\ row'[t] = q
        /\ \A u \in Tasks : u # t => row'[u] = row[u]
    BY DEF IInv, TypeOK, Fire, SetRow, HeldBy
  <1>2. TypeOK'
    BY <1>1 DEF IInv, TypeOK, SetRow, Become
  <1>3. /\ fires' = (fires \ {f}) \union {g}
        /\ g.task = t /\ g.host = f.host /\ g.epoch = f.epoch
        /\ g.attempts = f.attempts
        /\ q.epoch = f.epoch
    BY DEF SameClaim, Become, HeldBy
  <1>4. \A e \in fires \ {f} :
          e \in Fire /\ e.task \in Tasks /\ (e.task = t => e.epoch # q.epoch)
    BY <1>3 DEF IInv, TypeOK, Fire, EpochIdentifiesClaim
  <1>5. \A u \in Tasks : Executed(u)' <=> Executed(u)
    BY DEF Executed
  <1>6. IdleRowIsClean' /\ SucceededHasExecution' /\ FailedNeverMarked'
        /\ AttemptsAccounted' /\ OneExecutionPerOccurrence'
    BY <1>1, <1>5 DEF IInv, IdleRowIsClean, SucceededHasExecution,
       FailedNeverMarked, AttemptsAccounted, OneExecutionPerOccurrence
  <1> HIDE DEF t
  <1>7. FiresBehindRow'
    <2>1. f.epoch <= row[t].epoch
      BY <1>1 DEF IInv, FiresBehindRow, t
    <2>2. \A e \in fires : row'[e.task].status = "absent" \/ e.epoch <= row'[e.task].epoch
      BY <1>1, <1>4, <2>1 DEF IInv, FiresBehindRow, t
    <2>3. g.epoch <= row'[g.task].epoch
      BY <1>1, <1>3, <2>1 DEF Fire
    <2>4. QED
      BY <1>3, <2>2, <2>3 DEF FiresBehindRow
  <1>8. EpochIdentifiesClaim'
    <2>1. f.task = t
      BY DEF t
    <2>2. \A e, d \in fires \ {f} : e.task = d.task /\ e.epoch = d.epoch => e = d
      BY DEF IInv, EpochIdentifiesClaim
    <2>3. QED
      BY <1>3, <1>4, <2>1, <2>2 DEF EpochIdentifiesClaim
  <1>9. MutexFreeForHolder'
    <2>1. \A e \in fires \ {f} :
            /\ HeldBy(row'[e.task], e)
            /\ e.phase \in {"claimed", "armed", "releasing", "fired"}
            => ~row'[e.task].started
      BY <1>1, <1>4 DEF IInv, MutexFreeForHolder, Holds, HeldBy
    <2>2. /\ HeldBy(q, g)
          /\ g.phase \in {"claimed", "armed", "releasing", "fired"}
          => ~q.started
      BY <1>1 DEF IInv, MutexFreeForHolder, Holds, t
    <2>3. QED
      BY <1>1, <1>3, <2>1, <2>2 DEF MutexFreeForHolder, Holds
  <1>10. HolderIsCurrent'
    <2>1. \A e \in fires \ {f} : HeldBy(row'[e.task], e) =>
            /\ e.attempts = row'[e.task].attempts
            /\ row'[e.task].dispatched => e.mark = "settled"
      BY <1>1, <1>4 DEF IInv, HolderIsCurrent, Holds, HeldBy
    <2>2. f.attempts = row[t].attempts
      BY DEF IInv, HolderIsCurrent, Holds, t
    <2>3. QED
      BY <1>1, <1>3, <2>1, <2>2 DEF HolderIsCurrent, Holds, t
  <1>11. EffectBehindMark' /\ MarkFollowsReport'
    BY <1>1, <1>3, <1>4, <1>5 DEF IInv, EffectBehindMark, MarkFollowsReport, t
  <1>12. SweepBehindRow'
    BY <1>1 DEF IInv, TypeOK, ExpiredLeaseRow, SweepBehindRow, t
  <1>13. QED
    BY <1>2, <1>6, <1>7, <1>8, <1>9, <1>10, <1>11, <1>12 DEF IInv

\* The pre-dispatch mutex is won by the holder, or the fire ends.
LEMMA BeginDispatchStep ==
    ASSUME IInv, NEW f \in fires, BeginDispatch(f)
    PROVE  IInv'
  <1>1. /\ f \in Fire /\ f.task \in Tasks /\ row[f.task] \in Row
        /\ UNCHANGED <<executions, host, tracked, sweep, disruptions>>
    BY DEF IInv, TypeOK, Fire, BeginDispatch
  <1>2. CASE ~WinsDispatch(row[f.task], f)
    <2>1. UNCHANGED row /\ fires' = fires \ {f}
      BY <1>1, <1>2 DEF BeginDispatch, BeginDispatchRow, SetRow, Drop, IInv, TypeOK
    <2>2. TypeOK'
      BY <1>1, <2>1 DEF IInv, TypeOK
    <2>3. QED
      BY <1>1, <2>1, <2>2, MemoryStep
  <1>3. CASE WinsDispatch(row[f.task], f)
    <2> DEFINE q == BeginDispatchRow(row[f.task], f)
               g == [f EXCEPT !.phase = "running"]
    <2>1. SetRow(f.task, q) /\ Become(f, g) /\ f.phase = "fired"
      BY <1>3 DEF BeginDispatch, Advance
    <2>2. /\ q \in Row
          /\ q.status = "running"
          /\ q.claimedBy = row[f.task].claimedBy
          /\ q.epoch = row[f.task].epoch
          /\ q.attempts = row[f.task].attempts
          /\ q.dispatched = row[f.task].dispatched
          /\ HeldBy(row[f.task], f)
      BY <1>1, <1>3 DEF BeginDispatchRow, WinsDispatch, HeldBy, Row
    <2>3. g \in Fire /\ SameClaim(f, g) /\ g.phase = "running" /\ g.mark = f.mark
      BY <1>1 DEF Fire, Phases, HandlerPhases, SameClaim
    <2>4. /\ row[f.task].dispatched => f.mark = "settled"
          /\ row[f.task].dispatched \/ f.mark # "none" => Executed(f.task)
          /\ f.mark = "none"
      BY <1>1, <2>1, <2>2 DEF IInv, HolderIsCurrent, EffectBehindMark, Holds,
         MarkFollowsReport
    <2> HIDE DEF q, g
    <2>5. QED
      BY <1>1, <2>1, <2>2, <2>3, <2>4, HolderStep
  <1>4. QED
    BY <1>2, <1>3

\* The marker reaches the row of the holder, or misses a row it has lost.
LEMMA MarkDispatchedStep ==
    ASSUME IInv, NEW f \in fires, MarkDispatched(f)
    PROVE  IInv'
  <1> DEFINE q == MarkDispatchedRow(row[f.task], f)
             g == [f EXCEPT !.mark = "settled"]
  <1>1. /\ f \in Fire /\ f.task \in Tasks /\ row[f.task] \in Row
        /\ UNCHANGED <<executions, host, tracked, sweep, disruptions>>
        /\ SetRow(f.task, q) /\ Become(f, g) /\ f.mark = "sent"
        /\ Executed(f.task)
        /\ f.phase \in {"reported", "returned", "threw"}
    BY DEF IInv, TypeOK, Fire, MarkDispatched, EffectBehindMark, MarkFollowsReport
  <1>2. g \in Fire /\ SameClaim(f, g) /\ g.phase = f.phase /\ g.mark = "settled"
    BY <1>1 DEF Fire, SameClaim
  <1>3. CASE ~HeldBy(row[f.task], f)
    <2>1. UNCHANGED row
      BY <1>1, <1>3 DEF MarkDispatchedRow, GuardedUpdate, SetRow, IInv, TypeOK
    <2>2. UNCHANGED OneExecutionPerOccurrence /\ UNCHANGED Executed(f.task)
      BY <1>1 DEF OneExecutionPerOccurrence, Executed
    <2> HIDE DEF q, g
    <2>3. /\ tracked' \in [Hosts -> [Tasks -> Nat]]
          /\ disruptions' \in 0..MaxDisruptions
          /\ executions' \subseteq [task : Tasks, epoch : Nat]
          /\ executions \subseteq executions'
          /\ OneExecutionPerOccurrence'
      BY <1>1, <2>2 DEF IInv, TypeOK
    <2>4. QED
      BY <1>1, <1>2, <2>1, <2>2, <2>3, FireStep
  <1>4. CASE HeldBy(row[f.task], f)
    <2>1. /\ q \in Row
          /\ q.status = "running"
          /\ q.claimedBy = row[f.task].claimedBy
          /\ q.epoch = row[f.task].epoch
          /\ q.attempts = row[f.task].attempts
          /\ q.started = row[f.task].started
      BY <1>1, <1>4 DEF MarkDispatchedRow, GuardedUpdate, HeldBy, Row
    <2> HIDE DEF q, g
    <2>2. QED
      BY <1>1, <1>2, <1>4, <2>1, HolderStep
  <1>5. QED
    BY <1>3, <1>4

\* The reaper completes, dead-letters or requeues a row that is still as the
\* sweep read it, or changes nothing.
LEMMA ReapStep ==
    ASSUME IInv, NEW h \in Hosts, NEW s \in sweep[h], Reap(h, s)
    PROVE  IInv'
  <1> DEFINE t == s.task
             r == row[t]
             q == row'[t]
  <1>1. s \in ExpiredLeaseRow /\ t \in Tasks /\ r \in Row
    BY DEF IInv, TypeOK, ExpiredLeaseRow
  <1>2. /\ UNCHANGED <<executions, host, fires, tracked, disruptions>>
        /\ sweep' = [sweep EXCEPT ![h] = @ \ {s}]
        /\ row' = [row EXCEPT ![t] = q]
        /\ \/ q = CompleteExpiredRow(r, s)
           \/ q = DeadLetterExpiredRow(r, s) /\ LastAttempt(s)
           \/ q = ReclaimExpiredRow(r, s) /\ ~LastAttempt(s)
    BY <1>1 DEF Reap, CompleteExpired, DeadLetterExpired, ReclaimExpired,
       Decided, SetRow, IInv, TypeOK
  <1>3. StillExpired(r, s) =>
          /\ r.attempts = s.attempts
          /\ r.attempts \in Nat
          /\ r.attempts < MaxAttempts
          /\ r.status = "running"
          /\ r.epoch \in Nat
          /\ r.dispatched => Executed(t)
    BY <1>1 DEF IInv, SweepBehindRow, StillExpired, AttemptsAccounted,
       EffectBehindMark, Row
  <1>4. \A g \in Hosts : sweep'[g] \subseteq sweep[g]
    BY <1>2 DEF IInv, TypeOK
  <1>5. /\ r.status \in {"pending", "absent"} => ~r.started /\ ~r.dispatched
        /\ r.status \in {"pending", "running"} => r.attempts < MaxAttempts
        /\ r.status = "failed" => ~r.dispatched /\ r.attempts = MaxAttempts
        /\ r.status = "succeeded" \/ r.dispatched => Executed(t)
        /\ r.epoch \in Nat
    BY <1>1 DEF IInv, IdleRowIsClean, AttemptsAccounted, FailedNeverMarked,
       SucceededHasExecution, EffectBehindMark, Row
  <1> HIDE DEF r, q
  <1>6. /\ q \in Row
        /\ q = r \/ q.status # "running"
        /\ q.epoch \in Nat /\ r.epoch <= q.epoch
        /\ r.status = "absent" => q.status = "absent"
        /\ q.status \in {"pending", "absent"} => ~q.started /\ ~q.dispatched
        /\ q.status \in {"pending", "running"} => q.attempts < MaxAttempts
        /\ q.status = "failed" => ~q.dispatched /\ q.attempts = MaxAttempts
        /\ q.status = "succeeded" \/ q.dispatched => Executed(t)
    <2>1. CASE q = r
      BY <1>1, <1>5, <2>1
    <2>2. CASE q = CompleteExpiredRow(r, s) /\ q # r
      BY <1>1, <1>3, <2>2 DEF CompleteExpiredRow, Row, Status, Terminal
    <2>3. CASE q = DeadLetterExpiredRow(r, s) /\ LastAttempt(s) /\ q # r
      <3>1. StillExpired(r, s) /\ ~r.dispatched
        BY <2>3 DEF DeadLetterExpiredRow
      <3>2. r.attempts + 1 = MaxAttempts
        BY <1>3, <2>3, <3>1, MaxAttemptsAssumption DEF LastAttempt
      <3>3. q = [r EXCEPT !.status = "failed", !.attempts = r.attempts + 1]
        BY <2>3, <3>1 DEF DeadLetterExpiredRow
      <3>4. /\ q \in Row
            /\ q.status = "failed"
            /\ q.attempts = MaxAttempts
            /\ q.epoch = r.epoch
            /\ q.dispatched = r.dispatched
        BY <1>1, <3>2, <3>3, FailedRow
      <3>5. QED
        BY <1>3, <3>1, <3>4
    <2>4. CASE q = ReclaimExpiredRow(r, s) /\ ~LastAttempt(s) /\ q # r
      <3>1. StillExpired(r, s) /\ ~r.dispatched
        BY <2>4 DEF ReclaimExpiredRow
      <3>2. /\ r.attempts + 1 \in 0..MaxAttempts /\ r.attempts + 1 < MaxAttempts
            /\ r.epoch + 1 \in Nat
        BY <1>3, <2>4, <3>1, MaxAttemptsAssumption DEF LastAttempt
      <3>3. q = [Requeued(r) EXCEPT !.attempts = Requeued(r).attempts + 1,
                                    !.epoch = Requeued(r).epoch + 1]
        BY <2>4, <3>1 DEF ReclaimExpiredRow
      <3>4. /\ q \in Row
            /\ q.status = "pending"
            /\ q.attempts = r.attempts + 1
            /\ q.epoch = r.epoch + 1
            /\ ~q.started
            /\ ~q.dispatched
        BY <1>1, <3>2, <3>3, RequeuedRow DEF Row
      <3>5. QED
        BY <1>3, <3>1, <3>2, <3>4
    <2>5. QED
      BY <1>2, <2>1, <2>2, <2>3, <2>4
  <1>7. TypeOK'
    <2>1. row' \in [Tasks -> Row] /\ sweep' \in [Hosts -> SUBSET ExpiredLeaseRow]
      BY <1>1, <1>2, <1>6 DEF IInv, TypeOK
    <2>2. QED
      BY <1>2, <2>1 DEF IInv, TypeOK
  <1>8. /\ SetRow(t, q) /\ fires' \subseteq fires
        /\ \A f \in fires' : f.task = t /\ HeldBy(q, f) => q = r
        /\ q.status = "running" => q = r
    BY <1>2, <1>6 DEF SetRow, HeldBy
  <1>9. QED
    BY <1>1, <1>2, <1>4, <1>6, <1>7, <1>8, RowStep DEF r

\* The lease runs out, or the row is deleted.
LEMMA ExternalStep ==
    ASSUME IInv, NEW t \in Tasks,
           LeaseExpires(t) \/ PruneFinished(t) \/ DeleteTask(t)
    PROVE  IInv'
  <1> DEFINE q == row'[t]
  <1>1. /\ row[t] \in Row
        /\ UNCHANGED <<executions, host, fires, tracked, sweep, disruptions>>
        /\ SetRow(t, q)
        /\ \/ q = AbsentRow
           \/ q = [row[t] EXCEPT !.lease = "expired"] /\ row[t].status = "running"
    BY DEF LeaseExpires, PruneFinished, DeleteTask, SetRow, IInv, TypeOK
  <1>2. /\ row[t].status = "running" => row[t].attempts < MaxAttempts
        /\ row[t].dispatched => Executed(t)
        /\ row[t].epoch \in Nat
    BY <1>1 DEF IInv, AttemptsAccounted, EffectBehindMark, Row
  <1> HIDE DEF q
  <1>3. CASE q = AbsentRow
    <2>1. q \in Row /\ q.status = "absent" /\ ~q.started /\ ~q.dispatched
      <3>1. NewRow \in Row /\ ~NewRow.started /\ ~NewRow.dispatched
        BY MaxAttemptsAssumption DEF NewRow, Row, Status
      <3>2. AbsentRow = [NewRow EXCEPT !.status = "absent"]
        BY DEF AbsentRow
      <3>3. QED
        BY <1>3, <3>1, <3>2 DEF Row, Status
    <2>2. TypeOK'
      BY <1>1, <2>1 DEF IInv, TypeOK, SetRow
    <2>3. QED
      BY <1>1, <2>1, <2>2, RowStep DEF HeldBy
  <1>4. CASE q = [row[t] EXCEPT !.lease = "expired"] /\ row[t].status = "running"
    <2>1. /\ q \in Row /\ q.status = "running"
          /\ q.attempts = row[t].attempts /\ q.epoch = row[t].epoch
          /\ q.started = row[t].started /\ q.dispatched = row[t].dispatched
          /\ q.claimedBy = row[t].claimedBy
      BY <1>1, <1>4 DEF Row
    <2>2. TypeOK'
      BY <1>1, <2>1 DEF IInv, TypeOK, SetRow
    <2>3. /\ \A f \in fires' : HeldBy(q, f) => HeldBy(row[t], f)
          /\ row[t].epoch <= q.epoch
          /\ q.attempts < MaxAttempts
          /\ q.dispatched => Executed(t)
          /\ fires' \subseteq fires
          /\ UNCHANGED executions
          /\ \A h \in Hosts : sweep'[h] \subseteq sweep[h]
      BY <1>1, <1>2, <2>1, <1>4 DEF HeldBy
    <2>4. QED
      BY <1>1, <1>4, <2>1, <2>2, <2>3, RowStep
  <1>5. QED
    BY <1>1, <1>3, <1>4

\* A fire goes on without a statement on its row.
LEMMA QuietFireStep ==
    ASSUME IInv, NEW f \in fires,
           \/ ScheduleClaimed(f) \/ TimerFires(f) \/ RunWorkflow(f)
           \/ SkipDuplicate(f) \/ ReportDispatched(f) \/ HandlerReturns(f)
           \/ HandlerThrows(f) \/ LoseMark(f)
    PROVE  IInv'
  <1>1. /\ f \in Fire
        /\ f.mark # "none" \/ f.phase \in {"inserted", "reported", "returned"}
           => Executed(f.task)
        /\ f.phase \notin {"reported", "returned", "threw"} => f.mark = "none"
        /\ disruptions \in 0..MaxDisruptions
        /\ executions \subseteq [task : Tasks, epoch : Nat]
        /\ tracked \in [Hosts -> [Tasks -> Nat]]
    BY DEF IInv, TypeOK, EffectBehindMark, MarkFollowsReport
  <1>2. f.task \in Tasks /\ f.host \in Hosts /\ f.epoch \in Nat
    BY <1>1 DEF Fire
  <1>3. UNCHANGED executions =>
          /\ OneExecutionPerOccurrence'
          /\ Executed(f.task)' <=> Executed(f.task)
    BY DEF IInv, OneExecutionPerOccurrence, Executed
  <1> DEFINE Early == {"claimed", "armed", "releasing", "fired"}
  <1>4. ASSUME NEW g, Become(f, g), g \in Fire, SameClaim(f, g),
               UNCHANGED <<row, host, sweep, executions>>,
               tracked' \in [Hosts -> [Tasks -> Nat]],
               disruptions' \in 0..MaxDisruptions,
               f.mark = "settled" => g.mark = "settled",
               g.phase \notin {"reported", "returned", "threw"} => g.mark = "none",
               g.mark # "none" \/ g.phase \in {"inserted", "reported", "returned"}
                 => Executed(f.task),
               g.phase \in Early => f.phase \in Early
        PROVE  IInv'
    BY <1>1, <1>3, <1>4, FireStep
  <1>5. CASE ScheduleClaimed(f)
    <2> DEFINE g == [f EXCEPT !.phase = "armed"]
    <2>1. g \in Fire /\ SameClaim(f, g) /\ g.mark = f.mark /\ g.phase = "armed"
      BY <1>1 DEF Fire, Phases, SameClaim
    <2>2. tracked' \in [Hosts -> [Tasks -> Nat]]
      BY <1>1, <1>2, <1>5 DEF ScheduleClaimed
    <2>3. QED
      BY <1>1, <1>4, <1>5, <2>1, <2>2 DEF ScheduleClaimed, Advance
  <1>6. CASE TimerFires(f)
    <2> DEFINE g == [f EXCEPT !.phase = "fired"]
    <2>1. g \in Fire /\ SameClaim(f, g) /\ g.mark = f.mark /\ g.phase = "fired"
      BY <1>1 DEF Fire, Phases, SameClaim
    <2>2. tracked' \in [Hosts -> [Tasks -> Nat]]
      BY <1>1, <1>2, <1>6 DEF TimerFires
    <2>3. QED
      BY <1>1, <1>4, <1>6, <2>1, <2>2 DEF TimerFires, Advance
  <1>7. CASE RunWorkflow(f)
    <2> DEFINE g == [f EXCEPT !.phase = "inserted"]
               x == [task |-> f.task, epoch |-> f.epoch]
    <2>1. g \in Fire /\ SameClaim(f, g) /\ g.mark = f.mark /\ g.phase = "inserted"
      BY <1>1 DEF Fire, Phases, HandlerPhases, SameClaim
    <2>2. /\ executions' = executions \union {x}
          /\ x \in [task : Tasks, epoch : Nat]
          /\ ~Executed(f.task)
          /\ UNCHANGED <<row, host, tracked, sweep, disruptions>>
          /\ Become(f, g)
      BY <1>2, <1>7 DEF RunWorkflow, HasExecution, Advance
    <2>3. OneExecutionPerOccurrence' /\ Executed(f.task)'
      <3>1. x.task = f.task /\ \A y \in executions : y.task # f.task
        BY <2>2 DEF Executed
      <3> HIDE DEF x
      <3>2. QED
        BY <2>2, <3>1 DEF IInv, OneExecutionPerOccurrence, Executed
    <2> HIDE DEF g, x
    <2>4. QED
      BY <1>1, <2>1, <2>2, <2>3, FireStep
  <1>8. CASE SkipDuplicate(f)
    <2> DEFINE g == [f EXCEPT !.phase = "returned", !.mark = "sent"]
    <2>1. g \in Fire /\ SameClaim(f, g) /\ g.mark = "sent" /\ g.phase = "returned"
      BY <1>1 DEF Fire, Phases, SameClaim
    <2>2. QED
      BY <1>1, <1>4, <1>8, <2>1 DEF SkipDuplicate, HasExecution
  <1>9. CASE ReportDispatched(f)
    <2> DEFINE g == [f EXCEPT !.phase = "reported", !.mark = "sent"]
    <2>1. g \in Fire /\ SameClaim(f, g) /\ g.mark = "sent" /\ g.phase = "reported"
      BY <1>1 DEF Fire, Phases, HandlerPhases, SameClaim
    <2>2. QED
      BY <1>1, <1>4, <1>9, <2>1 DEF ReportDispatched
  <1>10. CASE HandlerReturns(f)
    <2> DEFINE g == [f EXCEPT !.phase = "returned"]
    <2>1. g \in Fire /\ SameClaim(f, g) /\ g.mark = f.mark /\ g.phase = "returned"
      BY <1>1 DEF Fire, Phases, SameClaim
    <2>2. QED
      BY <1>1, <1>4, <1>10, <2>1 DEF HandlerReturns, Advance
  <1>11. CASE HandlerThrows(f)
    <2> DEFINE g == [f EXCEPT !.phase = "threw"]
    <2>1. g \in Fire /\ SameClaim(f, g) /\ g.mark = f.mark /\ g.phase = "threw"
      BY <1>1 DEF Fire, Phases, SameClaim
    <2>2. QED
      BY <1>1, <1>4, <1>11, <2>1 DEF HandlerThrows, Advance
  <1>12. CASE LoseMark(f)
    <2> DEFINE g == [f EXCEPT !.mark = "settled"]
    <2>1. g \in Fire /\ SameClaim(f, g) /\ g.mark = "settled" /\ g.phase = f.phase
      BY <1>1 DEF Fire, Phases, SameClaim
    <2>2. disruptions' \in 0..MaxDisruptions
      BY <1>1, <1>12, MaxDisruptionsAssumption DEF LoseMark, Disrupt
    <2>3. QED
      BY <1>1, <1>4, <1>12, <2>1, <2>2 DEF LoseMark
  <1>13. QED
    BY <1>5, <1>6, <1>7, <1>8, <1>9, <1>10, <1>11, <1>12

\* The writes that end a fire: of its outcome, or handing the claim back.
LEMMA LastWriteStep ==
    ASSUME IInv, NEW f \in fires,
           \/ HandBackClaims(f) \/ ReleaseUnhandled(f) \/ ReleaseOnStop(f)
           \/ RecordSuccess(f) \/ CompleteDispatched(f) \/ DeadLetter(f)
           \/ Reschedule(f)
    PROVE  IInv'
  <1>1. disruptions' \in 0..MaxDisruptions
    BY MaxDisruptionsAssumption DEF HandBackClaims, ReleaseUnhandled,
       ReleaseOnStop, RecordSuccess, CompleteDispatched, DeadLetter,
       Reschedule, Disrupt, IInv, TypeOK
  <1>2. f.mark # "none" => Executed(f.task)
    BY DEF IInv, EffectBehindMark
  <1>3. CASE HandBackClaims(f) \/ ReleaseUnhandled(f) \/ ReleaseOnStop(f)
    BY <1>1, <1>3, OwnerWriteStep
       DEF HandBackClaims, ReleaseUnhandled, ReleaseOnStop
  <1>4. CASE RecordSuccess(f) \/ CompleteDispatched(f)
    BY <1>1, <1>2, <1>4, OwnerWriteStep DEF RecordSuccess, CompleteDispatched
  <1>5. CASE DeadLetter(f)
    BY <1>1, <1>5, OwnerWriteStep DEF DeadLetter
  <1>6. CASE Reschedule(f)
    BY <1>1, <1>6, OwnerWriteStep DEF Reschedule
  <1>7. QED
    BY <1>3, <1>4, <1>5, <1>6

\* Steps that write nothing to the database and only forget: a failed
\* statement, the end or the start of a process, a row or a sweep given up.
LEMMA ForgetStep ==
    ASSUME IInv, NEW h \in Hosts,
           \/ \E f \in fires : StatementFails(f)
           \/ Exit(h) \/ Crash(h) \/ Restart(h) \/ AbortSweep(h)
           \/ \E s \in sweep[h] : SkipRow(h, s)
    PROVE  IInv'
  <1> USE MaxDisruptionsAssumption DEF IInv, TypeOK, Disrupt
  <1>1. ASSUME NEW f \in fires, StatementFails(f)
        PROVE  IInv'
    <2>1. TypeOK' /\ fires' \subseteq fires /\ UNCHANGED <<row, executions, sweep>>
      BY <1>1 DEF StatementFails, Drop
    <2>2. QED
      BY <2>1, MemoryStep
  <1>2. CASE Exit(h) \/ Crash(h)
    <2>1. LoseMemory(h) /\ disruptions' \in 0..MaxDisruptions
      BY <1>2 DEF Exit, Crash
    <2>2. TypeOK' /\ fires' \subseteq fires /\ UNCHANGED <<row, executions>>
      BY <2>1 DEF LoseMemory
    <2>3. \A g \in Hosts : sweep'[g] \subseteq sweep[g]
      BY <2>1 DEF LoseMemory
    <2>4. QED
      BY <2>2, <2>3, MemoryStep
  <1>3. CASE Restart(h)
    <2>1. TypeOK' /\ UNCHANGED <<row, executions, fires, sweep>>
      BY <1>3 DEF Restart
    <2>2. QED
      BY <2>1, MemoryStep
  <1>4. CASE AbortSweep(h)
    <2>1. TypeOK' /\ UNCHANGED <<row, executions, fires>>
      BY <1>4 DEF AbortSweep
    <2>2. \A g \in Hosts : sweep'[g] \subseteq sweep[g]
      BY <1>4 DEF AbortSweep
    <2>3. QED
      BY <2>1, <2>2, MemoryStep
  <1>5. ASSUME NEW s \in sweep[h], SkipRow(h, s)
        PROVE  IInv'
    <2>1. TypeOK' /\ UNCHANGED <<row, executions, fires>>
      BY <1>5 DEF SkipRow, Decided
    <2>2. \A g \in Hosts : sweep'[g] \subseteq sweep[g]
      BY <1>5 DEF SkipRow, Decided
    <2>3. QED
      BY <2>1, <2>2, MemoryStep
  <1>6. QED
    BY <1>1, <1>2, <1>3, <1>4, <1>5

\* stop(): armed timers become releases or are forgotten.
LEMMA StopStep ==
    ASSUME IInv, NEW h \in Hosts, Stop(h)
    PROVE  IInv'
  <1>1. /\ UNCHANGED <<row, executions, sweep>>
        /\ \A e \in fires' : \E d \in fires :
              /\ SameClaim(d, e)
              /\ e.mark = d.mark
              /\ \/ e = d
                 \/ /\ d.phase = "armed"
                    /\ e = [d EXCEPT !.phase = "releasing"]
                    /\ e.phase = "releasing"
                    /\ d \notin fires'
    <2>1. ASSUME NEW d \in fires
          PROVE  LET e == [d EXCEPT !.phase = "releasing"]
                 IN  SameClaim(d, e) /\ e.mark = d.mark /\ e.phase = "releasing"
      BY <2>1 DEF IInv, TypeOK, Fire, SameClaim
    <2>2. \A d \in ArmedOn(h) : d.phase = "armed" /\ d \notin fires'
      <3>1. ASSUME NEW d \in ArmedOn(h), d \in fires' PROVE FALSE
        <4>1. PICK g \in ArmedOn(h) : d = [g EXCEPT !.phase = "releasing"]
          BY <3>1 DEF Stop
        <4>2. d.phase = "releasing"
          BY <4>1, <2>1 DEF ArmedOn
        <4>3. QED
          BY <4>2 DEF ArmedOn
      <3>2. QED
        BY <3>1 DEF ArmedOn
    <2>3. UNCHANGED <<row, executions, sweep>>
      BY DEF Stop
    <2>4. \A e \in fires' : \/ e \in fires
                           \/ \E d \in ArmedOn(h) : e = [d EXCEPT !.phase = "releasing"]
      BY DEF Stop
    <2>5. ArmedOn(h) \subseteq fires
      BY DEF ArmedOn
    <2>6. ASSUME NEW e \in fires', e \notin fires
          PROVE  \E d \in fires : /\ SameClaim(d, e)
                                  /\ e.mark = d.mark
                                  /\ d.phase = "armed"
                                  /\ e = [d EXCEPT !.phase = "releasing"]
                                  /\ e.phase = "releasing"
                                  /\ d \notin fires'
      <3>1. PICK d \in ArmedOn(h) : e = [d EXCEPT !.phase = "releasing"]
        BY <2>4, <2>6
      <3>2. QED
        BY <2>1, <2>2, <2>5, <3>1
    <2>7. \A e \in fires : SameClaim(e, e)
      BY DEF SameClaim
    <2>8. QED
      BY <2>3, <2>6, <2>7
  <1>2. TypeOK'
    <2>1. \A d \in fires : [d EXCEPT !.phase = "releasing"] \in Fire
      BY DEF IInv, TypeOK, Fire, Phases
    <2>2. fires' \subseteq Fire
      BY <2>1 DEF IInv, TypeOK, Stop, ArmedOn
    <2>3. QED
      BY <2>2, MaxDisruptionsAssumption DEF IInv, TypeOK, Stop, Disrupt
  <1>3. \A e \in fires' : \E d \in fires :
          /\ SameClaim(d, e)
          /\ e.mark = d.mark
          /\ e.phase = d.phase \/ (d.phase = "armed" /\ e.phase = "releasing")
    BY <1>1
  <1>4. \A t \in Tasks : Executed(t)' <=> Executed(t)
    BY <1>1 DEF Executed
  <1>5. IdleRowIsClean' /\ FiresBehindRow' /\ MarkFollowsReport'
    BY <1>1, <1>3 DEF IInv, IdleRowIsClean, FiresBehindRow, MarkFollowsReport,
       SameClaim
  <1>6. EpochIdentifiesClaim'
    <2> SUFFICES ASSUME NEW e1 \in fires', NEW e2 \in fires',
                        e1.task = e2.task, e1.epoch = e2.epoch
                 PROVE  e1 = e2
      BY DEF EpochIdentifiesClaim
    <2>1. PICK d1 \in fires :
            /\ SameClaim(d1, e1)
            /\ \/ e1 = d1
               \/ e1 = [d1 EXCEPT !.phase = "releasing"] /\ d1 \notin fires'
      BY <1>1
    <2>2. PICK d2 \in fires :
            /\ SameClaim(d2, e2)
            /\ \/ e2 = d2
               \/ e2 = [d2 EXCEPT !.phase = "releasing"] /\ d2 \notin fires'
      BY <1>1
    <2>3. d1 = d2
      BY <2>1, <2>2 DEF IInv, EpochIdentifiesClaim, SameClaim
    <2>4. QED
      BY <2>1, <2>2, <2>3
  <1>7. MutexFreeForHolder' /\ HolderIsCurrent'
    BY <1>1, <1>3 DEF IInv, MutexFreeForHolder, HolderIsCurrent, Holds, HeldBy,
       SameClaim
  <1>8. EffectBehindMark' /\ SucceededHasExecution'
    <2>1. \A e \in fires' : e.task \in Tasks
      BY <1>2 DEF TypeOK, Fire
    <2>2. QED
      BY <1>1, <1>3, <1>4, <2>1 DEF IInv, EffectBehindMark,
         SucceededHasExecution, SameClaim
  <1>9. SweepBehindRow' /\ FailedNeverMarked' /\ AttemptsAccounted'
        /\ OneExecutionPerOccurrence'
    BY <1>1 DEF IInv, SweepBehindRow, FailedNeverMarked, AttemptsAccounted,
       OneExecutionPerOccurrence
  <1>10. QED
    BY <1>2, <1>5, <1>6, <1>7, <1>8, <1>9 DEF IInv

\* The reaper reads: what it keeps is the row as it is.
LEMMA FindStep ==
    ASSUME IInv, NEW h \in Hosts, FindExpiredLeases(h)
    PROVE  IInv'
  <1> DEFINE S == {[ task |-> t, epoch |-> row[t].epoch,
                     attempts |-> row[t].attempts,
                     dispatched |-> row[t].dispatched ] : t \in Expired}
  <1>1. /\ UNCHANGED <<row, executions, host, fires, tracked, disruptions>>
        /\ sweep' = [sweep EXCEPT ![h] = S]
    BY DEF FindExpiredLeases
  <1>2. \A s \in S : /\ s \in ExpiredLeaseRow
                     /\ s.epoch = row[s.task].epoch
                     /\ s.attempts = row[s.task].attempts
    <2>1. \A t \in Expired : /\ t \in Tasks /\ row[t].epoch \in Nat
                             /\ row[t].attempts \in Nat
                             /\ row[t].dispatched \in BOOLEAN
      BY MaxAttemptsAssumption DEF Expired, IInv, TypeOK, Row
    <2>2. QED
      BY <2>1 DEF ExpiredLeaseRow
  <1>3. TypeOK'
    BY <1>1, <1>2 DEF IInv, TypeOK
  <1>4. SweepBehindRow'
    <2> SUFFICES ASSUME NEW g \in Hosts, NEW s \in sweep'[g]
                 PROVE  \/ row[s.task].status = "absent"
                        \/ /\ s.epoch <= row[s.task].epoch
                           /\ row[s.task].status = "running"
                              /\ s.epoch = row[s.task].epoch
                              => s.attempts = row[s.task].attempts
      BY <1>1 DEF SweepBehindRow
    <2>1. CASE g = h
      <3>1. s \in S
        BY <1>1, <2>1 DEF IInv, TypeOK
      <3>2. s.task \in Tasks /\ s.epoch \in Nat /\ row[s.task].epoch \in Nat
        BY <1>2, <3>1 DEF IInv, TypeOK, ExpiredLeaseRow, Row
      <3> HIDE DEF S
      <3>3. QED
        BY <1>2, <3>1, <3>2
    <2>2. CASE g # h
      BY <1>1, <2>2 DEF IInv, TypeOK, SweepBehindRow
    <2>3. QED
      BY <2>1, <2>2
  <1>5. QED
    BY <1>1, <1>3, <1>4 DEF IInv, IdleRowIsClean, FiresBehindRow,
       EpochIdentifiesClaim, MutexFreeForHolder, Holds, HeldBy, HolderIsCurrent,
       MarkFollowsReport, EffectBehindMark, SucceededHasExecution,
       FailedNeverMarked, AttemptsAccounted, OneExecutionPerOccurrence, Executed

\* Nothing changes.
LEMMA StutterStep ==
    ASSUME IInv, UNCHANGED vars
    PROVE  IInv'
  <1>1. TypeOK' /\ fires' \subseteq fires /\ UNCHANGED <<row, executions, sweep>>
    BY DEF vars, IInv, TypeOK
  <1>2. QED
    BY <1>1, MemoryStep

-----------------------------------------------------------------------------
(* The invariant of every step, and of the specification.                  *)

\* Every step of every actor preserves the inductive invariant.
THEOREM NextIInv == IInv /\ [Next]_vars => IInv'
  <1> SUFFICES ASSUME IInv, [Next]_vars PROVE IInv'
    OBVIOUS
  <1>1. ASSUME NEW f \in fires, FireProgress(f)
        PROVE  IInv'
    BY <1>1, QuietFireStep, BeginDispatchStep, MarkDispatchedStep, LastWriteStep
       DEF FireProgress
  <1>2. ASSUME NEW f \in fires, FireDisrupted(f)
        PROVE  IInv'
    <2>1. CASE StatementFails(f)
      <3>1. f.host \in Hosts
        BY DEF IInv, TypeOK, Fire
      <3>2. QED
        BY <2>1, <3>1, ForgetStep
    <2>2. QED
      BY <1>2, <2>1, QuietFireStep, LastWriteStep DEF FireDisrupted
  <1>3. ASSUME NEW h \in Hosts, HostStep(h)
        PROVE  IInv'
    <2>1. ASSUME NEW t \in Tasks, ClaimDueTasks(h, t) PROVE IInv'
      BY <2>1, ClaimStep
    <2>2. ASSUME NEW s \in sweep[h], Reap(h, s) PROVE IInv'
      BY <2>2, ReapStep
    <2>3. CASE Stop(h)
      BY <2>3, StopStep
    <2>4. CASE FindExpiredLeases(h)
      BY <2>4, FindStep
    <2>5. QED
      BY <1>3, <2>1, <2>2, <2>3, <2>4, ForgetStep DEF HostStep
  <1>4. ASSUME NEW t \in Tasks, LeaseExpires(t) \/ PruneFinished(t) \/ DeleteTask(t)
        PROVE  IInv'
    BY <1>4, ExternalStep
  <1>5. CASE UNCHANGED vars
    BY <1>5, StutterStep
  <1>6. QED
    BY <1>1, <1>2, <1>3, <1>4, <1>5 DEF Next

\* The inductive invariant holds in every reachable state.
THEOREM SpecIInv == Spec => []IInv
  <1>1. QED
    BY InitIInv, NextIInv, PTL DEF Spec

\* Every variable keeps its type: in particular no row counts more attempts
\* than it has.
THEOREM TypeCorrect == Spec => []TypeOK
  <1>1. IInv => TypeOK
    BY DEF IInv
  <1>2. QED
    BY <1>1, SpecIInv, PTL

\* No two deliveries in memory share the fencing token of a row
\* (claimDueTasks, reclaimExpired).
THEOREM EpochsUnique == Spec => []EpochIdentifiesClaim
  <1>1. IInv => EpochIdentifiesClaim
    BY DEF IInv
  <1>2. QED
    BY <1>1, SpecIInv, PTL

\* A claim superseded while it stalled never leaves the pre-dispatch mutex
\* taken for the one that holds the row (beginDispatch).
THEOREM MutexAvailable == Spec => []MutexFreeForHolder
  <1>1. IInv => MutexFreeForHolder
    BY DEF IInv
  <1>2. QED
    BY <1>1, SpecIInv, PTL

\* An occurrence is recorded as succeeded only once its execution exists.
THEOREM SuccessIsReal == Spec => []SucceededHasExecution
  <1>1. IInv => SucceededHasExecution
    BY DEF IInv
  <1>2. QED
    BY <1>1, SpecIInv, PTL

\* An occurrence is recorded as failed only without the dispatch marker.
THEOREM FailureIsUnmarked == Spec => []FailedNeverMarked
  <1>1. IInv => FailedNeverMarked
    BY DEF IInv
  <1>2. QED
    BY <1>1, SpecIInv, PTL

\* Attempts are neither lost nor counted twice, whoever counts them.
THEOREM AttemptsExact == Spec => []AttemptsAccounted
  <1>1. IInv => AttemptsAccounted
    BY DEF IInv
  <1>2. QED
    BY <1>1, SpecIInv, PTL

\* Redelivery never produces a second execution of an occurrence.
THEOREM NoDoubleExecution == Spec => []OneExecutionPerOccurrence
  <1>1. IInv => OneExecutionPerOccurrence
    BY DEF IInv
  <1>2. QED
    BY <1>1, SpecIInv, PTL

-----------------------------------------------------------------------------
(* The action properties.                                                  *)

\* What a step of a fire may write: only its own row, only while it holds the
\* row, and a write that ends "running" ends the fire.
LEMMA FireWrites ==
    ASSUME TypeOK, NEW f \in fires, FireProgress(f) \/ FireDisrupted(f)
    PROVE  /\ f.task \in Tasks
           /\ fires \ fires' \subseteq {f}
           /\ \A t \in Tasks : t # f.task => row'[t] = row[t]
           /\ ~HeldBy(row[f.task], f) => row'[f.task] = row[f.task]
           /\ HeldBy(row[f.task], f) =>
                 row'[f.task].status = "running" \/ f \notin fires'
  <1>1. f.task \in Tasks /\ row[f.task] \in Row
    BY DEF TypeOK, Fire
  <1>2. CASE \/ ScheduleClaimed(f) \/ TimerFires(f) \/ RunWorkflow(f)
             \/ SkipDuplicate(f) \/ ReportDispatched(f) \/ HandlerReturns(f)
             \/ HandlerThrows(f) \/ LoseMark(f) \/ StatementFails(f)
    BY <1>1, <1>2 DEF ScheduleClaimed, TimerFires, RunWorkflow, SkipDuplicate,
       ReportDispatched, HandlerReturns, HandlerThrows, LoseMark,
       StatementFails, Advance, Become, Drop, HeldBy
  <1>3. ASSUME NEW q, SetRow(f.task, q), fires \ fires' \subseteq {f},
               ~HeldBy(row[f.task], f) => q = row[f.task],
               HeldBy(row[f.task], f) => q.status = "running" \/ f \notin fires'
        PROVE  /\ fires \ fires' \subseteq {f}
               /\ \A t \in Tasks : t # f.task => row'[t] = row[t]
               /\ ~HeldBy(row[f.task], f) => row'[f.task] = row[f.task]
               /\ HeldBy(row[f.task], f) =>
                     row'[f.task].status = "running" \/ f \notin fires'
    BY <1>1, <1>3 DEF SetRow, TypeOK
  <1>4. CASE \/ HandBackClaims(f) \/ ReleaseUnhandled(f) \/ ReleaseOnStop(f)
             \/ RecordSuccess(f) \/ CompleteDispatched(f) \/ DeadLetter(f)
             \/ Reschedule(f)
    <2>1. fires' = fires \ {f}
      BY <1>4 DEF HandBackClaims, ReleaseUnhandled, ReleaseOnStop,
         RecordSuccess, CompleteDispatched, DeadLetter, Reschedule, Drop
    <2>2. \E q : SetRow(f.task, q) /\ (~HeldBy(row[f.task], f) => q = row[f.task])
      BY <1>4 DEF HandBackClaims, ReleaseUnhandled, ReleaseOnStop,
         RecordSuccess, CompleteDispatched, DeadLetter, Reschedule,
         ReleaseRow, CompleteRow, FailRow, RescheduleRow, GuardedUpdate
    <2>3. QED
      BY <1>1, <1>3, <2>1, <2>2
  <1>5. CASE BeginDispatch(f)
    <2> DEFINE q == BeginDispatchRow(row[f.task], f)
    <2>1. ~HeldBy(row[f.task], f) => q = row[f.task]
      BY DEF BeginDispatchRow, WinsDispatch
    <2>2. HeldBy(row[f.task], f) => q.status = "running"
      BY <1>1 DEF BeginDispatchRow, HeldBy, Row
    <2>3. SetRow(f.task, q) /\ fires \ fires' \subseteq {f}
      BY <1>5 DEF BeginDispatch, Advance, Become, Drop
    <2> HIDE DEF q
    <2>4. QED
      BY <1>1, <1>3, <2>1, <2>2, <2>3
  <1>6. CASE MarkDispatched(f)
    <2> DEFINE q == MarkDispatchedRow(row[f.task], f)
    <2>1. ~HeldBy(row[f.task], f) => q = row[f.task]
      BY DEF MarkDispatchedRow, GuardedUpdate
    <2>2. HeldBy(row[f.task], f) => q.status = "running"
      BY <1>1 DEF MarkDispatchedRow, GuardedUpdate, HeldBy, Row
    <2>3. SetRow(f.task, q) /\ fires \ fires' \subseteq {f}
      BY <1>6 DEF MarkDispatched, Become
    <2> HIDE DEF q
    <2>4. QED
      BY <1>1, <1>3, <2>1, <2>2, <2>3
  <1>7. QED
    BY <1>2, <1>4, <1>5, <1>6 DEF FireProgress, FireDisrupted

\* What the other steps may write: a claim takes a pending row, the reaper a
\* row that is still expired, and a marked one only to complete it.
LEMMA OtherWrites ==
    ASSUME TypeOK,
           \/ \E h \in Hosts : HostStep(h)
           \/ \E t \in Tasks : LeaseExpires(t) \/ PruneFinished(t) \/ DeleteTask(t)
    PROVE  /\ row' = row \/ fires \subseteq fires'
           /\ \A t \in Tasks :
                 \/ row'[t] = row[t]
                 \/ row'[t].status \in {"running", "absent"}
                 \/ /\ row[t].status = "running" /\ row[t].lease = "expired"
                    /\ ~row[t].dispatched \/ row'[t].status = "succeeded"
  <1>1. row \in [Tasks -> Row]
    BY DEF TypeOK
  <1>2. ASSUME NEW h \in Hosts, NEW t \in Tasks, ClaimDueTasks(h, t)
        PROVE  /\ fires \subseteq fires'
               /\ \A u \in Tasks : row'[u] = row[u] \/ row'[u].status = "running"
    BY <1>1, <1>2, ClaimedRow DEF ClaimDueTasks, SetRow
  <1>3. ASSUME NEW h \in Hosts, NEW s \in sweep[h], Reap(h, s)
        PROVE  /\ fires' = fires
               /\ \A u \in Tasks :
                 \/ row'[u] = row[u]
                 \/ /\ row[u].status = "running" /\ row[u].lease = "expired"
                    /\ ~row[u].dispatched \/ row'[u].status = "succeeded"
    <2>1. s.task \in Tasks
      BY DEF TypeOK, ExpiredLeaseRow
    <2>2. /\ fires' = fires
          /\ \A u \in Tasks : u # s.task => row'[u] = row[u]
          /\ \/ row'[s.task] = CompleteExpiredRow(row[s.task], s)
             \/ row'[s.task] = DeadLetterExpiredRow(row[s.task], s)
             \/ row'[s.task] = ReclaimExpiredRow(row[s.task], s)
      BY <1>1, <1>3, <2>1 DEF Reap, CompleteExpired, DeadLetterExpired,
         ReclaimExpired, Decided, SetRow
    <2>3. \/ row'[s.task] = row[s.task]
          \/ /\ row[s.task].status = "running" /\ row[s.task].lease = "expired"
             /\ ~row[s.task].dispatched \/ row'[s.task].status = "succeeded"
      BY <1>1, <2>1, <2>2 DEF CompleteExpiredRow, DeadLetterExpiredRow,
         ReclaimExpiredRow, StillExpired, Row
    <2>4. QED
      BY <2>2, <2>3
  <1>4. ASSUME NEW t \in Tasks, LeaseExpires(t) \/ PruneFinished(t) \/ DeleteTask(t)
        PROVE  /\ fires' = fires
               /\ \A u \in Tasks : \/ row'[u] = row[u]
                                   \/ row'[u].status \in {"running", "absent"}
    <2>1. AbsentRow.status = "absent"
      BY DEF AbsentRow, NewRow
    <2>2. [row[t] EXCEPT !.lease = "expired"].status = row[t].status
      BY <1>1 DEF Row
    <2>3. QED
      BY <1>1, <1>4, <2>1, <2>2 DEF LeaseExpires, PruneFinished, DeleteTask, SetRow
  <1>5. ASSUME NEW h \in Hosts,
               \/ Stop(h) \/ Exit(h) \/ Crash(h) \/ Restart(h)
               \/ FindExpiredLeases(h) \/ AbortSweep(h)
               \/ \E s \in sweep[h] : SkipRow(h, s)
        PROVE  row' = row
    BY <1>5 DEF Stop, Exit, Crash, Restart, LoseMemory, FindExpiredLeases,
       AbortSweep, SkipRow
  <1>6. QED
    BY <1>2, <1>3, <1>4, <1>5 DEF HostStep

\* A delivery that lost its row can no longer change it.
THEOREM FencingHolds == Spec => SupersededClaimWritesNothing
  <1> DEFINE A == \A f \in fires \ fires' :
                     row[f.task].epoch # f.epoch => row'[f.task] = row[f.task]
  <1>1. TypeOK /\ [Next]_vars => [A]_vars
    <2> SUFFICES ASSUME TypeOK, Next PROVE A
      OBVIOUS
    <2>1. ASSUME NEW f \in fires, FireProgress(f) \/ FireDisrupted(f)
          PROVE  A
      BY <2>1, FireWrites DEF HeldBy
    <2>2. CASE \/ \E h \in Hosts : HostStep(h)
               \/ \E t \in Tasks : LeaseExpires(t) \/ PruneFinished(t) \/ DeleteTask(t)
      BY <2>2, OtherWrites
    <2>3. QED
      BY <2>1, <2>2 DEF Next
  <1>2. QED
    BY <1>1, TypeCorrect, PTL DEF Spec, SupersededClaimWritesNothing

\* Neither the reaper nor another main ends a row under a live lease.
THEOREM LeaseProtectsOwner == Spec => LiveLeaseRespected
  <1> DEFINE A == \A t \in Tasks :
                    /\ row[t].status = "running"
                    /\ row[t].lease = "live"
                    /\ row'[t].status \notin {"running", "absent"}
                    => \E f \in fires \ fires' :
                          f.task = t /\ f.epoch = row[t].epoch
  <1>1. TypeOK /\ [Next]_vars => [A]_vars
    <2> SUFFICES ASSUME TypeOK, Next PROVE A
      OBVIOUS
    <2>1. ASSUME NEW f \in fires, FireProgress(f) \/ FireDisrupted(f)
          PROVE  A
      BY <2>1, FireWrites DEF HeldBy
    <2>2. CASE \/ \E h \in Hosts : HostStep(h)
               \/ \E t \in Tasks : LeaseExpires(t) \/ PruneFinished(t) \/ DeleteTask(t)
      BY <2>2, OtherWrites
    <2>3. QED
      BY <2>1, <2>2 DEF Next
  <1>2. QED
    BY <1>1, TypeCorrect, PTL DEF Spec, LiveLeaseRespected

\* Only the claim that holds a dispatched row ever returns it to pending.
THEOREM ReaperRespectsMarker == Spec => ReaperNeverRedelivers
  <1> DEFINE A == \A t \in Tasks :
                    /\ row[t].status = "running"
                    /\ row[t].dispatched
                    /\ row'[t].status = "pending"
                    => \E f \in fires \ fires' :
                          f.task = t /\ f.epoch = row[t].epoch
  <1>1. TypeOK /\ [Next]_vars => [A]_vars
    <2> SUFFICES ASSUME TypeOK, Next PROVE A
      OBVIOUS
    <2>1. ASSUME NEW f \in fires, FireProgress(f) \/ FireDisrupted(f)
          PROVE  A
      BY <2>1, FireWrites DEF HeldBy
    <2>2. CASE \/ \E h \in Hosts : HostStep(h)
               \/ \E t \in Tasks : LeaseExpires(t) \/ PruneFinished(t) \/ DeleteTask(t)
      BY <2>2, OtherWrites
    <2>3. QED
      BY <2>1, <2>2 DEF Next
  <1>2. QED
    BY <1>1, TypeCorrect, PTL DEF Spec, ReaperNeverRedelivers

-----------------------------------------------------------------------------
(* TaskExecution implements the ledger.                                    *)

\* A step of the ledger, or one it does not see.
LedgerStep == Ledger!LedgerNext \/ UNCHANGED Ledger!ledgerVars

\* One row changes: live stays live, with at most one more attempt counted and
\* one left; or it settles; or it is removed.
LEMMA LedgerRowStep ==
    ASSUME TypeOK, NEW t \in Tasks, NEW q, SetRow(t, q), UNCHANGED executions,
           LET r    == row[t]
               Live == {"pending", "running"}
           IN  \/ q = r
               \/ /\ r.status \in Live /\ q.status \in Live
                  /\ \/ q.attempts = r.attempts
                     \/ q.attempts = r.attempts + 1 /\ q.attempts < MaxAttempts
               \/ /\ r.status \in Live /\ q.status = "succeeded"
                  /\ q.attempts = r.attempts /\ Executed(t)
               \/ /\ r.status \in Live /\ q.status = "failed"
                  /\ q.attempts = r.attempts + 1 /\ q.attempts = MaxAttempts
               \/ r.status # "absent" /\ q.status = "absent" /\ q.attempts = 0
    PROVE  LedgerStep
  <1> DEFINE o == [u \in Tasks |-> LedgerOutcome(u)]
             n == [u \in Tasks |-> row[u].attempts]
             d == [u \in Tasks |-> Executed(u)]
  <1>1. /\ row'[t] = q
        /\ \A u \in Tasks : u # t => row'[u] = row[u]
    BY DEF SetRow, TypeOK
  <1>2. d' = d
    BY DEF Executed
  <1>3. /\ o' = [o EXCEPT ![t] = LedgerOutcome(t)']
        /\ n' = [n EXCEPT ![t] = q.attempts]
    BY <1>1 DEF LedgerOutcome
  <1>4. /\ o[t] = LedgerOutcome(t)
        /\ n[t] = row[t].attempts
        /\ d[t] = Executed(t)
    OBVIOUS
  <1>5. CASE q = row[t]
    <2>1. row' = row
      BY <1>5 DEF SetRow, TypeOK
    <2>2. QED
      BY <1>2, <2>1 DEF LedgerStep, Ledger!ledgerVars, LedgerOutcome
  <1>6. CASE /\ row[t].status \in {"pending", "running"}
             /\ q.status \in {"pending", "running"}
             /\ q.attempts = row[t].attempts
    <2>1. o' = o /\ n' = n
      BY <1>1, <1>6 DEF LedgerOutcome
    <2>2. QED
      BY <1>2, <2>1 DEF LedgerStep, Ledger!ledgerVars
  <1>7. CASE /\ row[t].status \in {"pending", "running"}
             /\ q.status \in {"pending", "running"}
             /\ q.attempts = row[t].attempts + 1
             /\ q.attempts < MaxAttempts
    <2>1. o' = o /\ o[t] = "live"
      BY <1>1, <1>7 DEF LedgerOutcome
    <2>2. n' = [n EXCEPT ![t] = n[t] + 1] /\ n[t] + 1 < MaxAttempts
      BY <1>3, <1>4, <1>7
    <2> HIDE DEF o, n, d
    <2>3. Ledger!Retry(t)
      BY <1>2, <2>1, <2>2 DEF Ledger!Retry, o, n, d
    <2>4. QED
      BY <2>3 DEF LedgerStep, Ledger!LedgerNext
  <1>8. CASE /\ row[t].status \in {"pending", "running"}
             /\ q.status = "succeeded"
             /\ q.attempts = row[t].attempts
             /\ Executed(t)
    <2>1. LedgerOutcome(t)' = "succeeded" /\ o[t] = "live"
      BY <1>1, <1>8 DEF LedgerOutcome
    <2>2. n' = n /\ o' = [o EXCEPT ![t] = "succeeded"] /\ d[t]
      BY <1>3, <1>4, <1>8, <2>1
    <2> HIDE DEF o, n, d
    <2>3. Ledger!Succeed(t)
      BY <1>2, <2>1, <2>2 DEF Ledger!Succeed, o, n, d
    <2>4. QED
      BY <2>3 DEF LedgerStep, Ledger!LedgerNext
  <1>9. CASE /\ row[t].status \in {"pending", "running"}
             /\ q.status = "failed"
             /\ q.attempts = row[t].attempts + 1
             /\ q.attempts = MaxAttempts
    <2>1. LedgerOutcome(t)' = "failed" /\ o[t] = "live"
      BY <1>1, <1>9 DEF LedgerOutcome
    <2>2. /\ n' = [n EXCEPT ![t] = n[t] + 1] /\ n[t] + 1 = MaxAttempts
          /\ o' = [o EXCEPT ![t] = "failed"]
      BY <1>3, <1>4, <1>9, <2>1
    <2> HIDE DEF o, n, d
    <2>3. Ledger!GiveUp(t)
      BY <1>2, <2>1, <2>2 DEF Ledger!GiveUp, o, n, d
    <2>4. QED
      BY <2>3 DEF LedgerStep, Ledger!LedgerNext
  <1>10. CASE row[t].status # "absent" /\ q.status = "absent" /\ q.attempts = 0
    <2>1. LedgerOutcome(t)' = "removed" /\ o[t] # "removed"
      BY <1>1, <1>10 DEF LedgerOutcome, TypeOK, Row, Status, Terminal
    <2>2. n' = [n EXCEPT ![t] = 0] /\ o' = [o EXCEPT ![t] = "removed"]
      BY <1>3, <1>10, <2>1
    <2> HIDE DEF o, n, d
    <2>3. Ledger!Remove(t)
      BY <1>2, <2>1, <2>2 DEF Ledger!Remove, o, n, d
    <2>4. QED
      BY <2>3 DEF LedgerStep, Ledger!LedgerNext
  <1>11. QED
    BY <1>5, <1>6, <1>7, <1>8, <1>9, <1>10

\* A step that touches neither the rows nor the executions is invisible.
LEMMA LedgerStutter ==
    ASSUME UNCHANGED <<row, executions>>
    PROVE  LedgerStep
  BY DEF LedgerStep, Ledger!ledgerVars, LedgerOutcome, Executed

\* The insert of an execution delivers the effect.
LEMMA LedgerDeliverStep ==
    ASSUME TypeOK, NEW f \in fires, RunWorkflow(f)
    PROVE  LedgerStep
  <1> DEFINE t == f.task
             d == [u \in Tasks |-> Executed(u)]
             x == [task |-> f.task, epoch |-> f.epoch]
  <1>1. t \in Tasks /\ ~Executed(t) /\ UNCHANGED row
        /\ executions' = executions \union {x}
    BY DEF TypeOK, Fire, RunWorkflow, HasExecution
  <1>2. x.task = t
    OBVIOUS
  <1> HIDE DEF x
  <1>3. \A u \in Tasks : Executed(u)' = IF u = t THEN TRUE ELSE Executed(u)
    BY <1>1, <1>2 DEF Executed
  <1>4. ~d[t] /\ d' = [d EXCEPT ![t] = TRUE]
    BY <1>1, <1>3
  <1>5. UNCHANGED <<[u \in Tasks |-> LedgerOutcome(u)], [u \in Tasks |-> row[u].attempts]>>
    BY <1>1 DEF LedgerOutcome
  <1> HIDE DEF t
  <1>6. Ledger!Deliver(t)
    BY <1>4, <1>5 DEF Ledger!Deliver
  <1>7. QED
    BY <1>1, <1>6 DEF LedgerStep, Ledger!LedgerNext

\* The owner's writes are ledger steps.
LEMMA LedgerFireStep ==
    ASSUME IInv, NEW f \in fires, FireProgress(f) \/ FireDisrupted(f)
    PROVE  LedgerStep
  <1> DEFINE t == f.task
             r == row[t]
  <1>1. TypeOK /\ f \in Fire /\ t \in Tasks /\ r \in Row
    BY DEF IInv, TypeOK, Fire
  <1>2. f.mark # "none" \/ f.phase = "returned" => Executed(t)
    BY DEF IInv, EffectBehindMark
  <1>3. HeldBy(r, f) => /\ f.attempts = r.attempts
                        /\ r.attempts \in Nat
                        /\ r.attempts < MaxAttempts
                        /\ r.status = "running"
    BY <1>1 DEF IInv, HolderIsCurrent, Holds, HeldBy, AttemptsAccounted, Row
  <1>4. CASE \/ ScheduleClaimed(f) \/ TimerFires(f) \/ SkipDuplicate(f)
             \/ ReportDispatched(f) \/ HandlerReturns(f) \/ HandlerThrows(f)
             \/ LoseMark(f) \/ StatementFails(f)
    BY <1>4, LedgerStutter DEF ScheduleClaimed, TimerFires, SkipDuplicate,
       ReportDispatched, HandlerReturns, HandlerThrows, LoseMark, StatementFails
  <1>5. CASE RunWorkflow(f)
    BY <1>1, <1>5, LedgerDeliverStep
  <1> HIDE DEF r, t
  <1>6. CASE BeginDispatch(f) \/ MarkDispatched(f)
    <2>1. PICK q : /\ SetRow(t, q)
                   /\ q = BeginDispatchRow(r, f) \/ q = MarkDispatchedRow(r, f)
      BY <1>6 DEF BeginDispatch, MarkDispatched, r, t
    <2>2. q = r \/ /\ r.status = "running" /\ q.status = "running"
                   /\ q.attempts = r.attempts
      BY <1>1, <2>1 DEF BeginDispatchRow, MarkDispatchedRow, GuardedUpdate,
         WinsDispatch, HeldBy, Row
    <2>3. UNCHANGED executions
      BY <1>6 DEF BeginDispatch, MarkDispatched
    <2>4. QED
      BY <1>1, <2>1, <2>2, <2>3, LedgerRowStep DEF r
  <1>7. CASE \/ HandBackClaims(f) \/ ReleaseUnhandled(f) \/ ReleaseOnStop(f)
             \/ RecordSuccess(f) \/ CompleteDispatched(f) \/ DeadLetter(f)
             \/ Reschedule(f)
    <2>1. PICK q : /\ SetRow(t, q)
                   /\ \/ q = ReleaseRow(r, f)
                      \/ q = RescheduleRow(r, f) /\ ~LastAttempt(f)
                      \/ q = CompleteRow(r, f) /\ Executed(t)
                      \/ q = FailRow(r, f) /\ LastAttempt(f)
      BY <1>2, <1>7 DEF HandBackClaims, ReleaseUnhandled, ReleaseOnStop,
         RecordSuccess, CompleteDispatched, DeadLetter, Reschedule, r, t
    <2>2. UNCHANGED executions
      BY <1>7 DEF HandBackClaims, ReleaseUnhandled, ReleaseOnStop,
         RecordSuccess, CompleteDispatched, DeadLetter, Reschedule
    <2>3. CASE ~HeldBy(r, f)
      <3>1. q = r
        BY <2>1, <2>3 DEF ReleaseRow, RescheduleRow, CompleteRow, FailRow,
           GuardedUpdate
      <3>2. QED
        BY <1>1, <2>1, <2>2, <3>1, LedgerRowStep DEF r
    <2>4. CASE HeldBy(r, f)
      <3>1. CASE q = ReleaseRow(r, f)
        <4>1. q.status = "pending" /\ q.attempts = r.attempts
          BY <1>1, <2>4, <3>1, RequeuedRow DEF ReleaseRow, GuardedUpdate
        <4>2. QED
          BY <1>1, <1>3, <2>1, <2>2, <2>4, <4>1, LedgerRowStep DEF r
      <3>2. CASE q = RescheduleRow(r, f) /\ ~LastAttempt(f)
        <4>1. q = [Requeued(r) EXCEPT !.attempts = Requeued(r).attempts + 1]
          BY <2>4, <3>2 DEF RescheduleRow, GuardedUpdate
        <4>2. q.status = "pending" /\ q.attempts = r.attempts + 1
          BY <1>1, <4>1, RequeuedRow DEF Row
        <4>3. q.attempts < MaxAttempts
          BY <1>3, <2>4, <3>2, <4>2, MaxAttemptsAssumption DEF LastAttempt
        <4>4. QED
          BY <1>1, <1>3, <2>1, <2>2, <2>4, <4>2, <4>3, LedgerRowStep DEF r
      <3>3. CASE q = CompleteRow(r, f) /\ Executed(t)
        <4>1. q.status = "succeeded" /\ q.attempts = r.attempts
          BY <1>1, <2>4, <3>3 DEF CompleteRow, GuardedUpdate, Row
        <4>2. QED
          BY <1>1, <1>3, <2>1, <2>2, <2>4, <3>3, <4>1, LedgerRowStep DEF r
      <3>4. CASE q = FailRow(r, f) /\ LastAttempt(f)
        <4>1. q.status = "failed" /\ q.attempts = r.attempts + 1
          BY <1>1, <2>4, <3>4 DEF FailRow, GuardedUpdate, Row
        <4>2. q.attempts = MaxAttempts
          BY <1>3, <2>4, <3>4, <4>1, MaxAttemptsAssumption DEF LastAttempt
        <4>3. QED
          BY <1>1, <1>3, <2>1, <2>2, <2>4, <4>1, <4>2, LedgerRowStep DEF r
      <3>5. QED
        BY <2>1, <3>1, <3>2, <3>3, <3>4
    <2>5. QED
      BY <2>3, <2>4
  <1>8. QED
    BY <1>4, <1>5, <1>6, <1>7 DEF FireProgress, FireDisrupted

\* The reaper's writes are ledger steps.
LEMMA LedgerReapStep ==
    ASSUME IInv, NEW h \in Hosts, NEW s \in sweep[h], Reap(h, s)
    PROVE  LedgerStep
  <1> DEFINE t == s.task
             r == row[t]
  <1>1. TypeOK /\ t \in Tasks /\ r \in Row
    BY DEF IInv, TypeOK, ExpiredLeaseRow
  <1>2. UNCHANGED executions
    BY DEF Reap, CompleteExpired, DeadLetterExpired, ReclaimExpired, Decided
  <1>3. StillExpired(r, s) => /\ r.attempts = s.attempts
                              /\ r.attempts \in Nat
                              /\ r.attempts < MaxAttempts
                              /\ r.status = "running"
                              /\ r.dispatched => Executed(t)
    BY <1>1 DEF IInv, SweepBehindRow, StillExpired, AttemptsAccounted,
       EffectBehindMark, Row
  <1> HIDE DEF r, t
  <1>4. PICK q : /\ SetRow(t, q)
                 /\ \/ q = CompleteExpiredRow(r, s)
                    \/ q = DeadLetterExpiredRow(r, s) /\ LastAttempt(s)
                    \/ q = ReclaimExpiredRow(r, s) /\ ~LastAttempt(s)
    BY DEF Reap, CompleteExpired, DeadLetterExpired, ReclaimExpired, r, t
  <1>5. CASE q = r
    BY <1>1, <1>2, <1>4, <1>5, LedgerRowStep DEF r
  <1>6. CASE q = CompleteExpiredRow(r, s) /\ q # r
    <2>1. /\ StillExpired(r, s) /\ r.dispatched
          /\ q.status = "succeeded" /\ q.attempts = r.attempts
      BY <1>1, <1>6 DEF CompleteExpiredRow, Row
    <2>2. QED
      BY <1>1, <1>2, <1>3, <1>4, <2>1, LedgerRowStep DEF r
  <1>7. CASE q = DeadLetterExpiredRow(r, s) /\ LastAttempt(s) /\ q # r
    <2>1. /\ StillExpired(r, s)
          /\ q.status = "failed" /\ q.attempts = r.attempts + 1
      BY <1>1, <1>7 DEF DeadLetterExpiredRow, Row
    <2>2. q.attempts = MaxAttempts
      BY <1>3, <1>7, <2>1, MaxAttemptsAssumption DEF LastAttempt
    <2>3. QED
      BY <1>1, <1>2, <1>3, <1>4, <2>1, <2>2, LedgerRowStep DEF r
  <1>8. CASE q = ReclaimExpiredRow(r, s) /\ ~LastAttempt(s) /\ q # r
    <2>1. /\ StillExpired(r, s)
          /\ q = [Requeued(r) EXCEPT !.attempts = Requeued(r).attempts + 1,
                                     !.epoch = Requeued(r).epoch + 1]
      BY <1>8 DEF ReclaimExpiredRow
    <2>2. q.status = "pending" /\ q.attempts = r.attempts + 1
      BY <1>1, <2>1, RequeuedRow DEF Row
    <2>3. q.attempts < MaxAttempts
      BY <1>3, <1>8, <2>1, <2>2, MaxAttemptsAssumption DEF LastAttempt
    <2>4. QED
      BY <1>1, <1>2, <1>3, <1>4, <2>1, <2>2, <2>3, LedgerRowStep DEF r
  <1>9. QED
    BY <1>4, <1>5, <1>6, <1>7, <1>8

\* So are the claim, which is invisible, and deletion.
LEMMA LedgerOtherStep ==
    ASSUME IInv, NEW t \in Tasks,
           \/ \E h \in Hosts : ClaimDueTasks(h, t)
           \/ LeaseExpires(t) \/ PruneFinished(t) \/ DeleteTask(t)
    PROVE  LedgerStep
  <1>1. TypeOK /\ row[t] \in Row /\ UNCHANGED executions
    BY DEF IInv, TypeOK, ClaimDueTasks, LeaseExpires, PruneFinished, DeleteTask
  <1>2. ASSUME NEW h \in Hosts, ClaimDueTasks(h, t)
        PROVE  LedgerStep
    <2> DEFINE q == ClaimRow(row[t], h)
    <2>1. /\ SetRow(t, q) /\ row[t].status = "pending"
          /\ q.status = "running" /\ q.attempts = row[t].attempts
      BY <1>1, <1>2, ClaimedRow DEF ClaimDueTasks
    <2> HIDE DEF q
    <2>2. QED
      BY <1>1, <2>1, LedgerRowStep
  <1>3. CASE LeaseExpires(t)
    <2> DEFINE q == [row[t] EXCEPT !.lease = "expired"]
    <2>1. /\ SetRow(t, q) /\ row[t].status = "running"
          /\ q.status = "running" /\ q.attempts = row[t].attempts
      BY <1>1, <1>3 DEF LeaseExpires, Row
    <2> HIDE DEF q
    <2>2. QED
      BY <1>1, <2>1, LedgerRowStep
  <1>4. CASE PruneFinished(t) \/ DeleteTask(t)
    <2>1. SetRow(t, AbsentRow) /\ row[t].status # "absent"
      BY <1>4 DEF PruneFinished, DeleteTask, Terminal
    <2>2. AbsentRow.status = "absent" /\ AbsentRow.attempts = 0
      BY DEF AbsentRow, NewRow
    <2>3. QED
      BY <1>1, <2>1, <2>2, LedgerRowStep
  <1>5. QED
    BY <1>2, <1>3, <1>4

\* The executor, the reaper, retention and deletion together, on any number
\* of mains, keep the promises of OccurrenceLedger.
THEOREM LedgerImplemented == Spec => ImplementsLedger
  <1>1. Init => Ledger!LedgerInit
    BY DEF Init, NewRow, Executed, LedgerOutcome, Ledger!LedgerInit
  <1>2. IInv /\ [Next]_vars => LedgerStep
    <2> SUFFICES ASSUME IInv, [Next]_vars PROVE LedgerStep
      OBVIOUS
    <2>1. ASSUME NEW f \in fires, FireProgress(f) \/ FireDisrupted(f)
          PROVE  LedgerStep
      BY <2>1, LedgerFireStep
    <2>2. ASSUME NEW h \in Hosts, HostStep(h)
          PROVE  LedgerStep
      <3>1. CASE \/ Stop(h) \/ Exit(h) \/ Crash(h) \/ Restart(h)
                 \/ FindExpiredLeases(h) \/ AbortSweep(h)
                 \/ \E s \in sweep[h] : SkipRow(h, s)
        BY <3>1, LedgerStutter DEF Stop, Exit, Crash, Restart, LoseMemory,
           FindExpiredLeases, AbortSweep, SkipRow, Decided
      <3>2. QED
        BY <2>2, <3>1, LedgerReapStep, LedgerOtherStep DEF HostStep
    <2>3. ASSUME NEW t \in Tasks, LeaseExpires(t) \/ PruneFinished(t) \/ DeleteTask(t)
          PROVE  LedgerStep
      BY <2>3, LedgerOtherStep
    <2>4. CASE UNCHANGED vars
      BY <2>4, LedgerStutter DEF vars
    <2>5. QED
      BY <2>1, <2>2, <2>3, <2>4 DEF Next
  <1>3. LedgerStep => [Ledger!LedgerNext]_(Ledger!ledgerVars)
    BY DEF LedgerStep
  <1>4. QED
    BY <1>1, <1>2, <1>3, SpecIInv, PTL DEF Spec, ImplementsLedger, Ledger!LedgerSpec
=============================================================================
