--------------------------- MODULE TaskBrokerProofs ---------------------------
(***************************************************************************)
(* Safety of TaskBroker for every set of runners and requests, every kind  *)
(* they are of, every number of tasks a runner takes and of offers it      *)
(* makes.  First sequences, then the loop that settles tasks, then what    *)
(* the messages on their way say of an offer, and at last that no action   *)
(* breaks it.                                                              *)
(***************************************************************************)
EXTENDS TaskBroker, FiniteSetTheorems, SequenceTheorems, WellFoundedInduction,
        NaturalsInduction, TLAPS

-----------------------------------------------------------------------------
(* Sequences and recursion.                                                *)

\* Of a set of numbers that is not empty, Min is the least.
LEMMA MinIsLeast ==
    ASSUME NEW S \in SUBSET Nat, S # {}
    PROVE  /\ Min(S) \in S
           /\ \A y \in S : Min(S) <= y
<1> DEFINE Below == {p \in Nat \X Nat : p[1] < p[2]}
<1>1. IsWellFoundedOn(Below, Nat)
  BY NatLessThanWellFounded DEF OpToRel
<1>2. \E x \in S : \A y \in S : <<y, x>> \notin Below
  <2> HIDE DEF Below
  <2> QED BY <1>1, WFMin
<1>3. ASSUME NEW x \in S, NEW y \in S, <<y, x>> \notin Below
      PROVE  x =< y
  <2>1. <<y, x>> \in Nat \X Nat
    OBVIOUS
  <2>2. ~(y < x)
    BY <1>3, <2>1
  <2> QED BY <2>2
<1>4. \E x \in S : \A y \in S : x =< y
  <2> HIDE DEF Below
  <2> QED BY <1>2, <1>3
<1> QED BY <1>4 DEF Min

\* What holds of 0 and passes from each number to the next holds up to n.
LEMMA UpTo ==
    ASSUME NEW n \in Nat, NEW T, 0 \in T, \A i \in 1..n : i - 1 \in T => i \in T
    PROVE  0..n \subseteq T
<1> DEFINE bad == (0..n) \ T
<1> SUFFICES ASSUME bad # {} PROVE FALSE
  OBVIOUS
<1>1. bad \in SUBSET Nat
  OBVIOUS
<1>2. Min(bad) \in bad /\ \A y \in bad : Min(bad) <= y
  <2> HIDE DEF bad
  <2> QED BY <1>1, MinIsLeast
<1>3. Min(bad) \in 1..n /\ Min(bad) - 1 \in 0..n /\ Min(bad) - 1 < Min(bad)
  BY <1>2
<1>4. Min(bad) - 1 \notin bad
  <2> HIDE DEF bad
  <2>1. Min(bad) - 1 \in bad => Min(bad) <= Min(bad) - 1
    BY <1>2
  <2> QED BY <1>3, <2>1
<1> QED BY <1>2, <1>3, <1>4

\* A function that is defined from each number to the next.
Steps(f, S, start, step, n) ==
    f = [i \in 0..n |-> IF i = 0 THEN start ELSE step[i][f[i - 1]]]

\* There is one.
LEMMA StepsExist ==
    ASSUME NEW S, NEW start \in S, NEW n \in Nat, NEW step \in [1..n -> [S -> S]]
    PROVE  \E f \in [0..n -> S] : Steps(f, S, start, step, n)
<1> DEFINE T == {k \in 0..n : \E f \in [0..k -> S] : Steps(f, S, start, step, k)}
<1>1. 0 \in T
  <2> DEFINE f == [i \in 0..0 |-> start]
  <2>1. f \in [0..0 -> S] /\ Steps(f, S, start, step, 0)
    BY DEF Steps
  <2> QED BY <2>1
<1>2. ASSUME NEW k \in 1..n, k - 1 \in T PROVE k \in T
  <2>1. PICK f \in [0..(k - 1) -> S] : Steps(f, S, start, step, k - 1)
    BY <1>2
  <2> DEFINE g == [i \in 0..k |-> IF i = k THEN step[k][f[k - 1]] ELSE f[i]]
  <2>2. k - 1 \in 0..(k - 1) /\ \A i \in 0..k : i # k => i \in 0..(k - 1)
    OBVIOUS
  <2>3. g \in [0..k -> S]
    BY <2>1, <2>2
  <2>4. ASSUME NEW i \in 0..k
        PROVE  g[i] = IF i = 0 THEN start ELSE step[i][g[i - 1]]
    <3>1. CASE i = k
      BY <2>2, <3>1
    <3>2. CASE i # k
      <4>1. i \in 0..(k - 1) /\ g[i] = f[i]
        BY <2>2, <3>2
      <4>2. i # 0 => i - 1 \in 0..k /\ i - 1 # k /\ g[i - 1] = f[i - 1]
        BY <3>2
      <4>3. f[i] = IF i = 0 THEN start ELSE step[i][f[i - 1]]
        BY <2>1, <4>1 DEF Steps
      <4> HIDE DEF g
      <4> QED BY <4>1, <4>2, <4>3
    <3> QED BY <3>1, <3>2
  <2>5. Steps(g, S, start, step, k)
    <3>1. g = [i \in 0..k |-> g[i]]
      OBVIOUS
    <3> HIDE DEF g
    <3> QED BY <2>4, <3>1 DEF Steps
  <2> HIDE DEF g
  <2> QED BY <2>3, <2>5
<1>3. 0..n \subseteq T
  <2> HIDE DEF T
  <2> QED BY <1>1, <1>2, UpTo
<1> QED BY <1>3

\* The elements of a sequence, by its places.
LEMMA ElementsAre ==
    ASSUME NEW S, NEW s \in Seq(S)
    PROVE  /\ ToSet(s) \subseteq S
           /\ DOMAIN s = 1..Len(s) /\ Len(s) \in Nat
           /\ \A x : x \in ToSet(s) <=> \E i \in 1..Len(s) : s[i] = x
           /\ \A i \in 1..Len(s) : s[i] \in ToSet(s) /\ s[i] \in S
BY LenProperties, ElementOfSeq DEF ToSet

\* A sequence without elements is empty.
LEMMA EmptyHasNone == ToSet(<<>>) = {} /\ IsInjective(<<>>)
BY DEF ToSet, IsInjective

\* An element is added at the end.
LEMMA AppendElements ==
    ASSUME NEW S, NEW s \in Seq(S), NEW x \in S
    PROVE  /\ Append(s, x) \in Seq(S)
           /\ ToSet(Append(s, x)) = ToSet(s) \cup {x}
           /\ IsInjective(s) /\ x \notin ToSet(s) => IsInjective(Append(s, x))
<1> DEFINE t == Append(s, x)
<1>1. /\ t \in Seq(S) /\ Len(t) = Len(s) + 1
      /\ \A i \in 1..Len(s) : t[i] = s[i]
      /\ t[Len(s) + 1] = x
      /\ Len(s) \in Nat
  BY AppendProperties, LenProperties
<1>2. DOMAIN t = 1..(Len(s) + 1) /\ DOMAIN s = 1..Len(s)
  BY <1>1, LenProperties
<1> HIDE DEF t
<1>3. ToSet(t) = ToSet(s) \cup {x}
  <2>1. ASSUME NEW y \in ToSet(t) PROVE y \in ToSet(s) \cup {x}
    BY <1>1, <1>2 DEF ToSet
  <2>2. ASSUME NEW y \in ToSet(s) \cup {x} PROVE y \in ToSet(t)
    <3>1. CASE y = x
      <4>1. Len(s) + 1 \in DOMAIN t
        BY <1>1, <1>2
      <4> QED BY <1>1, <3>1, <4>1 DEF ToSet
    <3>2. CASE y \in ToSet(s)
      <4>1. PICK i \in DOMAIN s : y = s[i]
        BY <3>2 DEF ToSet
      <4>2. i \in DOMAIN t /\ t[i] = y
        BY <1>1, <1>2, <4>1
      <4> QED BY <4>2 DEF ToSet
    <3> QED BY <3>1, <3>2
  <2> QED BY <2>1, <2>2
<1>4. ASSUME IsInjective(s), x \notin ToSet(s) PROVE IsInjective(t)
  <2> SUFFICES ASSUME NEW a \in DOMAIN t, NEW b \in DOMAIN t, t[a] = t[b] PROVE a = b
    BY DEF IsInjective
  <2>1. \A i \in 1..Len(s) : s[i] # x
    BY <1>2, <1>4 DEF ToSet
  <2> QED BY <1>1, <1>2, <1>4, <2>1 DEF IsInjective
<1> QED BY <1>1, <1>3, <1>4 DEF t

\* The elements of two sequences.
LEMMA ConcatElements ==
    ASSUME NEW S, NEW s \in Seq(S), NEW t \in Seq(S)
    PROVE  s \o t \in Seq(S) /\ ToSet(s \o t) = ToSet(s) \cup ToSet(t)
<1> DEFINE u == s \o t
<1>1. /\ u \in Seq(S) /\ Len(u) = Len(s) + Len(t)
      /\ \A i \in 1..Len(s) + Len(t) : u[i] = IF i <= Len(s) THEN s[i] ELSE t[i - Len(s)]
      /\ Len(s) \in Nat /\ Len(t) \in Nat
  BY ConcatProperties, LenProperties
<1>2. DOMAIN u = 1..(Len(s) + Len(t)) /\ DOMAIN s = 1..Len(s) /\ DOMAIN t = 1..Len(t)
  BY <1>1, LenProperties
<1> HIDE DEF u
<1>3. ASSUME NEW y \in ToSet(u) PROVE y \in ToSet(s) \cup ToSet(t)
  <2>1. PICK i \in DOMAIN u : y = u[i]
    BY DEF ToSet
  <2>2. CASE i <= Len(s)
    <3>1. i \in DOMAIN s /\ y = s[i]
      BY <1>1, <1>2, <2>1, <2>2
    <3> QED BY <3>1 DEF ToSet
  <2>3. CASE ~(i <= Len(s))
    <3>1. i - Len(s) \in DOMAIN t /\ y = t[i - Len(s)]
      BY <1>1, <1>2, <2>1, <2>3
    <3> QED BY <3>1 DEF ToSet
  <2> QED BY <2>2, <2>3
<1>4. ASSUME NEW y \in ToSet(s) PROVE y \in ToSet(u)
  <2>1. PICK i \in DOMAIN s : y = s[i]
    BY <1>4 DEF ToSet
  <2>2. i \in DOMAIN u /\ u[i] = y
    BY <1>1, <1>2, <2>1
  <2> QED BY <2>2 DEF ToSet
<1>5. ASSUME NEW y \in ToSet(t) PROVE y \in ToSet(u)
  <2>1. PICK i \in DOMAIN t : y = t[i]
    BY <1>5 DEF ToSet
  <2>2. i + Len(s) \in DOMAIN u /\ u[i + Len(s)] = y
    BY <1>1, <1>2, <2>1
  <2> QED BY <2>2 DEF ToSet
<1> QED BY <1>1, <1>3, <1>4, <1>5 DEF u

\* The elements after the first.
LEMMA TailElements ==
    ASSUME NEW S, NEW s \in Seq(S), s # <<>>
    PROVE  /\ Head(s) \in S /\ Head(s) = s[1]
           /\ Tail(s) \in Seq(S) /\ Len(Tail(s)) = Len(s) - 1
           /\ Len(s) \in Nat \ {0}
           /\ \A i \in 1..Len(Tail(s)) : Tail(s)[i] = s[i + 1]
           /\ ToSet(s) = ToSet(Tail(s)) \cup {Head(s)}
<1> DEFINE t == Tail(s)
<1>1. /\ Head(s) \in S /\ Head(s) = s[1]
      /\ t \in Seq(S) /\ Len(t) = Len(s) - 1
      /\ Len(s) \in Nat \ {0}
      /\ \A i \in 1..Len(t) : t[i] = s[i + 1]
  BY HeadTailProperties, EmptySeq
<1>2. DOMAIN t = 1..(Len(s) - 1) /\ DOMAIN s = 1..Len(s)
  BY <1>1, LenProperties
<1> HIDE DEF t
<1>3. ASSUME NEW y \in ToSet(s) PROVE y \in ToSet(t) \cup {Head(s)}
  <2>1. PICK i \in DOMAIN s : y = s[i]
    BY DEF ToSet
  <2>2. CASE i = 1
    BY <1>1, <2>1, <2>2
  <2>3. CASE i # 1
    <3>1. i - 1 \in DOMAIN t /\ t[i - 1] = y
      BY <1>1, <1>2, <2>1, <2>3
    <3> QED BY <3>1 DEF ToSet
  <2> QED BY <2>2, <2>3
<1>4. ASSUME NEW y \in ToSet(t) PROVE y \in ToSet(s)
  <2>1. PICK i \in DOMAIN t : y = t[i]
    BY <1>4 DEF ToSet
  <2>2. i + 1 \in DOMAIN s /\ s[i + 1] = y
    BY <1>1, <1>2, <2>1
  <2> QED BY <2>2 DEF ToSet
<1>5. Head(s) \in ToSet(s)
  <2>1. 1 \in DOMAIN s
    BY <1>1, <1>2
  <2> QED BY <1>1, <2>1 DEF ToSet
<1> QED BY <1>1, <1>3, <1>4, <1>5 DEF t

\* A queue without one of its places.
LEMMA RemoveAtElements ==
    ASSUME NEW S, NEW s \in Seq(S), NEW i \in 1..Len(s)
    PROVE  /\ RemoveAt(s, i) \in Seq(S)
           /\ ToSet(RemoveAt(s, i)) \subseteq ToSet(s)
           /\ IsInjective(s) => /\ IsInjective(RemoveAt(s, i))
                                /\ s[i] \notin ToSet(RemoveAt(s, i))
<1> DEFINE a == SubSeq(s, 1, i - 1)
           b == SubSeq(s, i + 1, Len(s))
           u == RemoveAt(s, i)
<1>0. /\ Len(s) \in Nat /\ DOMAIN s = 1..Len(s) /\ \A j \in 1..Len(s) : s[j] \in S
      /\ i \in Int /\ 1 <= i /\ i <= Len(s)
  <2>1. Len(s) \in Nat /\ DOMAIN s = 1..Len(s) /\ \A j \in 1..Len(s) : s[j] \in S
    BY LenProperties, ElementOfSeq
  <2> QED BY <2>1
<1>1. a \in Seq(S) /\ Len(a) = i - 1 /\ \A j \in 1..(i - 1) : a[j] = s[j]
  <2>1. \A j \in 1..(i - 1) : s[j] \in S
    BY <1>0
  <2>2. i - 1 \in Int /\ (IF 1 <= i - 1 THEN (i - 1) - 1 + 1 ELSE 0) = i - 1
    OBVIOUS
  <2> QED BY <2>1, <2>2, SubSeqProperties
<1>2. b \in Seq(S) /\ Len(b) = Len(s) - i /\ \A j \in 1..(Len(s) - i) : b[j] = s[j + i]
  <2>1. \A j \in (i + 1)..Len(s) : s[j] \in S
    BY <1>0
  <2>2. i + 1 \in Int /\ Len(s) \in Int /\ Len(s) - (i + 1) + 1 = Len(s) - i
    BY <1>0
  <2>3. Len(b) = (IF i + 1 <= Len(s) THEN Len(s) - (i + 1) + 1 ELSE 0)
    BY <2>1, <2>2, SubSeqProperties
  <2>4. b \in Seq(S) /\ \A j \in 1..(Len(s) - (i + 1) + 1) : b[j] = s[(i + 1) + j - 1]
    BY <2>1, <2>2, SubSeqProperties
  <2>5. Len(b) = Len(s) - i
    <3> HIDE DEF b
    <3>1. CASE i + 1 <= Len(s)
      BY <1>0, <2>3, <3>1
    <3>2. CASE ~(i + 1 <= Len(s))
      <4>1. i = Len(s)
        <5>1. \A x, y \in Int : x <= y /\ ~(x + 1 <= y) => x = y
          OBVIOUS
        <5>2. Len(s) \in Int
          BY <1>0
        <5> QED BY ONLY <1>0, <3>2, <5>1, <5>2
      <4> QED BY <1>0, <2>3, <3>2, <4>1
    <3> QED BY <3>1, <3>2
  <2>6. \A j \in 1..(Len(s) - i) : (i + 1) + j - 1 = j + i
    BY <1>0
  <2> QED BY <2>2, <2>4, <2>5, <2>6
<1>3. u = a \o b
  BY DEF RemoveAt
<1> HIDE DEF a, b, u
<1>4. /\ u \in Seq(S) /\ Len(u) = Len(s) - 1
      /\ \A j \in 1..(Len(s) - 1) : u[j] = IF j < i THEN s[j] ELSE s[j + 1]
  <2>1. /\ u \in Seq(S) /\ Len(u) = Len(a) + Len(b)
        /\ \A j \in 1..(Len(a) + Len(b)) : u[j] = IF j <= Len(a) THEN a[j] ELSE b[j - Len(a)]
    BY <1>1, <1>2, <1>3, ConcatProperties
  <2>2. ASSUME NEW j \in 1..(Len(s) - 1) PROVE u[j] = IF j < i THEN s[j] ELSE s[j + 1]
    <3>1. Len(a) + Len(b) = Len(s) - 1
      BY <1>0, <1>1, <1>2
    <3>2. u[j] = IF j <= i - 1 THEN a[j] ELSE b[j - (i - 1)]
      BY <1>1, <2>1, <3>1
    <3>3. CASE j < i
      <4>1. j <= i - 1 /\ j \in 1..(i - 1)
        BY <3>3
      <4> QED BY <1>1, <3>2, <3>3, <4>1
    <3>4. CASE ~(j < i)
      <4>1. j - (i - 1) \in 1..(Len(s) - i) /\ (j - (i - 1)) + i = j + 1 /\ ~(j <= i - 1)
        BY <1>0, <3>4
      <4>2. u[j] = b[j - (i - 1)]
        BY <3>2, <4>1
      <4>3. b[j - (i - 1)] = s[(j - (i - 1)) + i]
        BY <1>2, <4>1
      <4> QED BY <3>4, <4>1, <4>2, <4>3
    <3> QED BY <3>3, <3>4
  <2> QED BY <1>0, <1>1, <1>2, <2>1, <2>2
<1>5. DOMAIN u = 1..(Len(s) - 1)
  BY <1>0, <1>4, LenProperties
<1>6. ToSet(u) \subseteq ToSet(s)
  <2> SUFFICES ASSUME NEW j \in 1..(Len(s) - 1) PROVE u[j] \in ToSet(s)
    BY <1>5 DEF ToSet
  <2>1. j \in DOMAIN s /\ j + 1 \in DOMAIN s
    BY <1>0
  <2> QED BY <1>4, <2>1 DEF ToSet
<1>7. ASSUME IsInjective(s) PROVE IsInjective(u)
  <2> SUFFICES ASSUME NEW j \in 1..(Len(s) - 1), NEW k \in 1..(Len(s) - 1), u[j] = u[k]
               PROVE  j = k
    BY <1>5 DEF IsInjective
  <2>1. \A l, m \in 1..Len(s) : s[l] = s[m] => l = m
    BY <1>0, <1>7 DEF IsInjective
  <2>2. /\ j \in 1..Len(s) /\ j + 1 \in 1..Len(s)
        /\ k \in 1..Len(s) /\ k + 1 \in 1..Len(s)
    BY <1>0
  <2>3. CASE j < i /\ k < i
    BY <1>4, <2>1, <2>2, <2>3
  <2>4. CASE j < i /\ ~(k < i)
    <3>1. s[j] = s[k + 1]
      BY <1>4, <2>4
    <3> QED BY <2>1, <2>2, <2>4, <3>1
  <2>5. CASE ~(j < i) /\ k < i
    <3>1. s[j + 1] = s[k]
      BY <1>4, <2>5
    <3> QED BY <2>1, <2>2, <2>5, <3>1
  <2>6. CASE ~(j < i) /\ ~(k < i)
    <3>1. s[j + 1] = s[k + 1]
      BY <1>4, <2>6
    <3>2. j + 1 = k + 1
      BY <2>1, <2>2, <3>1
    <3> QED BY <3>2
  <2> QED BY <2>3, <2>4, <2>5, <2>6
<1>8. ASSUME IsInjective(s) PROVE s[i] \notin ToSet(u)
  <2> SUFFICES ASSUME NEW j \in 1..(Len(s) - 1), u[j] = s[i] PROVE FALSE
    BY <1>5 DEF ToSet
  <2>1. j \in DOMAIN s /\ j + 1 \in DOMAIN s /\ i \in DOMAIN s
    BY <1>0
  <2> QED BY <1>0, <1>4, <1>8, <2>1 DEF IsInjective
<1> QED BY <1>4, <1>6, <1>7, <1>8 DEF u

\* What Kept computes place by place.
KeptFrom(f, queue, dropped) ==
    f = [i \in 0..Len(queue) |->
            IF i = 0 THEN <<>>
            ELSE IF queue[i] \in dropped THEN f[i - 1]
            ELSE Append(f[i - 1], queue[i])]

\* Kept is its value at the last place.
LEMMA KeptIsChosen ==
    ASSUME NEW queue, NEW dropped
    PROVE  Kept(queue, dropped) = (CHOOSE f : KeptFrom(f, queue, dropped))[Len(queue)]
BY DEF Kept, KeptFrom

\* What SettleTasks computes request by request, from this start, and its value
\* after the last.
SettledFrom(f, reqs, start) ==
    f = [i \in 0..Len(reqs) |-> IF i = 0 THEN start ELSE Match(f[i - 1], reqs[i])]

\* The state in which the loop starts, without the offers that expired.
Start(offs, expired) ==
    [ offers |-> Kept(offs, expired), busy |-> busy,
      accepting |-> accepting, to |-> toRunner ]

\* The state in which the loop ends.
Settled(reqs, offs, expired) ==
    (CHOOSE f : SettledFrom(f, reqs, Start(offs, expired)))[Len(reqs)]

\* SettleTasks is that value.
LEMMA SettleIsChosen ==
    ASSUME NEW reqs, NEW offs, NEW expired, SettleTasks(reqs, offs, expired)
    PROVE  LET s == Settled(reqs, offs, expired)
           IN  /\ offers' = s.offers /\ busy' = s.busy
               /\ accepting' = s.accepting /\ toRunner' = s.to
BY DEF SettleTasks, Settled, SettledFrom, Start

\* A queue without some offers has no others, and none twice.
LEMMA KeptIs ==
    ASSUME NEW queue \in Seq(Offers), NEW dropped
    PROVE  /\ Kept(queue, dropped) \in Seq(Offers)
           /\ ToSet(Kept(queue, dropped)) \subseteq ToSet(queue) \ dropped
           /\ IsInjective(queue) => IsInjective(Kept(queue, dropped))
<1> DEFINE n == Len(queue)
<1> DEFINE Q == Seq(Offers)
<1> DEFINE step == [i \in 1..n |-> [s \in Q |->
                       IF queue[i] \in dropped THEN s ELSE Append(s, queue[i])]]
<1>1. /\ n \in Nat /\ DOMAIN queue = 1..n
      /\ \A i \in 1..n : queue[i] \in Offers /\ queue[i] \in ToSet(queue)
      /\ <<>> \in Q
  BY ElementsAre, EmptySeq
<1>2. step \in [1..n -> [Q -> Q]]
  <2>1. ASSUME NEW i \in 1..n, NEW s \in Q PROVE Append(s, queue[i]) \in Q
    BY <1>1, AppendElements
  <2> HIDE DEF Q, n
  <2> QED BY <2>1
<1>3. PICK g \in [0..n -> Q] : Steps(g, Q, <<>>, step, n)
  <2> HIDE DEF Q, n, step
  <2> QED BY <1>1, <1>2, StepsExist
<1>4. KeptFrom(g, queue, dropped)
  <2>1. ASSUME NEW i \in 0..n
        PROVE  g[i] = IF i = 0 THEN <<>>
                      ELSE IF queue[i] \in dropped THEN g[i - 1]
                      ELSE Append(g[i - 1], queue[i])
    <3>1. g[i] = IF i = 0 THEN <<>> ELSE step[i][g[i - 1]]
      <4> HIDE DEF Q, n, step
      <4> QED BY <1>3 DEF Steps
    <3>2. i # 0 => i \in 1..n /\ i - 1 \in 0..n
      BY <1>1
    <3>3. i # 0 => g[i - 1] \in Q
      <4> HIDE DEF Q, n
      <4> QED BY <1>3, <3>2
    <3> HIDE DEF Q, n
    <3> QED BY <3>1, <3>2, <3>3
  <2>2. g = [i \in 0..n |-> g[i]]
    <3> HIDE DEF Q, n
    <3> QED BY <1>3
  <2> QED BY <2>1, <2>2 DEF KeptFrom
<1> DEFINE f == CHOOSE h : KeptFrom(h, queue, dropped)
<1>5. KeptFrom(f, queue, dropped)
  BY <1>4
<1> DEFINE T == {i \in 0..n : /\ f[i] \in Q
                              /\ \A x \in ToSet(f[i]) :
                                    \E j \in 1..i : queue[j] = x /\ x \notin dropped
                              /\ IsInjective(queue) => IsInjective(f[i])}
<1> HIDE DEF f, Q, n
<1>6. \A i \in 0..n : f[i] = IF i = 0 THEN <<>>
                             ELSE IF queue[i] \in dropped THEN f[i - 1]
                             ELSE Append(f[i - 1], queue[i])
  BY <1>5 DEF KeptFrom, n
<1>7. 0 \in T
  BY <1>1, <1>6, EmptyHasNone
<1>8. ASSUME NEW i \in 1..n, i - 1 \in T PROVE i \in T
  <2>1. /\ i \in 0..n /\ i - 1 \in 0..n /\ i \in Nat /\ 1..(i - 1) \subseteq 1..i
        /\ i \in 1..i /\ i # 0
    BY <1>1
  <2>2. /\ f[i - 1] \in Q
        /\ \A x \in ToSet(f[i - 1]) : \E j \in 1..(i - 1) : queue[j] = x /\ x \notin dropped
        /\ IsInjective(queue) => IsInjective(f[i - 1])
    BY <1>8
  <2>3. CASE queue[i] \in dropped
    <3>1. f[i] = f[i - 1]
      BY <1>6, <2>1, <2>3
    <3> QED BY <2>1, <2>2, <3>1
  <2>4. CASE queue[i] \notin dropped
    <3>1. f[i] = Append(f[i - 1], queue[i])
      BY <1>6, <2>1, <2>4
    <3>2. /\ f[i] \in Q
          /\ ToSet(f[i]) = ToSet(f[i - 1]) \cup {queue[i]}
          /\ IsInjective(f[i - 1]) /\ queue[i] \notin ToSet(f[i - 1]) => IsInjective(f[i])
      BY <1>1, <2>2, <3>1, AppendElements DEF Q
    <3>3. ASSUME IsInjective(queue) PROVE queue[i] \notin ToSet(f[i - 1])
      <4> SUFFICES ASSUME NEW j \in 1..(i - 1), queue[j] = queue[i] PROVE FALSE
        BY <2>2
      <4>1. j \in 1..n /\ j # i
        BY <1>1, <2>1
      <4> QED BY <1>1, <3>3, <4>1 DEF IsInjective
    <3>4. ASSUME NEW x \in ToSet(f[i])
          PROVE  \E j \in 1..i : queue[j] = x /\ x \notin dropped
      <4>1. CASE x = queue[i]
        BY <2>1, <2>4, <4>1
      <4>2. CASE x \in ToSet(f[i - 1])
        BY <2>1, <2>2, <4>2
      <4> QED BY <3>2, <4>1, <4>2
    <3> QED BY <2>1, <2>2, <3>2, <3>3, <3>4
  <2> QED BY <2>3, <2>4
<1>9. n \in T
  <2>1. 0..n \subseteq T
    <3> HIDE DEF T
    <3> QED BY <1>1, <1>7, <1>8, UpTo
  <2> QED BY <1>1, <2>1
<1>10. Kept(queue, dropped) = f[n]
  BY KeptIsChosen DEF f, n
<1>11. \A x \in ToSet(f[n]) : x \in ToSet(queue) /\ x \notin dropped
  BY <1>1, <1>9
<1> QED BY <1>9, <1>10, <1>11 DEF Q

-----------------------------------------------------------------------------
(* The loop of settleTasks.                                                *)

\* What the loop of settleTasks changes.
SettleState ==
    [ offers : Seq(Offers), busy : SUBSET Requests,
      accepting : [Offers -> Requests \cup {None}], to : [Runners -> Seq(BrokerMessage)] ]

\* At most one offer is being accepted for a request, and the flag
\* acceptInProgress is set for it.
AskedOnce(waiting, flagged) ==
    /\ \A o \in Offers : waiting[o] # None => waiting[o] \in flagged
    /\ \A o1, o2 \in Offers :
          waiting[o1] # None /\ waiting[o1] = waiting[o2] => o1 = o2

\* What is on its way to a runner is about its own offers.
OwnOrders(r, queue) ==
    \A m \in ToSet(queue) :
        m.type \in {"offeraccept", "settings", "cancel"} => RunnerOf(m.task) = r

\* The loop changes nothing but this: offers leave the queue, and their runners
\* are told that they are accepted.
LoopInv(s, offs) ==
    /\ s \in SettleState
    /\ IsInjective(s.offers) /\ ToSet(s.offers) \subseteq ToSet(offs)
    /\ AskedOnce(s.accepting, s.busy)
    /\ \A r \in Runners : OwnOrders(r, s.to[r])
    /\ \A r \in Runners : \A m \in BrokerMessage :
          m.type # "offeraccept" => (m \in ToSet(s.to[r]) <=> m \in ToSet(toRunner[r]))
    /\ \A r \in Runners :
          (\A o \in ToSet(offs) : RunnerOf(o) # r) => s.to[r] = toRunner[r]

\* An offer names its runner.
LEMMA OfferIs ==
    ASSUME NEW o \in Offers
    PROVE  RunnerOf(o) \in Runners /\ o[2] \in 1..MaxOffers /\ o = <<RunnerOf(o), o[2]>>
BY DEF Offers, RunnerOf

\* Nothing that is null is a request or an offer.
LEMMA NoneIsNone == None \notin Requests /\ None \notin Offers
BY BrokerAssumption DEF Offers

\* One turn of the loop.
LEMMA MatchKeeps ==
    ASSUME NEW offs \in Seq(Offers), NEW s, LoopInv(s, offs), NEW q \in Requests
    PROVE  LoopInv(Match(s, q), offs)
<1> DEFINE fit == {i \in DOMAIN s.offers : Kind[RunnerOf(s.offers[i])] = Kind[q]}
           i == Min(fit)
           o == s.offers[i]
           msg == [type |-> "offeraccept", task |-> o]
           t == Match(s, q)
<1>1. CASE q \in s.busy \/ fit = {}
  <2>1. t = s
    BY <1>1 DEF Match, Taken
  <2> QED BY <2>1
<1>2. CASE q \notin s.busy /\ fit # {}
  <2>1. t = [ offers |-> RemoveAt(s.offers, i),
              busy |-> s.busy \cup {q},
              accepting |-> [s.accepting EXCEPT ![o] = q],
              to |-> Told(s.to, RunnerOf(o), msg) ]
    BY <1>2 DEF Match, Taken
  <2>2. /\ s.offers \in Seq(Offers) /\ s.busy \subseteq Requests
        /\ s.accepting \in [Offers -> Requests \cup {None}]
        /\ s.to \in [Runners -> Seq(BrokerMessage)]
    BY DEF LoopInv, SettleState
  <2>3. i \in 1..Len(s.offers) /\ o \in Offers /\ o \in ToSet(s.offers)
    <3>1. DOMAIN s.offers = 1..Len(s.offers) /\ Len(s.offers) \in Nat
      BY <2>2, ElementsAre
    <3>2. fit \in SUBSET Nat
      BY <3>1
    <3>3. i \in fit
      <4> HIDE DEF fit
      <4> QED BY <1>2, <3>2, MinIsLeast
    <3>4. i \in 1..Len(s.offers)
      BY <3>1, <3>3
    <3> HIDE DEF i
    <3> QED BY <2>2, <3>4, ElementsAre
  <2> HIDE DEF fit, i, t
  <2>4. /\ RemoveAt(s.offers, i) \in Seq(Offers)
        /\ ToSet(RemoveAt(s.offers, i)) \subseteq ToSet(s.offers)
        /\ IsInjective(RemoveAt(s.offers, i))
    BY <2>2, <2>3, RemoveAtElements DEF LoopInv
  <2>5. msg \in BrokerMessage /\ RunnerOf(o) \in Runners
    BY <2>3, OfferIs DEF BrokerMessage
  <2> HIDE DEF msg
  <2> DEFINE r0 == RunnerOf(o)
  <2>6. /\ t.to \in [Runners -> Seq(BrokerMessage)]
        /\ \A r \in Runners \ {r0} : t.to[r] = s.to[r]
        /\ ToSet(t.to[r0]) \subseteq ToSet(s.to[r0]) \cup {msg}
        /\ ToSet(s.to[r0]) \subseteq ToSet(t.to[r0])
    <3>1. t.to = Told(s.to, r0, msg)
      BY <2>1
    <3>2. CASE proc[r0] = "gone"
      BY <2>2, <3>1, <3>2 DEF Told
    <3>3. CASE proc[r0] # "gone"
      <4>1. t.to = [s.to EXCEPT ![r0] = Append(s.to[r0], msg)]
        BY <3>1, <3>3 DEF Told
      <4>2. /\ Append(s.to[r0], msg) \in Seq(BrokerMessage)
            /\ ToSet(Append(s.to[r0], msg)) = ToSet(s.to[r0]) \cup {msg}
        BY <2>2, <2>5, AppendElements
      <4> QED BY <2>2, <2>5, <4>1, <4>2
    <3> QED BY <3>2, <3>3
  <2>7. t \in SettleState
    <3>1. [s.accepting EXCEPT ![o] = q] \in [Offers -> Requests \cup {None}]
      BY <2>2
    <3>2. t.to \in [Runners -> Seq(BrokerMessage)] /\ t.to = Told(s.to, RunnerOf(o), msg)
      BY <2>1, <2>6
    <3> QED BY <2>1, <2>2, <2>4, <3>1, <3>2 DEF SettleState
  <2>8. IsInjective(t.offers) /\ ToSet(t.offers) \subseteq ToSet(offs)
    BY <2>1, <2>4 DEF LoopInv
  <2>9. AskedOnce(t.accepting, t.busy)
    <3>1. t.accepting = [s.accepting EXCEPT ![o] = q] /\ t.busy = s.busy \cup {q}
      BY <2>1
    <3>2. AskedOnce(s.accepting, s.busy)
      BY DEF LoopInv
    <3>3. \A p \in Offers : s.accepting[p] # q
      BY <1>2, <3>2, NoneIsNone DEF AskedOnce
    <3> QED BY <2>2, <2>3, <3>1, <3>2, <3>3 DEF AskedOnce
  <2>10. ASSUME NEW r \in Runners PROVE OwnOrders(r, t.to[r])
    <3>1. OwnOrders(r, s.to[r])
      BY DEF LoopInv
    <3>2. \A m \in ToSet(t.to[r]) : m \in ToSet(s.to[r]) \/ (m = msg /\ r = r0)
      BY <2>6
    <3>3. RunnerOf(msg.task) = r0
      BY DEF msg
    <3> QED BY <3>1, <3>2, <3>3 DEF OwnOrders
  <2>11. ASSUME NEW r \in Runners, NEW m \in BrokerMessage, m.type # "offeraccept"
         PROVE  m \in ToSet(t.to[r]) <=> m \in ToSet(toRunner[r])
    <3>1. m \in ToSet(s.to[r]) <=> m \in ToSet(toRunner[r])
      BY <2>11 DEF LoopInv
    <3>2. m # msg
      BY <2>11 DEF msg
    <3>3. CASE r = r0
      BY <2>6, <3>1, <3>2, <3>3
    <3>4. CASE r # r0
      BY <2>6, <3>1, <3>4
    <3> QED BY <3>3, <3>4
  <2>12. ASSUME NEW r \in Runners, \A p \in ToSet(offs) : RunnerOf(p) # r
         PROVE  t.to[r] = toRunner[r]
    <3>1. s.to[r] = toRunner[r] /\ o \in ToSet(offs)
      BY <2>3, <2>12 DEF LoopInv
    <3> QED BY <2>6, <2>12, <3>1
  <2> QED BY <2>7, <2>8, <2>9, <2>10, <2>11, <2>12 DEF LoopInv, t
<1> QED BY <1>1, <1>2

\* The whole loop.
LEMMA SettleKeeps ==
    ASSUME NEW reqs \in Seq(Requests), NEW offs \in Seq(Offers), NEW expired,
           LoopInv(Start(offs, expired), offs), SettleTasks(reqs, offs, expired)
    PROVE  \E s : /\ LoopInv(s, offs)
                  /\ offers' = s.offers /\ busy' = s.busy
                  /\ accepting' = s.accepting /\ toRunner' = s.to
<1> DEFINE n == Len(reqs)
           G == {s \in SettleState : LoopInv(s, offs)}
           start == Start(offs, expired)
           step == [i \in 1..n |-> [s \in G |-> Match(s, reqs[i])]]
<1>1. n \in Nat /\ \A i \in 1..n : reqs[i] \in Requests
  BY ElementsAre
<1>2. start \in G
  BY DEF LoopInv
<1>3. \A i \in 1..n : \A s \in G : Match(s, reqs[i]) \in G
  <2>1. ASSUME NEW i \in 1..n, NEW s \in G PROVE LoopInv(Match(s, reqs[i]), offs)
    BY <1>1, MatchKeeps
  <2> QED BY <2>1 DEF LoopInv
<1> HIDE DEF G, n, start
<1>4. step \in [1..n -> [G -> G]]
  BY <1>3
<1>5. PICK g \in [0..n -> G] : Steps(g, G, start, step, n)
  <2> HIDE DEF step
  <2> QED BY <1>1, <1>2, <1>4, StepsExist
<1>6. SettledFrom(g, reqs, start)
  <2>1. ASSUME NEW i \in 0..n
        PROVE  g[i] = IF i = 0 THEN start ELSE Match(g[i - 1], reqs[i])
    <3>1. g[i] = IF i = 0 THEN start ELSE step[i][g[i - 1]]
      <4> HIDE DEF step
      <4> QED BY <1>5 DEF Steps
    <3>2. i # 0 => i \in 1..n /\ i - 1 \in 0..n
      BY <1>1
    <3>3. i # 0 => g[i - 1] \in G
      BY <1>5, <3>2
    <3> QED BY <3>1, <3>2, <3>3
  <2>2. g = [i \in 0..n |-> g[i]]
    BY <1>5
  <2> QED BY <2>1, <2>2 DEF SettledFrom, n
<1> DEFINE f == CHOOSE h : SettledFrom(h, reqs, start)
<1>7. SettledFrom(f, reqs, start)
  BY <1>6
<1> HIDE DEF f
<1>8. \A i \in 0..n : f[i] = IF i = 0 THEN start ELSE Match(f[i - 1], reqs[i])
  BY <1>7 DEF SettledFrom, n
<1> DEFINE T == {i \in 0..n : f[i] \in G}
<1>9. 0 \in T
  BY <1>1, <1>2, <1>8
<1>10. ASSUME NEW i \in 1..n, i - 1 \in T PROVE i \in T
  <2>1. i \in 0..n /\ i # 0
    BY <1>1
  <2>2. f[i] = Match(f[i - 1], reqs[i])
    BY <1>8, <2>1
  <2> QED BY <1>3, <1>10, <2>1, <2>2
<1>11. n \in T
  <2>1. 0..n \subseteq T
    <3> HIDE DEF T
    <3> QED BY <1>1, <1>9, <1>10, UpTo
  <2> QED BY <1>1, <2>1
<1>12. f[n] = Settled(reqs, offs, expired)
  BY DEF f, n, start, Settled
<1>13. LoopInv(f[n], offs)
  BY <1>11 DEF G
<1> QED BY <1>12, <1>13, SettleIsChosen

-----------------------------------------------------------------------------
(* The invariant.                                                          *)

\* A message about an offer, in either direction.
Message(type, o) == [type |-> type, task |-> o]

\* What a runner says.
Words == {"offer", "accepted", "declined", "finished"}

\* What the broker orders about a task.
Orders == {"offeraccept", "settings", "cancel"}

\* A runner has said this of an offer; it has been ordered this.
Said(type, o) == Message(type, o) \in ToSet(toBroker[RunnerOf(o)])
Ordered(type, o) == Message(type, o) \in ToSet(toRunner[RunnerOf(o)])

\* The number that a runner gave an offer; all the offers a runner makes.
Serial(o) == o[2]
OffersOf(r) == {o \in Offers : RunnerOf(o) = r}

\* Of an offer that has not been made nothing is known.
Unmade(o) ==
    Serial(o) > sent[RunnerOf(o)] =>
        /\ o \notin open[RunnerOf(o)] /\ status[o] = "none"
        /\ o \notin tasks /\ o \notin ToSet(offers)
        /\ ~ Said("offer", o) /\ ~ Said("accepted", o) /\ ~ Said("finished", o)
        /\ ~ Ordered("settings", o) /\ ~ Ordered("cancel", o)

\* An offer on its way is not in the queue yet.
Arriving(o) == Said("offer", o) => o \notin ToSet(offers)

\* An open offer has not been a task.
Untouched(o) ==
    o \in open[RunnerOf(o)] =>
        /\ status[o] = "none" /\ o \notin tasks
        /\ ~ Said("accepted", o) /\ ~ Said("finished", o)
        /\ ~ Ordered("settings", o) /\ ~ Ordered("cancel", o)

\* A runner that says that a task is over has forgotten it.
OverAtRunner(o) == Said("finished", o) => status[o] = "none"

\* Before the broker hears that its offer is accepted, it orders nothing.
Unheard(o) ==
    Said("accepted", o) =>
        /\ o \notin tasks /\ status[o] \in {"waitingForSettings", "none"}
        /\ ~ Ordered("settings", o) /\ ~ Ordered("cancel", o)

\* The broker forgets a task before it is cancelled.
ForgottenFirst(o) == Ordered("cancel", o) \/ status[o] = "cancelled" => o \notin tasks

\* Code that runs, or is about to, is a task, or about to be cancelled.
Remembered(o) ==
    /\ RunnerOf(o) \in known
    /\ \/ status[o] = "running"
       \/ status[o] = "waitingForSettings" /\ Ordered("settings", o)
    => o \in tasks \/ Ordered("cancel", o)

\* A task takes a slot of its runner until the runner has said that it is over.
Occupies(o) ==
    /\ RunnerOf(o) \in known /\ proc[RunnerOf(o)] # "gone"
    /\ o \in tasks \/ Said("accepted", o)
    /\ ~ Said("finished", o)
    => status[o] # "none"

\* What the two sides know of an offer fits together.
OfferInv(o) ==
    /\ Unmade(o) /\ Arriving(o) /\ Untouched(o) /\ OverAtRunner(o)
    /\ Unheard(o) /\ ForgottenFirst(o) /\ Remembered(o) /\ Occupies(o)

\* A runner says nothing twice but that it declines, and that a task is over
\* only after it has accepted it.
SaidOnce(queue) ==
    \A i, j \in 1..Len(queue) :
        /\ queue[i] = queue[j] /\ queue[i].type # "declined" => i = j
        /\ \A o \in Offers :
              queue[i] = Message("accepted", o) /\ queue[j] = Message("finished", o) => i < j

\* The tasks that the broker counts once it has heard k of the messages.
Counted(r, queue, held, k) ==
    {o \in OffersOf(r) :
        /\ o \in held \/ \E i \in 1..k : queue[i] = Message("accepted", o)
        /\ \A i \in 1..k : queue[i] # Message("finished", o)}

\* However much it has heard, it counts no more than the runner takes.
Within(r, queue, held) ==
    \A k \in 0..Len(queue) : Cardinality(Counted(r, queue, held, k)) <= MaxConcurrency

\* Both sides of a connection speak of the offers of its runner.
OwnMessages(r) ==
    /\ open[r] \subseteq OffersOf(r)
    /\ \A m \in ToSet(toBroker[r]) : RunnerOf(m.task) = r
    /\ OwnOrders(r, toRunner[r])

\* Nothing is left of a runner that the broker does not know.
UnknownIsGone(r) ==
    r \notin known =>
        /\ toBroker[r] = <<>>
        /\ \A o \in OffersOf(r) : o \notin tasks /\ o \notin ToSet(offers)

\* Nothing has happened at a runner that starts; nothing runs at one that is gone.
IdleOutside(r) ==
    /\ proc[r] = "starting" => r \notin known /\ toRunner[r] = <<>>
    /\ proc[r] \in {"starting", "gone"} =>
          open[r] = {} /\ \A o \in OffersOf(r) : status[o] = "none"

\* A runner offers no slot that is taken.
SlotsKept(r) == Cardinality(open[r]) + Cardinality(RunningTasks(r)) <= MaxConcurrency

\* What the broker counts of a runner fits what the runner does.
RunnerInv(r) ==
    /\ OwnMessages(r) /\ UnknownIsGone(r) /\ IdleOutside(r) /\ SlotsKept(r)
    /\ SaidOnce(toBroker[r]) /\ Within(r, toBroker[r], tasks)

\* A request is not queued before it is made.
QueuedOnce == \A q \in Requests : reply[q] = "idle" => q \notin ToSet(requests)

\* The inductive invariant.
BrokerInv ==
    /\ TypeOK
    /\ AskedOnce(accepting, busy)
    /\ QueuedOnce
    /\ \A o \in Offers : OfferInv(o)
    /\ \A r \in Runners : RunnerInv(r)

-----------------------------------------------------------------------------
(* Channels.                                                               *)

\* Two messages differ in their types or their tasks.
LEMMA Messages ==
    ASSUME NEW t1, NEW t2, NEW o1, NEW o2
    PROVE  /\ Message(t1, o1) = Message(t2, o2) <=> t1 = t2 /\ o1 = o2
           /\ Message(t1, o1).type = t1 /\ Message(t1, o1).task = o1
<1>1. Message(t1, o1).type = t1 /\ Message(t1, o1).task = o1
  BY DEF Message
<1>2. Message(t2, o2).type = t2 /\ Message(t2, o2).task = o2
  BY DEF Message
<1>3. t1 = t2 /\ o1 = o2 => Message(t1, o1) = Message(t2, o2)
  OBVIOUS
<1> QED BY <1>1, <1>2, <1>3

\* The broker hears the first message of a runner.
LEMMA Heard ==
    ASSUME BrokerInv, NEW r \in Runners, NEW o \in Offers,
           NEW type \in Words,
           Hears(r, type, o), Consume(r)
    PROVE  /\ r \in known /\ RunnerOf(o) = r /\ toBroker[r] # <<>>
           /\ Head(toBroker[r]) = Message(type, o)
           /\ Said(type, o)
           /\ toBroker' \in [Runners -> Seq(RunnerMessage)]
           /\ toBroker'[r] = Tail(toBroker[r])
           /\ \A s \in Runners \ {r} : toBroker'[s] = toBroker[s]
           /\ ToSet(toBroker[r]) = ToSet(toBroker'[r]) \cup {Message(type, o)}
           /\ type # "declined" => Message(type, o) \notin ToSet(toBroker'[r])
<1> DEFINE q == toBroker[r]
<1>1. /\ r \in known /\ q # <<>> /\ Head(q) = Message(type, o)
      /\ toBroker' = [toBroker EXCEPT ![r] = Tail(@)]
  BY DEF Hears, Consume, Message
<1>2. toBroker \in [Runners -> Seq(RunnerMessage)] /\ q \in Seq(RunnerMessage)
  BY DEF BrokerInv, TypeOK
<1>3. /\ Head(q) = q[1]
      /\ Tail(q) \in Seq(RunnerMessage) /\ Len(Tail(q)) = Len(q) - 1
      /\ Len(q) \in Nat \ {0}
      /\ \A i \in 1..Len(Tail(q)) : Tail(q)[i] = q[i + 1]
      /\ ToSet(q) = ToSet(Tail(q)) \cup {Head(q)}
  <2> HIDE DEF q
  <2> QED BY <1>1, <1>2, TailElements
<1>4. toBroker'[r] = Tail(q) /\ \A s \in Runners \ {r} : toBroker'[s] = toBroker[s]
  BY <1>1, <1>2
<1>5. toBroker' \in [Runners -> Seq(RunnerMessage)]
  BY <1>1, <1>2, <1>3
<1>6. Message(type, o) \in ToSet(q)
  BY <1>1, <1>3
<1>7. RunnerOf(o) = r
  BY <1>6, Messages DEF BrokerInv, RunnerInv, OwnMessages
<1>8. ASSUME type # "declined", Message(type, o) \in ToSet(Tail(q)) PROVE FALSE
  <2>1. PICK i \in 1..Len(Tail(q)) : Tail(q)[i] = Message(type, o)
    <3> DEFINE t == Tail(q)
    <3>1. t \in Seq(RunnerMessage) /\ Message(type, o) \in ToSet(t)
      BY <1>3, <1>8
    <3> HIDE DEF t
    <3>2. \E i \in 1..Len(t) : t[i] = Message(type, o)
      BY <3>1, ElementsAre
    <3> QED BY <3>2 DEF t
  <2>2. /\ q[i + 1] = Message(type, o) /\ q[1] = Message(type, o)
        /\ i + 1 \in 1..Len(q) /\ 1 \in 1..Len(q) /\ i + 1 # 1
    BY <1>1, <1>3, <2>1
  <2>3. SaidOnce(q) /\ q[1].type # "declined"
    BY <1>8, <2>2, Messages DEF BrokerInv, RunnerInv
  <2> HIDE DEF q
  <2> QED BY <2>2, <2>3 DEF SaidOnce
<1> QED BY <1>1, <1>3, <1>4, <1>5, <1>6, <1>7, <1>8 DEF Said

\* A runner gets its first order.
LEMMA Got ==
    ASSUME BrokerInv, NEW r \in Runners, NEW type, Gets(r, type)
    PROVE  /\ proc[r] # "gone" /\ proc[r] # "starting"
           /\ toRunner' \in [Runners -> Seq(BrokerMessage)]
           /\ \A s \in Runners \ {r} : toRunner'[s] = toRunner[s]
           /\ ToSet(toRunner[r]) = ToSet(toRunner'[r]) \cup {Head(toRunner[r])}
           /\ Head(toRunner[r]).type = type
           /\ type \in Orders =>
                /\ Head(toRunner[r]).task \in OffersOf(r)
                /\ Head(toRunner[r]) = Message(type, Head(toRunner[r]).task)
<1> DEFINE q == toRunner[r]
<1>1. /\ proc[r] # "gone" /\ q # <<>> /\ Head(q).type = type
      /\ toRunner' = [toRunner EXCEPT ![r] = Tail(@)]
  BY DEF Gets
<1>2. toRunner \in [Runners -> Seq(BrokerMessage)] /\ q \in Seq(BrokerMessage)
  BY DEF BrokerInv, TypeOK
<1>3. /\ Head(q) \in BrokerMessage /\ Tail(q) \in Seq(BrokerMessage)
      /\ ToSet(q) = ToSet(Tail(q)) \cup {Head(q)}
  <2> HIDE DEF q
  <2> QED BY <1>1, <1>2, TailElements
<1>4. toRunner'[r] = Tail(q) /\ \A s \in Runners \ {r} : toRunner'[s] = toRunner[s]
  BY <1>1, <1>2
<1>5. toRunner' \in [Runners -> Seq(BrokerMessage)]
  BY <1>1, <1>2, <1>3
<1>6. proc[r] # "starting"
  BY <1>1 DEF BrokerInv, RunnerInv, IdleOutside
<1>7. ASSUME type \in Orders
      PROVE  Head(q).task \in OffersOf(r) /\ Head(q) = Message(type, Head(q).task)
  <2>1. OwnOrders(r, q)
    BY DEF BrokerInv, RunnerInv, OwnMessages
  <2> HIDE DEF q
  <2>2. RunnerOf(Head(q).task) = r
    BY <1>1, <1>3, <1>7, <2>1 DEF OwnOrders, Orders
  <2>3. Head(q) \in [type : {"offeraccept", "settings", "cancel"}, task : Offers]
    BY <1>1, <1>3, <1>7 DEF BrokerMessage, Orders
  <2> QED BY <1>1, <2>2, <2>3 DEF OffersOf, Message
<1> QED BY <1>1, <1>3, <1>4, <1>5, <1>6, <1>7

\* A message is sent to a runner, which may be gone.
LEMMA Tells ==
    ASSUME BrokerInv, NEW r \in Runners, NEW msg \in BrokerMessage, Tell(r, msg)
    PROVE  /\ toRunner' \in [Runners -> Seq(BrokerMessage)]
           /\ \A s \in Runners \ {r} : toRunner'[s] = toRunner[s]
           /\ ToSet(toRunner'[r]) \subseteq ToSet(toRunner[r]) \cup {msg}
           /\ ToSet(toRunner[r]) \subseteq ToSet(toRunner'[r])
           /\ proc[r] # "gone" => msg \in ToSet(toRunner'[r])
<1>1. toRunner \in [Runners -> Seq(BrokerMessage)] /\ toRunner[r] \in Seq(BrokerMessage)
  BY DEF BrokerInv, TypeOK
<1>2. CASE proc[r] = "gone"
  BY <1>1, <1>2 DEF Tell, Told
<1>3. CASE proc[r] # "gone"
  <2>1. toRunner' = [toRunner EXCEPT ![r] = Append(toRunner[r], msg)]
    BY <1>3 DEF Tell, Told
  <2>2. /\ Append(toRunner[r], msg) \in Seq(BrokerMessage)
        /\ ToSet(Append(toRunner[r], msg)) = ToSet(toRunner[r]) \cup {msg}
    BY <1>1, AppendElements
  <2> QED BY <1>1, <2>1, <2>2
<1> QED BY <1>2, <1>3

\* A runner says something, which the broker may not hear any more.
LEMMA Says ==
    ASSUME BrokerInv, NEW r \in Runners, NEW msgs \in Seq(RunnerMessage), Say(r, msgs)
    PROVE  /\ toBroker' \in [Runners -> Seq(RunnerMessage)]
           /\ \A s \in Runners \ {r} : toBroker'[s] = toBroker[s]
           /\ r \notin known => toBroker'[r] = toBroker[r]
           /\ r \in known => /\ toBroker'[r] = toBroker[r] \o msgs
                             /\ ToSet(toBroker'[r]) = ToSet(toBroker[r]) \cup ToSet(msgs)
<1>1. toBroker \in [Runners -> Seq(RunnerMessage)] /\ toBroker[r] \in Seq(RunnerMessage)
  BY DEF BrokerInv, TypeOK
<1>2. CASE r \notin known
  BY <1>1, <1>2 DEF Say
<1>3. CASE r \in known
  <2>1. toBroker' = [toBroker EXCEPT ![r] = toBroker[r] \o msgs]
    BY <1>3 DEF Say
  <2>2. /\ toBroker[r] \o msgs \in Seq(RunnerMessage)
        /\ ToSet(toBroker[r] \o msgs) = ToSet(toBroker[r]) \cup ToSet(msgs)
    BY <1>1, ConcatElements
  <2> QED BY <1>1, <1>3, <2>1, <2>2
<1> QED BY <1>2, <1>3

-----------------------------------------------------------------------------
(* What leaves the invariant alone.                                        *)

\* Nothing happens to an offer, unless its runner goes, or is forgotten.
Stays(o) ==
    /\ status'[o] = status[o] \/ (status'[o] = "none" /\ proc'[RunnerOf(o)] = "gone")
    /\ o \in tasks' => o \in tasks
    /\ RunnerOf(o) \in known' => /\ RunnerOf(o) \in known
                                 /\ o \in tasks => o \in tasks'
                                 /\ Said("finished", o) => Said("finished", o)'
    /\ proc[RunnerOf(o)] = "gone" => proc'[RunnerOf(o)] = "gone"
    /\ sent'[RunnerOf(o)] >= sent[RunnerOf(o)]
    /\ o \in open'[RunnerOf(o)] => o \in open[RunnerOf(o)]
    /\ o \in ToSet(offers') => o \in ToSet(offers)
    /\ Said("offer", o)' => Said("offer", o)
    /\ Said("accepted", o)' => Said("accepted", o)
    /\ Said("finished", o)' => Said("finished", o)
    /\ Ordered("settings", o)' => Ordered("settings", o)
    /\ Ordered("cancel", o)' => Ordered("cancel", o)
    /\ status'[o] # "none" /\ Ordered("cancel", o) => Ordered("cancel", o)'

\* Then what is known of it stays true.
LEMMA StaysKeeps ==
    ASSUME NEW o \in Offers, OfferInv(o), Stays(o),
           sent \in [Runners -> Nat], sent' \in [Runners -> Nat]
    PROVE  OfferInv(o)'
<1>0. RunnerOf(o) \in Runners /\ Serial(o) \in Nat
  BY OfferIs, BrokerAssumption DEF Serial
<1>1. Unmade(o)'
  <2> SUFFICES ASSUME Serial(o) > sent'[RunnerOf(o)] PROVE Unmade(o)'
    BY DEF Unmade, Serial
  <2>1. Serial(o) > sent[RunnerOf(o)]
    BY <1>0 DEF Stays
  <2> QED BY <2>1 DEF OfferInv, Unmade, Stays
<1>2. Arriving(o)'
  BY DEF OfferInv, Arriving, Stays
<1>3. Untouched(o)'
  BY DEF OfferInv, Untouched, Stays
<1>4. OverAtRunner(o)'
  BY DEF OfferInv, OverAtRunner, Stays
<1>5. Unheard(o)'
  BY DEF OfferInv, Unheard, Stays
<1>6. ForgottenFirst(o)'
  BY DEF OfferInv, ForgottenFirst, Stays
<1>7. Remembered(o)'
  BY DEF OfferInv, Remembered, Stays
<1>8. Occupies(o)'
  BY DEF OfferInv, Occupies, Stays
<1> QED BY <1>1, <1>2, <1>3, <1>4, <1>5, <1>6, <1>7, <1>8 DEF OfferInv

\* The offers of a runner are finitely many.
LEMMA OffersFinite ==
    ASSUME NEW r \in Runners, NEW S, S \subseteq OffersOf(r)
    PROVE  IsFiniteSet(S) /\ Cardinality(S) \in Nat
<1> DEFINE f == [i \in 1..MaxOffers |-> <<r, i>>]
<1>1. IsFiniteSet(1..MaxOffers)
  BY BrokerAssumption, FS_Interval
<1>2. f \in Surjection(1..MaxOffers, OffersOf(r))
  <2>1. f \in [1..MaxOffers -> OffersOf(r)]
    BY DEF OffersOf, Offers, RunnerOf
  <2>2. \A o \in OffersOf(r) : \E i \in 1..MaxOffers : f[i] = o
    BY OfferIs DEF OffersOf
  <2> HIDE DEF f
  <2> QED BY <2>1, <2>2 DEF Surjection
<1>3. IsFiniteSet(OffersOf(r))
  <2> HIDE DEF f
  <2> QED BY <1>1, <1>2, FS_Surjection
<1> QED BY <1>3, FS_Subset, FS_CardinalityType

\* A smaller set of offers has no more of them.
LEMMA FewerOffers ==
    ASSUME NEW r \in Runners, NEW S, NEW T, S \subseteq T, T \subseteq OffersOf(r)
    PROVE  /\ Cardinality(S) <= Cardinality(T)
           /\ Cardinality(S) \in Nat /\ Cardinality(T) \in Nat
BY OffersFinite, FS_Subset

\* What the broker counts are offers of the runner.
LEMMA CountedOwn ==
    \A r, queue, held, k : Counted(r, queue, held, k) \subseteq OffersOf(r)
BY DEF Counted

\* A broker that forgets tasks counts fewer.
LEMMA WithinForgets ==
    ASSUME NEW r \in Runners, NEW queue \in Seq(RunnerMessage), NEW held, NEW left,
           Within(r, queue, held), \A o \in OffersOf(r) : o \in left => o \in held
    PROVE  Within(r, queue, left)
<1> SUFFICES ASSUME NEW k \in 0..Len(queue)
             PROVE  Cardinality(Counted(r, queue, left, k)) <= MaxConcurrency
  BY DEF Within
<1>1. Counted(r, queue, left, k) \subseteq Counted(r, queue, held, k)
  BY DEF Counted
<1>2. Cardinality(Counted(r, queue, held, k)) <= MaxConcurrency
  BY DEF Within
<1>3. /\ Cardinality(Counted(r, queue, left, k)) <= Cardinality(Counted(r, queue, held, k))
      /\ Cardinality(Counted(r, queue, left, k)) \in Nat
      /\ Cardinality(Counted(r, queue, held, k)) \in Nat
  BY <1>1, CountedOwn, FewerOffers
<1> QED BY <1>2, <1>3, BrokerAssumption

\* Hearing a message takes the broker to what it was to count.
LEMMA WithinHears ==
    ASSUME NEW r \in Runners, NEW queue \in Seq(RunnerMessage), queue # <<>>,
           NEW held, NEW left, Within(r, queue, held), SaidOnce(queue),
           \A o \in OffersOf(r) :
              o \in left => /\ o \in held \/ Head(queue) = Message("accepted", o)
                            /\ Head(queue) # Message("finished", o)
    PROVE  Within(r, Tail(queue), left)
<1> DEFINE t == Tail(queue)
<1>1. /\ Head(queue) = queue[1]
      /\ t \in Seq(RunnerMessage) /\ Len(t) = Len(queue) - 1
      /\ Len(queue) \in Nat \ {0}
      /\ \A i \in 1..Len(t) : t[i] = queue[i + 1]
  BY TailElements
<1> HIDE DEF t
<1> SUFFICES ASSUME NEW k \in 0..Len(t)
             PROVE  Cardinality(Counted(r, t, left, k)) <= MaxConcurrency
  BY DEF Within, t
<1>2. k + 1 \in 0..Len(queue) /\ k \in Nat
  BY <1>1
<1>3. ASSUME NEW o \in Counted(r, t, left, k)
      PROVE  o \in Counted(r, queue, held, k + 1)
  <2>1. /\ o \in OffersOf(r) /\ o \in Offers
        /\ o \in left \/ \E i \in 1..k : t[i] = Message("accepted", o)
        /\ \A i \in 1..k : t[i] # Message("finished", o)
    BY DEF Counted, OffersOf
  <2>2. o \in held \/ \E i \in 1..(k + 1) : queue[i] = Message("accepted", o)
    <3>1. CASE o \in left
      <4>1. 1 \in 1..(k + 1)
        BY <1>2
      <4> QED BY <1>1, <2>1, <3>1, <4>1
    <3>2. ASSUME NEW i \in 1..k, t[i] = Message("accepted", o)
          PROVE  \E j \in 1..(k + 1) : queue[j] = Message("accepted", o)
      <4>1. i + 1 \in 1..(k + 1) /\ queue[i + 1] = t[i]
        BY <1>1, <1>2
      <4> QED BY <3>2, <4>1
    <3> QED BY <2>1, <3>1, <3>2
  <2>3. ASSUME NEW i \in 1..(k + 1), queue[i] = Message("finished", o) PROVE FALSE
    <3>1. CASE i # 1
      <4>1. i - 1 \in 1..k /\ t[i - 1] = queue[i]
        BY <1>1, <1>2, <3>1
      <4> QED BY <2>1, <2>3, <4>1
    <3>2. CASE i = 1
      <4>1. o \notin left
        BY <1>1, <2>1, <2>3, <3>2
      <4>2. PICK j \in 1..k : t[j] = Message("accepted", o)
        BY <2>1, <4>1
      <4>3. /\ j + 1 \in 1..Len(queue) /\ 1 \in 1..Len(queue)
            /\ queue[j + 1] = Message("accepted", o) /\ ~ (j + 1 < 1)
        BY <1>1, <1>2, <4>2
      <4> QED BY <2>1, <2>3, <3>2, <4>3 DEF SaidOnce
    <3> QED BY <3>1, <3>2
  <2> QED BY <2>1, <2>2, <2>3 DEF Counted
<1>4. Cardinality(Counted(r, queue, held, k + 1)) <= MaxConcurrency
  BY <1>2 DEF Within
<1>5. /\ Cardinality(Counted(r, t, left, k)) <= Cardinality(Counted(r, queue, held, k + 1))
      /\ Cardinality(Counted(r, t, left, k)) \in Nat
      /\ Cardinality(Counted(r, queue, held, k + 1)) \in Nat
  BY <1>3, CountedOwn, FewerOffers
<1> QED BY <1>4, <1>5, BrokerAssumption

\* A connection with nothing on its way and no task of it.
LEMMA WithinEmpty ==
    ASSUME NEW r \in Runners, NEW held, \A o \in OffersOf(r) : o \notin held
    PROVE  Within(r, <<>>, held) /\ SaidOnce(<<>>)
<1>1. Len(<<>>) = 0 /\ 0..0 = {0} /\ 1..0 = {}
  BY EmptySeq
<1>2. Counted(r, <<>>, held, 0) = {}
  BY <1>1 DEF Counted
<1> QED BY <1>1, <1>2, FS_EmptySet, BrokerAssumption DEF Within, SaidOnce

\* What a runner adds changes what the broker counts at most once it has heard
\* all that came before.
LEMMA WithinSays ==
    ASSUME NEW r \in Runners, NEW queue \in Seq(RunnerMessage),
           NEW msgs \in Seq(RunnerMessage), NEW held, Within(r, queue, held),
           NEW S, S \subseteq OffersOf(r), Cardinality(S) <= MaxConcurrency,
           \A k \in 1..Len(msgs) : Counted(r, queue \o msgs, held, Len(queue) + k) \subseteq S
    PROVE  Within(r, queue \o msgs, held)
<1> DEFINE u == queue \o msgs
           n == Len(queue)
<1>1. /\ u \in Seq(RunnerMessage) /\ Len(u) = n + Len(msgs)
      /\ \A i \in 1..n + Len(msgs) : u[i] = IF i <= n THEN queue[i] ELSE msgs[i - n]
      /\ n \in Nat /\ Len(msgs) \in Nat
  BY ConcatProperties, LenProperties
<1> SUFFICES ASSUME NEW k \in 0..Len(u)
             PROVE  Cardinality(Counted(r, u, held, k)) <= MaxConcurrency
  BY DEF Within
<1>2. CASE k <= n
  <2> HIDE DEF u, n
  <2>1. k \in 0..n /\ \A i \in 1..k : u[i] = queue[i]
    BY <1>1, <1>2
  <2>2. Counted(r, u, held, k) = Counted(r, queue, held, k)
    BY <2>1 DEF Counted
  <2> QED BY <2>1, <2>2 DEF Within, n
<1>3. CASE ~(k <= n)
  <2>1. k - n \in 1..Len(msgs) /\ n + (k - n) = k
    <3> HIDE DEF u, n
    <3> QED BY <1>1, <1>3
  <2>2. Counted(r, u, held, k) \subseteq S
    BY <2>1
  <2>3. /\ Cardinality(Counted(r, u, held, k)) <= Cardinality(S)
        /\ Cardinality(Counted(r, u, held, k)) \in Nat /\ Cardinality(S) \in Nat
    <3> HIDE DEF u
    <3> QED BY <2>2, FewerOffers
  <2> HIDE DEF u
  <2> QED BY <2>3, BrokerAssumption
<1> QED BY <1>2, <1>3

\* The same of what is said once.
LEMMA SaidOnceHears ==
    ASSUME NEW queue \in Seq(RunnerMessage), queue # <<>>, SaidOnce(queue)
    PROVE  SaidOnce(Tail(queue))
<1> DEFINE t == Tail(queue)
<1>1. /\ t \in Seq(RunnerMessage) /\ Len(t) = Len(queue) - 1
      /\ Len(queue) \in Nat \ {0}
      /\ \A i \in 1..Len(t) : t[i] = queue[i + 1]
  BY TailElements
<1> HIDE DEF t
<1>2. \A i \in 1..Len(t) : i + 1 \in 1..Len(queue) /\ i \in Nat
  BY <1>1
<1> SUFFICES ASSUME NEW i \in 1..Len(t), NEW j \in 1..Len(t)
             PROVE  /\ t[i] = t[j] /\ t[i].type # "declined" => i = j
                    /\ \A o \in Offers :
                          t[i] = Message("accepted", o) /\ t[j] = Message("finished", o) => i < j
  BY DEF SaidOnce, t
<1>3. /\ queue[i + 1] = queue[j + 1] /\ queue[i + 1].type # "declined" => i + 1 = j + 1
      /\ \A o \in Offers :
            queue[i + 1] = Message("accepted", o) /\ queue[j + 1] = Message("finished", o)
            => i + 1 < j + 1
  BY <1>2 DEF SaidOnce
<1> QED BY <1>1, <1>2, <1>3

\* New messages keep it when none of them has been said, and no task starts after
\* it was over.
LEMMA SaidOnceSays ==
    ASSUME NEW queue \in Seq(RunnerMessage), NEW msgs \in Seq(RunnerMessage),
           SaidOnce(queue), SaidOnce(msgs),
           \A m \in ToSet(msgs) : m \in ToSet(queue) => m.type = "declined",
           \A o \in Offers : Message("accepted", o) \in ToSet(msgs) =>
                                Message("finished", o) \notin ToSet(queue)
    PROVE  SaidOnce(queue \o msgs)
<1> DEFINE u == queue \o msgs
           n == Len(queue)
<1>1. /\ u \in Seq(RunnerMessage) /\ Len(u) = n + Len(msgs)
      /\ \A i \in 1..n + Len(msgs) : u[i] = IF i <= n THEN queue[i] ELSE msgs[i - n]
      /\ n \in Nat /\ Len(msgs) \in Nat
  BY ConcatProperties, LenProperties
<1>2. /\ \A i \in 1..n : queue[i] \in ToSet(queue)
      /\ \A i \in 1..Len(msgs) : msgs[i] \in ToSet(msgs)
  BY ElementsAre
<1>3. /\ \A i, j \in 1..n :
            /\ queue[i] = queue[j] /\ queue[i].type # "declined" => i = j
            /\ \A o \in Offers :
                  queue[i] = Message("accepted", o) /\ queue[j] = Message("finished", o) => i < j
      /\ \A i, j \in 1..Len(msgs) :
            /\ msgs[i] = msgs[j] /\ msgs[i].type # "declined" => i = j
            /\ \A o \in Offers :
                  msgs[i] = Message("accepted", o) /\ msgs[j] = Message("finished", o) => i < j
  BY DEF SaidOnce
<1> SUFFICES ASSUME NEW i \in 1..Len(u), NEW j \in 1..Len(u)
             PROVE  /\ u[i] = u[j] /\ u[i].type # "declined" => i = j
                    /\ \A o \in Offers :
                          u[i] = Message("accepted", o) /\ u[j] = Message("finished", o) => i < j
  BY DEF SaidOnce
<1> HIDE DEF u, n
<1>4. \A k \in 1..Len(u) : /\ k <= n => k \in 1..n /\ u[k] = queue[k]
                           /\ ~(k <= n) => k - n \in 1..Len(msgs) /\ u[k] = msgs[k - n]
  BY <1>1
<1>5. CASE i <= n /\ j <= n
  BY <1>3, <1>4, <1>5
<1>6. CASE i <= n /\ ~(j <= n)
  <2>1. i < j
    BY <1>1, <1>6
  <2> QED BY <1>2, <1>4, <1>6, <2>1
<1>7. CASE ~(i <= n) /\ j <= n
  BY <1>2, <1>4, <1>7
<1>8. CASE ~(i <= n) /\ ~(j <= n)
  <2>1. /\ i - n \in 1..Len(msgs) /\ u[i] = msgs[i - n]
        /\ j - n \in 1..Len(msgs) /\ u[j] = msgs[j - n]
    BY <1>4, <1>8
  <2>2. /\ u[i] = u[j] /\ u[i].type # "declined" => i - n = j - n
        /\ \A o \in Offers :
              u[i] = Message("accepted", o) /\ u[j] = Message("finished", o) => i - n < j - n
    BY <1>3, <2>1
  <2>3. i \in Int /\ j \in Int /\ (i - n = j - n => i = j) /\ (i - n < j - n => i < j)
    BY <1>1
  <2> QED BY <2>2, <2>3
<1> QED BY <1>5, <1>6, <1>7, <1>8


\* Nothing happens to a runner, but it may be sent messages, lose offers or
\* finish, and tasks of it may be forgotten.
RunnerStays(r) ==
    /\ toBroker'[r] = toBroker[r]
    /\ open'[r] \subseteq open[r]
    /\ OwnOrders(r, toRunner'[r])
    /\ r \in known' <=> r \in known
    /\ \A o \in OffersOf(r) :
          /\ status'[o] # "none" => status[o] # "none"
          /\ o \in tasks' => o \in tasks
          /\ r \notin known /\ o \in ToSet(offers') => o \in ToSet(offers)
    /\ \/ proc'[r] = proc[r] /\ (proc[r] = "starting" => toRunner'[r] = toRunner[r])
       \/ IdleOutside(r)'

\* Then what is known of it stays true.
LEMMA RunnerStaysKeeps ==
    ASSUME NEW r \in Runners, toBroker[r] \in Seq(RunnerMessage),
           RunnerInv(r), RunnerStays(r)
    PROVE  RunnerInv(r)'
<1>1. OwnMessages(r)'
  <2>1. open'[r] \subseteq OffersOf(r)
    BY DEF RunnerInv, OwnMessages, RunnerStays
  <2>2. \A m \in ToSet(toBroker'[r]) : RunnerOf(m.task) = r
    BY DEF RunnerInv, OwnMessages, RunnerStays
  <2>3. OwnOrders(r, toRunner'[r])
    BY DEF RunnerStays
  <2> QED BY <2>1, <2>2, <2>3 DEF OwnMessages
<1>2. UnknownIsGone(r)'
  BY DEF RunnerInv, UnknownIsGone, RunnerStays
<1>3. IdleOutside(r)'
  BY DEF RunnerInv, IdleOutside, RunnerStays
<1>4. SlotsKept(r)'
  <2>1. open'[r] \subseteq open[r] /\ open[r] \subseteq OffersOf(r)
    BY DEF RunnerInv, OwnMessages, RunnerStays
  <2>2. /\ RunningTasks(r)' \subseteq RunningTasks(r)
        /\ RunningTasks(r) \subseteq OffersOf(r)
    BY DEF RunnerStays, RunningTasks, OffersOf
  <2>3. /\ Cardinality(open'[r]) <= Cardinality(open[r])
        /\ Cardinality(open'[r]) \in Nat /\ Cardinality(open[r]) \in Nat
    BY <2>1, FewerOffers
  <2>4. /\ Cardinality(RunningTasks(r)') <= Cardinality(RunningTasks(r))
        /\ Cardinality(RunningTasks(r)') \in Nat /\ Cardinality(RunningTasks(r)) \in Nat
    BY <2>2, FewerOffers
  <2>5. Cardinality(open[r]) + Cardinality(RunningTasks(r)) <= MaxConcurrency
    BY DEF RunnerInv, SlotsKept
  <2>6. Cardinality(open'[r]) + Cardinality(RunningTasks(r)') <= MaxConcurrency
    BY <2>3, <2>4, <2>5, BrokerAssumption
  <2> QED BY <2>6 DEF SlotsKept
<1>5. SaidOnce(toBroker'[r])
  BY DEF RunnerInv, RunnerStays
<1>6. Within(r, toBroker'[r], tasks')
  <2>1. Within(r, toBroker[r], tasks')
    BY WithinForgets DEF RunnerInv, RunnerStays
  <2> QED BY <2>1 DEF RunnerStays
<1> QED BY <1>1, <1>2, <1>3, <1>4, <1>5, <1>6 DEF RunnerInv

\* So a step needs a proof only for the offers and runners that it is about.
LEMMA Framed ==
    ASSUME BrokerInv, TypeOK', AskedOnce(accepting', busy'), QueuedOnce',
           \A o \in Offers : Stays(o) \/ OfferInv(o)',
           \A r \in Runners : RunnerStays(r) \/ RunnerInv(r)'
    PROVE  BrokerInv'
<1>1. /\ sent \in [Runners -> Nat] /\ sent' \in [Runners -> Nat]
      /\ \A r \in Runners : toBroker[r] \in Seq(RunnerMessage)
  <2>1. 0..MaxOffers \subseteq Nat
    BY BrokerAssumption
  <2>2. /\ sent \in [Runners -> 0..MaxOffers]
        /\ toBroker \in [Runners -> Seq(RunnerMessage)]
    BY DEF BrokerInv, TypeOK
  <2>3. sent' \in [Runners -> 0..MaxOffers]
    BY DEF TypeOK
  <2> QED BY <2>1, <2>2, <2>3
<1>2. ASSUME NEW o \in Offers PROVE OfferInv(o)'
  <2>1. OfferInv(o)
    BY DEF BrokerInv
  <2> QED BY <1>1, <2>1, StaysKeeps
<1>3. ASSUME NEW r \in Runners PROVE RunnerInv(r)'
  <2>1. RunnerInv(r)
    BY DEF BrokerInv
  <2> QED BY <1>1, <2>1, RunnerStaysKeeps
<1> QED BY <1>2, <1>3 DEF BrokerInv, AskedOnce

\* A request leaves the queue.
LEMMA WithoutIs ==
    ASSUME NEW q, TypeOK, q \in ToSet(requests)
    PROVE  /\ Without(q) \in Seq(Requests) /\ IsInjective(Without(q))
           /\ ToSet(Without(q)) \subseteq ToSet(requests)
<1> DEFINE i == CHOOSE j \in DOMAIN requests : requests[j] = q
<1>1. requests \in Seq(Requests) /\ IsInjective(requests)
  BY DEF TypeOK
<1>2. DOMAIN requests = 1..Len(requests) /\ \E j \in 1..Len(requests) : requests[j] = q
  BY <1>1, ElementsAre
<1>3. i \in 1..Len(requests)
  BY <1>2
<1>4. Without(q) = RemoveAt(requests, i)
  BY DEF Without
<1> HIDE DEF i
<1> QED BY <1>1, <1>3, <1>4, RemoveAtElements

\* An offer to which nothing at all happens.
LEMMA NothingToOffer ==
    ASSUME NEW o \in Offers, BrokerInv,
           UNCHANGED <<status, tasks, known, proc, sent, open>>,
           o \in ToSet(offers') => o \in ToSet(offers),
           ToSet(toBroker'[RunnerOf(o)]) = ToSet(toBroker[RunnerOf(o)]),
           \A m \in BrokerMessage : m.type # "offeraccept" =>
              (m \in ToSet(toRunner'[RunnerOf(o)]) <=> m \in ToSet(toRunner[RunnerOf(o)]))
    PROVE  Stays(o)
<1>1. RunnerOf(o) \in Runners
  BY OfferIs
<1>2. sent'[RunnerOf(o)] >= sent[RunnerOf(o)]
  <2>1. sent[RunnerOf(o)] \in 0..MaxOffers
    BY <1>1 DEF BrokerInv, TypeOK
  <2> QED BY <2>1, BrokerAssumption
<1>3. /\ Message("settings", o) \in BrokerMessage /\ Message("cancel", o) \in BrokerMessage
      /\ Message("settings", o).type # "offeraccept" /\ Message("cancel", o).type # "offeraccept"
  BY DEF Message, BrokerMessage
<1>4. /\ Ordered("settings", o)' <=> Ordered("settings", o)
      /\ Ordered("cancel", o)' <=> Ordered("cancel", o)
  BY <1>3 DEF Ordered
<1>5. \A type : Said(type, o)' <=> Said(type, o)
  BY DEF Said
<1> QED BY <1>2, <1>4, <1>5 DEF Stays

\* A runner to which nothing at all happens.
LEMMA NothingToRunner ==
    ASSUME NEW r \in Runners, BrokerInv,
           UNCHANGED <<status, proc, open>>, r \in known' <=> r \in known,
           \A o \in OffersOf(r) : o \in tasks' => o \in tasks,
           toBroker'[r] = toBroker[r], OwnOrders(r, toRunner'[r]),
           r \notin known => /\ toRunner'[r] = toRunner[r]
                             /\ \A o \in OffersOf(r) : o \notin ToSet(offers')
    PROVE  RunnerStays(r)
<1>1. proc[r] = "starting" => r \notin known
  BY DEF BrokerInv, RunnerInv, IdleOutside
<1> QED BY <1>1 DEF RunnerStays

\* The serial numbers that a runner has used stay used.
LEMMA SentSame ==
    ASSUME BrokerInv, UNCHANGED sent, NEW o \in Offers
    PROVE  sent'[RunnerOf(o)] >= sent[RunnerOf(o)]
<1>1. sent[RunnerOf(o)] \in 0..MaxOffers
  BY OfferIs DEF BrokerInv, TypeOK
<1> QED BY <1>1, BrokerAssumption

\* The other messages wait on.
LEMMA HeardOthers ==
    ASSUME BrokerInv, NEW r \in Runners, NEW o \in Offers,
           NEW type \in Words,
           Hears(r, type, o), Consume(r),
           NEW other, NEW p \in Offers, other # type \/ p # o
    PROVE  Said(other, p)' <=> Said(other, p)
<1>1. /\ \A s \in Runners \ {r} : toBroker'[s] = toBroker[s]
      /\ ToSet(toBroker[r]) = ToSet(toBroker'[r]) \cup {Message(type, o)}
  BY Heard
<1>2. Message(other, p) # Message(type, o)
  BY Messages
<1>3. RunnerOf(p) \in Runners
  BY OfferIs
<1> DEFINE m == Message(other, p)
           s == RunnerOf(p)
<1>4. m \in ToSet(toBroker'[s]) <=> m \in ToSet(toBroker[s])
  <2> HIDE DEF m, s
  <2>1. m # Message(type, o) /\ s \in Runners
    BY <1>2, <1>3 DEF m, s
  <2>2. CASE s = r
    BY <1>1, <2>1, <2>2
  <2>3. CASE s # r
    BY <1>1, <2>1, <2>3
  <2> QED BY <2>2, <2>3
<1> QED BY <1>4 DEF Said

\* The runner whose message the broker has heard.
LEMMA HearerKeeps ==
    ASSUME BrokerInv, NEW r \in Runners, NEW o \in Offers,
           NEW type \in Words,
           Hears(r, type, o), Consume(r),
           UNCHANGED <<known, proc, open, status>>, OwnOrders(r, toRunner'[r]),
           \A p \in OffersOf(r) :
              p \in tasks' => /\ p \in tasks \/ (type = "accepted" /\ p = o)
                              /\ ~ (type = "finished" /\ p = o)
    PROVE  RunnerInv(r)'
<1>1. /\ r \in known /\ toBroker[r] # <<>>
      /\ Head(toBroker[r]) = Message(type, o)
      /\ toBroker'[r] = Tail(toBroker[r])
      /\ ToSet(toBroker[r]) = ToSet(toBroker'[r]) \cup {Message(type, o)}
  BY Heard
<1>2. RunnerInv(r) /\ toBroker[r] \in Seq(RunnerMessage)
  BY DEF BrokerInv, TypeOK
<1>3. SaidOnce(toBroker[r]) /\ Within(r, toBroker[r], tasks)
  BY <1>2 DEF RunnerInv
<1>4. SaidOnce(toBroker'[r])
  BY <1>1, <1>2, <1>3, SaidOnceHears
<1>5. Within(r, toBroker'[r], tasks')
  <2>1. ASSUME NEW p \in OffersOf(r), p \in tasks'
        PROVE  /\ p \in tasks \/ Head(toBroker[r]) = Message("accepted", p)
               /\ Head(toBroker[r]) # Message("finished", p)
    BY <1>1, <2>1, Messages
  <2>2. Within(r, Tail(toBroker[r]), tasks')
    BY <1>1, <1>2, <1>3, <2>1, WithinHears
  <2> QED BY <1>1, <2>2
<1>6. OwnMessages(r)' /\ UnknownIsGone(r)' /\ IdleOutside(r)'
  BY <1>1, <1>2 DEF RunnerInv, OwnMessages, UnknownIsGone, IdleOutside
<1>7. SlotsKept(r)'
  BY <1>2 DEF RunnerInv, SlotsKept, RunningTasks
<1> QED BY <1>4, <1>5, <1>6, <1>7 DEF RunnerInv

-----------------------------------------------------------------------------
(* The steps about requests.                                               *)

\* What is known of the orders to a runner when they stay as they are.
LEMMA SameOrders ==
    ASSUME BrokerInv
    PROVE  /\ \A r \in Runners : OwnOrders(r, toRunner[r])
           /\ \A r \in Runners : r \notin known =>
                 \A o \in OffersOf(r) : o \notin tasks /\ o \notin ToSet(offers)
BY DEF BrokerInv, RunnerInv, OwnMessages, UnknownIsGone

\* A request is given up by its timer: only the queue is shorter.
LEMMA RequestTimesOutKeeps ==
    ASSUME BrokerInv, NEW q \in Requests, RequestTimesOut(q)
    PROVE  BrokerInv'
<1> USE DEF RequestTimesOut
<1>1. TypeOK'
  <2>1. /\ Without(q) \in Seq(Requests) /\ IsInjective(Without(q))
        /\ ToSet(Without(q)) \subseteq ToSet(requests)
    BY WithoutIs DEF BrokerInv
  <2> QED BY <2>1 DEF BrokerInv, TypeOK, config, runnerVars
<1>2. AskedOnce(accepting', busy')
  BY DEF BrokerInv
<1>3. QueuedOnce'
  <2>1. ToSet(requests') \subseteq ToSet(requests)
    BY WithoutIs DEF BrokerInv
  <2>2. \A p \in Requests : reply'[p] = "idle" => reply[p] = "idle"
    BY DEF BrokerInv, TypeOK
  <2> QED BY <2>1, <2>2 DEF BrokerInv, QueuedOnce
<1>4. \A o \in Offers : Stays(o)
  BY NothingToOffer DEF runnerVars
<1>5. \A r \in Runners : RunnerStays(r)
  BY NothingToRunner, SameOrders DEF runnerVars
<1> QED BY <1>1, <1>2, <1>3, <1>4, <1>5, Framed

\* A request that is given up by the broker is asked for no more.
LEMMA GivenUp ==
    ASSUME BrokerInv, NEW o \in Offers, accepting[o] # None, GiveUpOn(o)
    PROVE  /\ accepting' \in [Offers -> Requests \cup {None}] /\ busy' \subseteq Requests
           /\ AskedOnce(accepting', busy')
           /\ requests' = requests
<1>1. accepting \in [Offers -> Requests \cup {None}] /\ busy \subseteq Requests
  BY DEF BrokerInv, TypeOK
<1>2. /\ accepting' = [accepting EXCEPT ![o] = None] /\ busy' = busy \ {accepting[o]}
      /\ requests' = requests
  BY DEF GiveUpOn
<1>3. accepting' \in [Offers -> Requests \cup {None}] /\ busy' \subseteq Requests
  BY <1>1, <1>2
<1>4. accepting'[o] = None /\ \A p \in Offers \ {o} : accepting'[p] = accepting[p]
  BY <1>1, <1>2
<1>5. AskedOnce(accepting, busy)
  BY DEF BrokerInv
<1>6. ASSUME NEW p \in Offers, accepting'[p] # None PROVE accepting'[p] \in busy'
  <2>1. p # o /\ accepting'[p] = accepting[p]
    BY <1>4, <1>6
  <2>2. accepting[p] \in busy /\ accepting[p] # accepting[o]
    BY <1>5, <1>6, <2>1 DEF AskedOnce
  <2> QED BY <1>2, <2>1, <2>2
<1>7. ASSUME NEW p1 \in Offers, NEW p2 \in Offers,
             accepting'[p1] # None, accepting'[p1] = accepting'[p2]
      PROVE  p1 = p2
  <2>1. accepting'[p1] = accepting[p1] /\ accepting'[p2] = accepting[p2]
    BY <1>4, <1>7
  <2> QED BY <1>5, <1>7, <2>1 DEF AskedOnce
<1> QED BY <1>2, <1>3, <1>6, <1>7 DEF AskedOnce

\* The runner did not answer in time.
LEMMA AcceptTimesOutKeeps ==
    ASSUME BrokerInv, NEW o \in Offers, AcceptTimesOut(o)
    PROVE  BrokerInv'
<1> USE DEF AcceptTimesOut
<1>0. /\ accepting' \in [Offers -> Requests \cup {None}] /\ busy' \subseteq Requests
      /\ AskedOnce(accepting', busy')
      /\ requests' = requests
  BY GivenUp
<1>1. TypeOK'
  BY <1>0 DEF BrokerInv, TypeOK, config, runnerVars, requesterVars
<1>3. QueuedOnce'
  BY <1>0 DEF BrokerInv, QueuedOnce, requesterVars
<1>4. \A p \in Offers : Stays(p)
  BY NothingToOffer DEF runnerVars
<1>5. \A r \in Runners : RunnerStays(r)
  BY NothingToRunner, SameOrders DEF runnerVars
<1> QED BY <1>0, <1>1, <1>3, <1>4, <1>5, Framed

\* The runner declines: nothing that the broker counts on has been said.
LEMMA RunnerDeclinedKeeps ==
    ASSUME BrokerInv, NEW r \in Runners, NEW o \in Offers, RunnerDeclined(r, o)
    PROVE  BrokerInv'
<1> USE DEF RunnerDeclined
<1>0. /\ accepting' \in [Offers -> Requests \cup {None}] /\ busy' \subseteq Requests
      /\ AskedOnce(accepting', busy')
      /\ requests' = requests
  <2>1. CASE accepting[o] # None
    BY <2>1, GivenUp
  <2>2. CASE accepting[o] = None
    BY <2>2 DEF BrokerInv, TypeOK
  <2> QED BY <2>1, <2>2
<1>2. /\ toBroker' \in [Runners -> Seq(RunnerMessage)]
      /\ \A s \in Runners \ {r} : toBroker'[s] = toBroker[s]
  BY Heard DEF Words
<1>1. TypeOK'
  BY <1>0, <1>2 DEF BrokerInv, TypeOK, config, runnerVars, requesterVars
<1>3. QueuedOnce'
  BY <1>0 DEF BrokerInv, QueuedOnce, requesterVars
<1>4. ASSUME NEW p \in Offers PROVE Stays(p)
  <2>1. /\ Said("offer", p)' <=> Said("offer", p)
        /\ Said("accepted", p)' <=> Said("accepted", p)
        /\ Said("finished", p)' <=> Said("finished", p)
    BY HeardOthers DEF Words
  <2>2. sent'[RunnerOf(p)] >= sent[RunnerOf(p)]
    BY SentSame DEF runnerVars
  <2> QED BY <2>1, <2>2 DEF Stays, runnerVars, Ordered
<1>5. ASSUME NEW s \in Runners, s # r PROVE RunnerStays(s)
  BY <1>2, <1>5, NothingToRunner, SameOrders DEF runnerVars
<1>6. RunnerInv(r)'
  BY HearerKeeps, SameOrders DEF runnerVars, Words
<1> QED BY <1>0, <1>1, <1>3, <1>4, <1>5, <1>6, Framed

\* The loop starts with no offer more than the queue had.
LEMMA StartLoops ==
    ASSUME BrokerInv, NEW offs \in Seq(Offers), IsInjective(offs), NEW expired
    PROVE  LoopInv(Start(offs, expired), offs)
<1> DEFINE s == Start(offs, expired)
<1>1. /\ s.offers = Kept(offs, expired) /\ s.busy = busy
      /\ s.accepting = accepting /\ s.to = toRunner
      /\ s = [ offers |-> Kept(offs, expired), busy |-> busy,
               accepting |-> accepting, to |-> toRunner ]
  BY DEF Start
<1> HIDE DEF s
<1>2. /\ Kept(offs, expired) \in Seq(Offers) /\ IsInjective(Kept(offs, expired))
      /\ ToSet(Kept(offs, expired)) \subseteq ToSet(offs)
  BY KeptIs
<1>3. /\ busy \subseteq Requests /\ accepting \in [Offers -> Requests \cup {None}]
      /\ toRunner \in [Runners -> Seq(BrokerMessage)] /\ AskedOnce(accepting, busy)
  BY DEF BrokerInv, TypeOK
<1>4. s \in SettleState
  BY <1>1, <1>2, <1>3 DEF SettleState
<1>5. \A r \in Runners : OwnOrders(r, toRunner[r])
  BY SameOrders
<1> QED BY <1>1, <1>2, <1>3, <1>4, <1>5 DEF LoopInv, s

\* What settleTasks does: offers leave the queue, and their runners are told that
\* they are accepted, each for a request of its own.
LEMMA SettleIs ==
    ASSUME BrokerInv, NEW reqs \in Seq(Requests), NEW offs \in Seq(Offers),
           IsInjective(offs), NEW expired, SettleTasks(reqs, offs, expired)
    PROVE  /\ offers' \in Seq(Offers) /\ IsInjective(offers')
           /\ ToSet(offers') \subseteq ToSet(offs)
           /\ busy' \subseteq Requests /\ accepting' \in [Offers -> Requests \cup {None}]
           /\ AskedOnce(accepting', busy')
           /\ toRunner' \in [Runners -> Seq(BrokerMessage)]
           /\ \A r \in Runners : OwnOrders(r, toRunner'[r])
           /\ \A r \in Runners : \A m \in BrokerMessage :
                 m.type # "offeraccept" => (m \in ToSet(toRunner'[r]) <=> m \in ToSet(toRunner[r]))
           /\ \A r \in Runners :
                 (\A o \in ToSet(offs) : RunnerOf(o) # r) => toRunner'[r] = toRunner[r]
<1>1. LoopInv(Start(offs, expired), offs)
  BY StartLoops
<1>2. PICK s : /\ LoopInv(s, offs)
               /\ offers' = s.offers /\ busy' = s.busy
               /\ accepting' = s.accepting /\ toRunner' = s.to
  BY <1>1, SettleKeeps
<1> QED BY <1>2 DEF LoopInv, SettleState

\* A request arrives.
LEMMA TaskRequestedKeeps ==
    ASSUME BrokerInv, NEW q \in Requests, TaskRequested(q)
    PROVE  BrokerInv'
<1>1. /\ reply[q] = "idle"
      /\ UNCHANGED <<external, launchers, known, draining, tasks, armed, taskOf,
                     proc, open, status, sent, toBroker>>
  BY DEF TaskRequested, config, runnerVars
<1>2. TypeOK /\ q \notin ToSet(requests)
  BY <1>1 DEF BrokerInv, QueuedOnce
<1>3. CASE draining
  <2>1. /\ reply' = [reply EXCEPT ![q] = "expired"]
        /\ UNCHANGED <<requests, offers, busy, accepting, toRunner>>
    BY <1>3 DEF TaskRequested
  <2>2. TypeOK'
    BY <1>1, <1>2, <2>1 DEF TypeOK
  <2>3. AskedOnce(accepting', busy') /\ QueuedOnce'
    BY <1>2, <2>1 DEF BrokerInv, QueuedOnce, TypeOK
  <2>4. \A o \in Offers : Stays(o)
    BY <1>1, <2>1, NothingToOffer
  <2>5. \A r \in Runners : RunnerStays(r)
    BY <1>1, <2>1, NothingToRunner, SameOrders
  <2> QED BY <2>2, <2>3, <2>4, <2>5, Framed
<1>4. CASE ~ draining
  <2>1. /\ reply' = [reply EXCEPT ![q] = "waiting"]
        /\ requests' = Append(requests, q)
        /\ \E expired \in Expirable(offers) :
               SettleTasks(Append(requests, q), offers, expired)
    BY <1>4 DEF TaskRequested
  <2>2. /\ requests \in Seq(Requests) /\ IsInjective(requests)
        /\ offers \in Seq(Offers) /\ IsInjective(offers)
    BY <1>2 DEF TypeOK
  <2>3. /\ requests' \in Seq(Requests) /\ IsInjective(requests')
        /\ ToSet(requests') = ToSet(requests) \cup {q}
    BY <1>2, <2>1, <2>2, AppendElements
  <2>4. PICK expired : SettleTasks(requests', offers, expired)
    BY <2>1
  <2>5. /\ offers' \in Seq(Offers) /\ IsInjective(offers')
        /\ ToSet(offers') \subseteq ToSet(offers)
        /\ busy' \subseteq Requests /\ accepting' \in [Offers -> Requests \cup {None}]
        /\ AskedOnce(accepting', busy')
        /\ toRunner' \in [Runners -> Seq(BrokerMessage)]
        /\ \A r \in Runners : OwnOrders(r, toRunner'[r])
        /\ \A r \in Runners : \A m \in BrokerMessage :
              m.type # "offeraccept" => (m \in ToSet(toRunner'[r]) <=> m \in ToSet(toRunner[r]))
        /\ \A r \in Runners :
              (\A o \in ToSet(offers) : RunnerOf(o) # r) => toRunner'[r] = toRunner[r]
    BY <2>2, <2>3, <2>4, SettleIs
  <2>6. TypeOK'
    BY <1>1, <1>2, <2>1, <2>3, <2>5 DEF TypeOK
  <2>7. QueuedOnce'
    BY <1>2, <2>1, <2>3 DEF BrokerInv, QueuedOnce, TypeOK
  <2>8. ASSUME NEW o \in Offers PROVE Stays(o)
    BY <1>1, <2>5, OfferIs, NothingToOffer
  <2>9. ASSUME NEW r \in Runners PROVE RunnerStays(r)
    <3>1. r \notin known =>
             /\ toRunner'[r] = toRunner[r]
             /\ \A o \in OffersOf(r) : o \notin ToSet(offers')
      <4>1. ASSUME r \notin known, NEW o \in ToSet(offers), RunnerOf(o) = r PROVE FALSE
        <5>1. o \in OffersOf(r)
          BY <2>2, <4>1, ElementsAre DEF OffersOf
        <5> QED BY <4>1, <5>1, SameOrders
      <4> QED BY <2>5, <4>1, SameOrders
    <3> QED BY <1>1, <2>5, <3>1, NothingToRunner
  <2> QED BY <2>5, <2>6, <2>7, <2>8, <2>9, Framed
<1> QED BY <1>3, <1>4

\* An offer arrives: it was announced once, and is of a runner that is known.
LEMMA TaskOfferedKeeps ==
    ASSUME BrokerInv, NEW r \in Runners, NEW o \in Offers, TaskOffered(r, o)
    PROVE  BrokerInv'
<1>1. /\ Hears(r, "offer", o) /\ Consume(r)
      /\ \E expired \in Expirable(offers) : SettleTasks(requests, Append(offers, o), expired)
      /\ UNCHANGED <<external, launchers, known, draining, requests, tasks, armed, reply,
                     taskOf, proc, open, status, sent>>
  BY DEF TaskOffered, config, requesterVars, runnerVars
<1>2. TypeOK /\ OfferInv(o)
  BY DEF BrokerInv
<1>3. /\ r \in known /\ RunnerOf(o) = r
      /\ Said("offer", o)
      /\ toBroker' \in [Runners -> Seq(RunnerMessage)]
      /\ \A s \in Runners \ {r} : toBroker'[s] = toBroker[s]
      /\ Message("offer", o) \notin ToSet(toBroker'[r])
  BY <1>1, Heard DEF Words
<1>4. o \notin ToSet(offers) /\ Serial(o) <= sent[r]
  <2>1. Serial(o) \in Nat /\ sent[r] \in 0..MaxOffers
    BY <1>2, OfferIs, BrokerAssumption DEF TypeOK, Serial
  <2> QED BY <1>2, <1>3, <2>1, BrokerAssumption DEF OfferInv, Arriving, Unmade
<1> DEFINE offs == Append(offers, o)
<1>5. /\ requests \in Seq(Requests)
      /\ offs \in Seq(Offers) /\ IsInjective(offs)
      /\ ToSet(offs) = ToSet(offers) \cup {o}
  BY <1>2, <1>4, AppendElements DEF TypeOK
<1>6. PICK expired : SettleTasks(requests, offs, expired)
  BY <1>1
<1> HIDE DEF offs
<1>7. /\ offers' \in Seq(Offers) /\ IsInjective(offers')
      /\ ToSet(offers') \subseteq ToSet(offs)
      /\ busy' \subseteq Requests /\ accepting' \in [Offers -> Requests \cup {None}]
      /\ AskedOnce(accepting', busy')
      /\ toRunner' \in [Runners -> Seq(BrokerMessage)]
      /\ \A s \in Runners : OwnOrders(s, toRunner'[s])
      /\ \A s \in Runners : \A m \in BrokerMessage :
            m.type # "offeraccept" => (m \in ToSet(toRunner'[s]) <=> m \in ToSet(toRunner[s]))
      /\ \A s \in Runners :
            (\A p \in ToSet(offs) : RunnerOf(p) # s) => toRunner'[s] = toRunner[s]
  BY <1>5, <1>6, SettleIs
<1>8. TypeOK'
  BY <1>1, <1>2, <1>3, <1>7 DEF TypeOK
<1>9. QueuedOnce'
  BY <1>1 DEF BrokerInv, QueuedOnce
<1>10. \A p \in Offers : /\ Ordered("settings", p)' <=> Ordered("settings", p)
                         /\ Ordered("cancel", p)' <=> Ordered("cancel", p)
  <2>1. ASSUME NEW p \in Offers
        PROVE  /\ Message("settings", p) \in BrokerMessage /\ Message("cancel", p) \in BrokerMessage
               /\ Message("settings", p).type # "offeraccept"
               /\ Message("cancel", p).type # "offeraccept"
               /\ RunnerOf(p) \in Runners
    BY OfferIs DEF Message, BrokerMessage
  <2> QED BY <1>7, <2>1 DEF Ordered
<1>11. \A p \in Offers : sent'[RunnerOf(p)] >= sent[RunnerOf(p)]
  BY <1>1, SentSame
<1>12. ASSUME NEW p \in Offers, p # o PROVE Stays(p)
  <2>1. /\ Said("offer", p)' <=> Said("offer", p)
        /\ Said("accepted", p)' <=> Said("accepted", p)
        /\ Said("finished", p)' <=> Said("finished", p)
    BY <1>1, <1>12, HeardOthers DEF Words
  <2>2. p \in ToSet(offers') => p \in ToSet(offers)
    BY <1>5, <1>7, <1>12
  <2> QED BY <1>1, <1>10, <1>11, <2>1, <2>2 DEF Stays
<1>13. OfferInv(o)'
  <2>1. /\ Said("accepted", o)' <=> Said("accepted", o)
        /\ Said("finished", o)' <=> Said("finished", o)
    BY <1>1, HeardOthers DEF Words
  <2>2. ~ Said("offer", o)'
    BY <1>3 DEF Said
  <2>3. Unmade(o)'
    <3>1. Serial(o) \in Nat /\ sent[r] \in Nat
      <4>1. sent[r] \in 0..MaxOffers
        BY <1>2 DEF TypeOK
      <4> QED BY <4>1, OfferIs, BrokerAssumption DEF Serial
    <3>2. ~(Serial(o) > sent'[RunnerOf(o)])
      BY <1>1, <1>3, <1>4, <3>1
    <3> QED BY <3>2 DEF Unmade, Serial
  <2>4. Arriving(o)'
    BY <2>2 DEF Arriving
  <2>5. Untouched(o)' /\ OverAtRunner(o)' /\ Unheard(o)'
    BY <1>1, <1>2, <1>10, <2>1 DEF OfferInv, Untouched, OverAtRunner, Unheard
  <2>6. ForgottenFirst(o)' /\ Remembered(o)' /\ Occupies(o)'
    BY <1>1, <1>2, <1>10, <2>1 DEF OfferInv, ForgottenFirst, Remembered, Occupies
  <2> QED BY <2>3, <2>4, <2>5, <2>6 DEF OfferInv
<1>14. ASSUME NEW s \in Runners, s # r PROVE RunnerStays(s)
  <2>1. s \notin known =>
           /\ toRunner'[s] = toRunner[s]
           /\ \A p \in OffersOf(s) : p \notin ToSet(offers')
    <3>1. ASSUME s \notin known, NEW p \in ToSet(offs), RunnerOf(p) = s PROVE FALSE
      <4>1. p \in OffersOf(s) /\ p \in ToSet(offers)
        BY <1>3, <1>5, <1>14, <3>1, ElementsAre DEF OffersOf
      <4> QED BY <3>1, <4>1, SameOrders
    <3>2. \A p \in OffersOf(s) : RunnerOf(p) = s
      BY DEF OffersOf
    <3> QED BY <1>7, <3>1, <3>2
  <2> QED BY <1>1, <1>3, <1>7, <1>14, <2>1, NothingToRunner
<1>15. RunnerInv(r)'
  BY <1>1, <1>7, HearerKeeps DEF Words
<1> QED BY <1>7, <1>8, <1>9, <1>12, <1>13, <1>14, <1>15, Framed

-----------------------------------------------------------------------------
(* The steps about tasks.                                                  *)

\* An order reaches its runner, unless that is gone, and no other.
LEMMA Ordering ==
    ASSUME BrokerInv, NEW o \in Offers, NEW type \in Orders,
           Tell(RunnerOf(o), Message(type, o))
    PROVE  /\ toRunner' \in [Runners -> Seq(BrokerMessage)]
           /\ \A s \in Runners : OwnOrders(s, toRunner'[s])
           /\ \A s \in Runners \ {RunnerOf(o)} : toRunner'[s] = toRunner[s]
           /\ \A other : \A p \in Offers :
                 other # type \/ p # o => (Ordered(other, p)' <=> Ordered(other, p))
           /\ Ordered(type, o) => Ordered(type, o)'
           /\ proc[RunnerOf(o)] # "gone" => Ordered(type, o)'
<1> DEFINE r == RunnerOf(o)
           m == Message(type, o)
<1>1. r \in Runners /\ m \in BrokerMessage /\ m.type = type /\ m.task = o
  BY OfferIs DEF Message, BrokerMessage, Orders
<1>2. /\ toRunner' \in [Runners -> Seq(BrokerMessage)]
      /\ \A s \in Runners \ {r} : toRunner'[s] = toRunner[s]
      /\ ToSet(toRunner'[r]) \subseteq ToSet(toRunner[r]) \cup {m}
      /\ ToSet(toRunner[r]) \subseteq ToSet(toRunner'[r])
      /\ proc[r] # "gone" => m \in ToSet(toRunner'[r])
  <2> HIDE DEF m, r
  <2>1. Tell(r, m)
    BY DEF m, r
  <2> QED BY <1>1, <2>1, Tells
<1>3. ASSUME NEW s \in Runners PROVE OwnOrders(s, toRunner'[s])
  <2>1. OwnOrders(s, toRunner[s])
    BY SameOrders
  <2>2. CASE s # r
    BY <1>2, <2>1, <2>2
  <2>3. CASE s = r
    <3> HIDE DEF m
    <3> QED BY <1>1, <1>2, <2>1, <2>3 DEF OwnOrders
  <2> QED BY <2>2, <2>3
<1>4. ASSUME NEW other, NEW p \in Offers, other # type \/ p # o
      PROVE  Ordered(other, p)' <=> Ordered(other, p)
  <2> DEFINE n == Message(other, p)
             s == RunnerOf(p)
  <2>1. n # m /\ s \in Runners
    BY <1>4, Messages, OfferIs
  <2>2. n \in ToSet(toRunner'[s]) <=> n \in ToSet(toRunner[s])
    <3> HIDE DEF m, n, r, s
    <3>1. CASE s = r
      BY <1>2, <2>1, <3>1
    <3>2. CASE s # r
      BY <1>2, <2>1, <3>2
    <3> QED BY <3>1, <3>2
  <2> QED BY <2>2 DEF Ordered
<1>5. Ordered(type, o) => Ordered(type, o)'
  BY <1>2 DEF Ordered
<1>6. proc[RunnerOf(o)] # "gone" => Ordered(type, o)'
  BY <1>2 DEF Ordered
<1> QED BY <1>2, <1>3, <1>4, <1>5, <1>6

\* Nothing is heard of an acceptance twice.
LEMMA RunnerAcceptedKeeps ==
    ASSUME BrokerInv, NEW r \in Runners, NEW o \in Offers, RunnerAccepted(r, o)
    PROVE  BrokerInv'
<1> DEFINE q == accepting[o]
<1>1. /\ Hears(r, "accepted", o) /\ Consume(r)
      /\ accepting' = [accepting EXCEPT ![o] = None]
      /\ UNCHANGED <<external, launchers, known, draining, busy, offers, proc, open,
                     status, sent>>
      /\ \/ q \in ToSet(requests) /\ StartTask(q, o)
         \/ q \notin ToSet(requests) \cup {None} /\ LeaveTaskWithoutRequest(o)
         \/ q = None /\ UNCHANGED <<requests, tasks, armed, reply, taskOf, toRunner>>
  BY DEF RunnerAccepted, config, requesterVars, runnerVars
<1>2. TypeOK /\ OfferInv(o)
  BY DEF BrokerInv
<1>3. /\ r \in known /\ RunnerOf(o) = r
      /\ Said("accepted", o)
      /\ toBroker' \in [Runners -> Seq(RunnerMessage)]
      /\ \A s \in Runners \ {r} : toBroker'[s] = toBroker[s]
      /\ Message("accepted", o) \notin ToSet(toBroker'[r])
  BY <1>1, Heard DEF Words
<1>4. /\ tasks' \in {tasks, tasks \cup {o}}
      /\ tasks' = tasks \/ armed' \in {armed, armed \cup {o}}
      /\ tasks' = tasks => armed' = armed
  <2>1. tasks # tasks \cup {o}
    BY <1>2, <1>3 DEF OfferInv, Unheard
  <2> QED BY <1>1, <2>1 DEF StartTask, LeaveTaskWithoutRequest
<1>5. /\ requests' \in Seq(Requests) /\ IsInjective(requests')
      /\ ToSet(requests') \subseteq ToSet(requests)
      /\ reply' \in [Requests -> {"idle", "waiting", "started", "answered",
                                  "failed", "expired", "cancelled"}]
      /\ taskOf' \in [Requests -> Offers \cup {None}]
      /\ \A p \in Requests : reply'[p] = "idle" => reply[p] = "idle"
  <2>1. CASE q \in ToSet(requests) /\ StartTask(q, o)
    <3>1. /\ requests' = Without(q)
          /\ reply' = [reply EXCEPT ![q] = "started"]
          /\ taskOf' = [taskOf EXCEPT ![q] = o]
      BY <2>1 DEF StartTask
    <3>2. /\ Without(q) \in Seq(Requests) /\ IsInjective(Without(q))
          /\ ToSet(Without(q)) \subseteq ToSet(requests)
      <4> HIDE DEF q
      <4> QED BY <1>2, <2>1, WithoutIs
    <3> HIDE DEF q
    <3> QED BY <1>2, <3>1, <3>2 DEF TypeOK
  <2>2. CASE UNCHANGED <<requests, reply, taskOf>>
    BY <1>2, <2>2 DEF TypeOK
  <2> QED BY <1>1, <2>1, <2>2 DEF LeaveTaskWithoutRequest
<1>6. /\ toRunner' \in [Runners -> Seq(BrokerMessage)]
      /\ \A s \in Runners : OwnOrders(s, toRunner'[s])
      /\ \A s \in Runners \ {r} : toRunner'[s] = toRunner[s]
      /\ \A p \in Offers : Ordered("cancel", p)' <=> Ordered("cancel", p)
      /\ \A p \in Offers \ {o} : Ordered("settings", p)' <=> Ordered("settings", p)
      /\ tasks' = tasks => (Ordered("settings", o)' <=> Ordered("settings", o))
  <2>1. CASE StartTask(q, o)
    <3>1. Tell(RunnerOf(o), Message("settings", o)) /\ o \in tasks'
      BY <2>1 DEF StartTask, Message
    <3>2. tasks' # tasks
      BY <1>2, <1>3, <3>1 DEF OfferInv, Unheard
    <3> QED BY <1>3, <3>1, <3>2, Ordering DEF Orders
  <2>2. CASE UNCHANGED toRunner
    BY <1>2, <2>2, SameOrders DEF TypeOK, Ordered
  <2> QED BY <1>1, <2>1, <2>2 DEF LeaveTaskWithoutRequest
<1>7. TypeOK'
  <2>1. accepting' \in [Offers -> Requests \cup {None}]
    BY <1>1, <1>2 DEF TypeOK
  <2>2. tasks' \subseteq Offers /\ armed' \subseteq tasks'
    BY <1>2, <1>4 DEF TypeOK
  <2> QED BY <1>1, <1>2, <1>3, <1>5, <1>6, <2>1, <2>2 DEF TypeOK
<1>8. AskedOnce(accepting', busy')
  <2>1. AskedOnce(accepting, busy) /\ accepting \in [Offers -> Requests \cup {None}]
    BY DEF BrokerInv, TypeOK
  <2>2. \A p \in Offers : accepting'[p] # None => accepting'[p] = accepting[p]
    BY <1>1, <2>1
  <2> QED BY <1>1, <2>1, <2>2 DEF AskedOnce
<1>9. QueuedOnce'
  BY <1>5 DEF BrokerInv, QueuedOnce
<1>10. ASSUME NEW p \in Offers, p # o PROVE Stays(p)
  <2>1. /\ Said("offer", p)' <=> Said("offer", p)
        /\ Said("accepted", p)' <=> Said("accepted", p)
        /\ Said("finished", p)' <=> Said("finished", p)
    BY <1>1, <1>10, HeardOthers DEF Words
  <2>2. sent'[RunnerOf(p)] >= sent[RunnerOf(p)]
    BY <1>1, SentSame
  <2>3. p \in tasks' <=> p \in tasks
    BY <1>4, <1>10
  <2> QED BY <1>1, <1>6, <1>10, <2>1, <2>2, <2>3 DEF Stays
<1>11. OfferInv(o)'
  <2>1. /\ Said("offer", o)' <=> Said("offer", o)
        /\ Said("finished", o)' <=> Said("finished", o)
    BY <1>1, HeardOthers DEF Words
  <2>2. ~ Said("accepted", o)'
    BY <1>3 DEF Said
  <2>3. /\ o \notin tasks /\ status[o] \in {"waitingForSettings", "none"}
        /\ ~ Ordered("settings", o) /\ ~ Ordered("cancel", o)
        /\ o \notin open[RunnerOf(o)] /\ ~ (Serial(o) > sent[RunnerOf(o)])
    BY <1>2, <1>3 DEF OfferInv, Unheard, Untouched, Unmade
  <2>4. ~ Ordered("cancel", o)' /\ (tasks' = tasks => ~ Ordered("settings", o)')
    BY <1>6, <2>3
  <2>5. Unmade(o)'
    BY <1>1, <2>3 DEF Unmade, Serial
  <2>6. Arriving(o)' /\ Untouched(o)' /\ OverAtRunner(o)' /\ Unheard(o)'
    BY <1>1, <1>2, <2>1, <2>2, <2>3 DEF OfferInv, Arriving, Untouched, OverAtRunner, Unheard
  <2>7. ForgottenFirst(o)'
    BY <1>1, <2>3, <2>4 DEF ForgottenFirst
  <2>8. Remembered(o)'
    BY <1>1, <1>4, <2>3, <2>4 DEF Remembered
  <2>9. Occupies(o)'
    BY <1>1, <1>2, <1>3, <2>1 DEF OfferInv, Occupies
  <2> QED BY <2>5, <2>6, <2>7, <2>8, <2>9 DEF OfferInv
<1>12. ASSUME NEW s \in Runners, s # r PROVE RunnerStays(s)
  <2>1. \A p \in OffersOf(s) : p \in tasks' => p \in tasks
    BY <1>3, <1>4, <1>12 DEF OffersOf
  <2> QED BY <1>1, <1>3, <1>6, <1>12, <2>1, NothingToRunner, SameOrders
<1>13. RunnerInv(r)'
  <2>1. \A p \in OffersOf(r) : p \in tasks' => p \in tasks \/ p = o
    BY <1>4
  <2> QED BY <1>1, <1>6, <2>1, HearerKeeps DEF Words
<1> QED BY <1>7, <1>8, <1>9, <1>10, <1>11, <1>12, <1>13, Framed

\* An answer ends a task that had started.
LEMMA AnswerIs ==
    ASSUME TypeOK, NEW finished, NEW how \in {"answered", "failed"}, Answer(finished, how)
    PROVE  /\ reply' \in [Requests -> {"idle", "waiting", "started", "answered",
                                       "failed", "expired", "cancelled"}]
           /\ \A q \in Requests : reply'[q] = "idle" => reply[q] = "idle"
<1>1. reply \in [Requests -> {"idle", "waiting", "started", "answered",
                              "failed", "expired", "cancelled"}]
  BY DEF TypeOK
<1>2. reply' = [q \in Requests |->
                  IF reply[q] = "started" /\ taskOf[q] \in finished THEN how ELSE reply[q]]
  BY DEF Answer
<1> QED BY <1>1, <1>2

\* A task whose end the broker hears of has been accepted before.
LEMMA FinishedLast ==
    ASSUME BrokerInv, NEW r \in Runners, NEW o \in Offers,
           Hears(r, "finished", o), Consume(r)
    PROVE  ~ Said("accepted", o)
<1>1. /\ toBroker[r] # <<>> /\ RunnerOf(o) = r /\ Head(toBroker[r]) = Message("finished", o)
  BY Heard DEF Words
<1> DEFINE queue == toBroker[r]
<1>2. queue \in Seq(RunnerMessage) /\ SaidOnce(queue)
  BY DEF BrokerInv, TypeOK, RunnerInv
<1> SUFFICES ASSUME Message("accepted", o) \in ToSet(queue) PROVE FALSE
  BY <1>1 DEF Said
<1> HIDE DEF queue
<1>3. PICK i \in 1..Len(queue) : queue[i] = Message("accepted", o)
  BY <1>2, ElementsAre
<1>4. Len(queue) \in Nat \ {0} /\ Head(queue) = queue[1]
  BY <1>1, <1>2, TailElements DEF queue
<1>5. 1 \in 1..Len(queue) /\ queue[1] = Message("finished", o) /\ ~ (i < 1)
  BY <1>1, <1>4 DEF queue
<1> QED BY <1>2, <1>3, <1>5 DEF SaidOnce

\* The broker hears that a task is over.
LEMMA TaskFinishedKeeps ==
    ASSUME BrokerInv, NEW r \in Runners, NEW o \in Offers, TaskFinished(r, o)
    PROVE  BrokerInv'
<1>1. /\ Hears(r, "finished", o) /\ Consume(r)
      /\ Answer({o} \cap tasks, "answered")
      /\ tasks' = tasks \ {o} /\ armed' = armed \ {o}
      /\ UNCHANGED <<external, launchers, known, draining, requests, busy, offers, accepting,
                     taskOf, proc, open, status, sent, toRunner>>
  BY DEF TaskFinished, Forget, config, runnerVars
<1>2. TypeOK /\ OfferInv(o)
  BY DEF BrokerInv
<1>3. /\ RunnerOf(o) = r
      /\ Said("finished", o)
      /\ toBroker' \in [Runners -> Seq(RunnerMessage)]
      /\ \A s \in Runners \ {r} : toBroker'[s] = toBroker[s]
      /\ Message("finished", o) \notin ToSet(toBroker'[r])
  BY <1>1, Heard DEF Words
<1>4. /\ reply' \in [Requests -> {"idle", "waiting", "started", "answered",
                                  "failed", "expired", "cancelled"}]
      /\ \A q \in Requests : reply'[q] = "idle" => reply[q] = "idle"
  BY <1>1, <1>2, AnswerIs
<1>5. TypeOK'
  <2>1. tasks' \subseteq Offers /\ armed' \subseteq tasks'
    BY <1>1, <1>2 DEF TypeOK
  <2> QED BY <1>1, <1>2, <1>3, <1>4, <2>1 DEF TypeOK
<1>6. AskedOnce(accepting', busy') /\ QueuedOnce'
  BY <1>1, <1>4 DEF BrokerInv, QueuedOnce
<1>7. ASSUME NEW p \in Offers, p # o PROVE Stays(p)
  <2>1. /\ Said("offer", p)' <=> Said("offer", p)
        /\ Said("accepted", p)' <=> Said("accepted", p)
        /\ Said("finished", p)' <=> Said("finished", p)
    BY <1>1, <1>7, HeardOthers DEF Words
  <2>2. sent'[RunnerOf(p)] >= sent[RunnerOf(p)]
    BY <1>1, SentSame
  <2> QED BY <1>1, <1>7, <2>1, <2>2 DEF Stays, Ordered
<1>8. OfferInv(o)'
  <2>1. /\ Said("offer", o)' <=> Said("offer", o)
        /\ Said("accepted", o)' <=> Said("accepted", o)
    BY <1>1, HeardOthers DEF Words
  <2>2. ~ Said("finished", o)'
    BY <1>3 DEF Said
  <2>3. ~ Said("accepted", o)
    BY <1>1, FinishedLast
  <2>4. status[o] = "none" /\ ~ (Serial(o) > sent[RunnerOf(o)]) /\ o \notin open[RunnerOf(o)]
    BY <1>2, <1>3 DEF OfferInv, OverAtRunner, Unmade, Untouched
  <2>5. Unmade(o)' /\ Untouched(o)'
    BY <1>1, <2>4 DEF Unmade, Untouched, Serial
  <2>6. Arriving(o)' /\ OverAtRunner(o)' /\ Unheard(o)'
    BY <1>1, <1>2, <2>1, <2>2, <2>3 DEF OfferInv, Arriving, OverAtRunner, Unheard
  <2>7. ForgottenFirst(o)' /\ Remembered(o)' /\ Occupies(o)'
    BY <1>1, <2>1, <2>3, <2>4 DEF ForgottenFirst, Remembered, Occupies
  <2> QED BY <2>5, <2>6, <2>7 DEF OfferInv
<1>9. ASSUME NEW s \in Runners, s # r PROVE RunnerStays(s)
  BY <1>1, <1>3, <1>9, NothingToRunner, SameOrders
<1>10. RunnerInv(r)'
  BY <1>1, HearerKeeps, SameOrders DEF Words
<1> QED BY <1>5, <1>6, <1>7, <1>8, <1>9, <1>10, Framed

\* A task that the broker forgets when it orders its cancellation.
LEMMA CancelKeeps ==
    ASSUME BrokerInv, NEW o \in tasks, tasks' = tasks \ {o},
           Tell(RunnerOf(o), Message("cancel", o)),
           UNCHANGED <<known, offers, proc, open, status, sent, toBroker>>
    PROVE  /\ \A p \in Offers : Stays(p) \/ OfferInv(p)'
           /\ \A r \in Runners : RunnerStays(r)
           /\ toRunner' \in [Runners -> Seq(BrokerMessage)]
<1>1. o \in Offers /\ RunnerOf(o) \in Runners /\ OfferInv(o)
  BY OfferIs DEF BrokerInv, TypeOK
<1>2. /\ toRunner' \in [Runners -> Seq(BrokerMessage)]
      /\ \A s \in Runners : OwnOrders(s, toRunner'[s])
      /\ \A s \in Runners \ {RunnerOf(o)} : toRunner'[s] = toRunner[s]
      /\ \A p \in Offers : Ordered("settings", p)' <=> Ordered("settings", p)
      /\ \A p \in Offers \ {o} : Ordered("cancel", p)' <=> Ordered("cancel", p)
      /\ proc[RunnerOf(o)] # "gone" => Ordered("cancel", o)'
  BY <1>1, Ordering DEF Orders
<1>3. RunnerOf(o) \in known
  BY <1>1, SameOrders DEF OffersOf
<1>4. ASSUME NEW p \in Offers, p # o PROVE Stays(p)
  <2>1. sent'[RunnerOf(p)] >= sent[RunnerOf(p)]
    BY SentSame
  <2> QED BY <1>2, <1>4, <2>1 DEF Stays, Said
<1>5. OfferInv(o)'
  <2>1. \A type : Said(type, o)' <=> Said(type, o)
    BY DEF Said
  <2>2. ~ Said("accepted", o) /\ o \notin open[RunnerOf(o)] /\ ~ (Serial(o) > sent[RunnerOf(o)])
    BY <1>1 DEF OfferInv, Unheard, Untouched, Unmade
  <2>3. Unmade(o)' /\ Untouched(o)'
    BY <2>2 DEF Unmade, Untouched, Serial
  <2>4. Arriving(o)' /\ OverAtRunner(o)' /\ Unheard(o)'
    BY <1>1, <2>1, <2>2 DEF OfferInv, Arriving, OverAtRunner, Unheard
  <2>5. ForgottenFirst(o)' /\ Occupies(o)'
    BY <2>1, <2>2 DEF ForgottenFirst, Occupies
  <2>6. Remembered(o)'
    <3>1. status[o] # "none" => proc[RunnerOf(o)] # "gone"
      BY <1>1 DEF BrokerInv, RunnerInv, IdleOutside, OffersOf
    <3> QED BY <1>2, <3>1 DEF Remembered
  <2> QED BY <2>3, <2>4, <2>5, <2>6 DEF OfferInv
<1>6. ASSUME NEW s \in Runners PROVE RunnerStays(s)
  <2>1. s \notin known => toRunner'[s] = toRunner[s]
    BY <1>2, <1>3
  <2> QED BY <1>2, <2>1, NothingToRunner, SameOrders
<1> QED BY <1>2, <1>4, <1>5, <1>6

\* The workflow's execution is cancelled.
LEMMA CancelTaskKeeps ==
    ASSUME BrokerInv, NEW q \in Requests, CancelTask(q)
    PROVE  BrokerInv'
<1> DEFINE o == taskOf[q]
<1>1. /\ reply' = [reply EXCEPT ![q] = "cancelled"]
      /\ tasks' = tasks \ {o} /\ armed' = armed \ {o}
      /\ o \in tasks => Tell(RunnerOf(o), Message("cancel", o))
      /\ o \notin tasks => UNCHANGED toRunner
      /\ UNCHANGED <<external, launchers, known, draining, requests, busy, offers, accepting,
                     taskOf, proc, open, status, sent, toBroker>>
  BY DEF CancelTask, Forget, Message, config, runnerVars
<1> HIDE DEF o
<1>2. TypeOK
  BY DEF BrokerInv
<1>3. AskedOnce(accepting', busy') /\ QueuedOnce'
  BY <1>1, <1>2 DEF BrokerInv, QueuedOnce, TypeOK
<1>4. /\ \A p \in Offers : Stays(p) \/ OfferInv(p)'
      /\ \A r \in Runners : RunnerStays(r)
      /\ toRunner' \in [Runners -> Seq(BrokerMessage)]
  <2>1. CASE o \in tasks
    BY <1>1, <2>1, CancelKeeps
  <2>2. CASE o \notin tasks
    <3>1. tasks' = tasks /\ toRunner' = toRunner
      BY <1>1, <2>2
    <3>2. \A p \in Offers : Stays(p)
      BY <1>1, <3>1, NothingToOffer
    <3>3. \A r \in Runners : RunnerStays(r)
      BY <1>1, <3>1, NothingToRunner, SameOrders
    <3> QED BY <1>2, <3>1, <3>2, <3>3 DEF TypeOK
  <2> QED BY <2>1, <2>2
<1>5. TypeOK'
  <2>1. tasks' \subseteq Offers /\ armed' \subseteq tasks'
    BY <1>1, <1>2 DEF TypeOK
  <2> QED BY <1>1, <1>2, <1>4, <2>1 DEF TypeOK
<1> QED BY <1>3, <1>4, <1>5, Framed

\* A runner that is killed leaves nothing running.
LEMMA Killed ==
    ASSUME TypeOK, NEW r \in Runners, Kill(r)
    PROVE  /\ proc' \in [Runners -> {"starting", "connected", "serving", "draining", "gone"}]
           /\ open' \in [Runners -> SUBSET Offers]
           /\ status' \in [Offers -> {"none", "waitingForSettings", "running",
                                      "cancelled", "timeout"}]
           /\ proc'[r] = "gone" /\ open'[r] = {}
           /\ \A s \in Runners \ {r} : proc'[s] = proc[s] /\ open'[s] = open[s]
           /\ \A o \in Offers : IF RunnerOf(o) = r THEN status'[o] = "none"
                                ELSE status'[o] = status[o]
<1>1. /\ proc \in [Runners -> {"starting", "connected", "serving", "draining", "gone"}]
      /\ open \in [Runners -> SUBSET Offers]
      /\ status \in [Offers -> {"none", "waitingForSettings", "running",
                                "cancelled", "timeout"}]
  BY DEF TypeOK
<1>2. /\ proc' = [proc EXCEPT ![r] = "gone"]
      /\ open' = [open EXCEPT ![r] = {}]
      /\ status' = [o \in Offers |-> IF RunnerOf(o) = r THEN "none" ELSE status[o]]
  BY DEF Kill
<1> QED BY <1>1, <1>2

\* A task runs too long: its runner is told, or killed.
LEMMA TaskTimesOutKeeps ==
    ASSUME BrokerInv, NEW o \in Offers, TaskTimesOut(o)
    PROVE  BrokerInv'
<1> DEFINE r == RunnerOf(o)
<1>1. /\ o \in armed
      /\ Answer({o} \cap tasks, "failed")
      /\ tasks' = tasks \ {o} /\ armed' = armed \ {o}
      /\ external => UNCHANGED <<proc, open, status>> /\ Tell(r, Message("cancel", o))
      /\ ~ external => Kill(r) /\ UNCHANGED toRunner
      /\ UNCHANGED <<external, launchers, known, draining, requests, busy, offers, accepting,
                     taskOf, sent, toBroker>>
  BY DEF TaskTimesOut, AnswerTimedOut, Forget, CancelOnTimeout, Message, config
<1>2. TypeOK /\ OfferInv(o) /\ r \in Runners /\ o \in tasks
  BY <1>1, OfferIs DEF BrokerInv, TypeOK
<1>3. /\ reply' \in [Requests -> {"idle", "waiting", "started", "answered",
                                  "failed", "expired", "cancelled"}]
      /\ \A q \in Requests : reply'[q] = "idle" => reply[q] = "idle"
  BY <1>1, <1>2, AnswerIs
<1>4. AskedOnce(accepting', busy') /\ QueuedOnce'
  BY <1>1, <1>3 DEF BrokerInv, QueuedOnce
<1>5. /\ \A p \in Offers : Stays(p) \/ OfferInv(p)'
      /\ \A s \in Runners : RunnerStays(s)
      /\ toRunner' \in [Runners -> Seq(BrokerMessage)]
      /\ proc' \in [Runners -> {"starting", "connected", "serving", "draining", "gone"}]
      /\ open' \in [Runners -> SUBSET Offers]
      /\ status' \in [Offers -> {"none", "waitingForSettings", "running",
                                 "cancelled", "timeout"}]
  <2>1. CASE external
    BY <1>1, <1>2, <2>1, CancelKeeps DEF TypeOK
  <2>2. CASE ~ external
    <3>1. Kill(r) /\ UNCHANGED toRunner
      BY <1>1, <2>2
    <3>2. /\ proc' \in [Runners -> {"starting", "connected", "serving", "draining", "gone"}]
          /\ open' \in [Runners -> SUBSET Offers]
          /\ status' \in [Offers -> {"none", "waitingForSettings", "running",
                                     "cancelled", "timeout"}]
          /\ proc'[r] = "gone" /\ open'[r] = {}
          /\ \A s \in Runners \ {r} : proc'[s] = proc[s] /\ open'[s] = open[s]
          /\ \A p \in Offers : IF RunnerOf(p) = r THEN status'[p] = "none"
                               ELSE status'[p] = status[p]
      <4> HIDE DEF r
      <4> QED BY <1>2, <3>1, Killed
    <3>3. ASSUME NEW p \in Offers, p # o PROVE Stays(p)
      <4>1. sent'[RunnerOf(p)] >= sent[RunnerOf(p)]
        BY <1>1, SentSame
      <4>2. RunnerOf(p) \in Runners
        BY OfferIs
      <4>3. CASE RunnerOf(p) = r
        BY <1>1, <3>1, <3>2, <3>3, <4>1, <4>3 DEF Stays, Said, Ordered
      <4>4. CASE RunnerOf(p) # r
        BY <1>1, <3>1, <3>2, <3>3, <4>1, <4>2, <4>4 DEF Stays, Said, Ordered
      <4> QED BY <4>3, <4>4
    <3>4. OfferInv(o)'
      <4>1. /\ \A type : Said(type, o)' <=> Said(type, o)
            /\ \A type : Ordered(type, o)' <=> Ordered(type, o)
        BY <1>1, <3>1 DEF Said, Ordered
      <4>2. /\ ~ Said("accepted", o) /\ ~ (Serial(o) > sent[RunnerOf(o)])
            /\ status'[o] = "none" /\ o \notin tasks' /\ o \notin open'[RunnerOf(o)]
        BY <1>1, <1>2, <3>2 DEF OfferInv, Unheard, Unmade
      <4>3. Unmade(o)' /\ Untouched(o)' /\ OverAtRunner(o)'
        BY <1>1, <4>2 DEF Unmade, Untouched, OverAtRunner, Serial
      <4>4. Arriving(o)' /\ Unheard(o)'
        BY <1>1, <1>2, <4>1, <4>2 DEF OfferInv, Arriving, Unheard
      <4>5. ForgottenFirst(o)' /\ Remembered(o)' /\ Occupies(o)'
        BY <4>1, <4>2 DEF ForgottenFirst, Remembered, Occupies
      <4> QED BY <4>3, <4>4, <4>5 DEF OfferInv
    <3>5. ASSUME NEW s \in Runners PROVE RunnerStays(s)
      <4>1. OwnOrders(s, toRunner'[s])
        BY <3>1, SameOrders
      <4>2. CASE s = r
        <5>1. IdleOutside(s)'
          BY <3>2, <4>2 DEF IdleOutside, OffersOf
        <5>2. \A p \in OffersOf(s) : status'[p] = "none" /\ (p \in tasks' => p \in tasks)
          BY <1>1, <3>2, <4>2 DEF OffersOf
        <5>3. open'[s] \subseteq open[s]
          BY <3>2, <4>2
        <5> QED BY <1>1, <4>1, <5>1, <5>2, <5>3 DEF RunnerStays
      <4>3. CASE s # r
        <5>1. \A p \in OffersOf(s) : status'[p] = status[p]
          BY <3>2, <4>3 DEF OffersOf
        <5> QED BY <1>1, <3>1, <3>2, <4>1, <4>3, <5>1 DEF RunnerStays
      <4> QED BY <4>2, <4>3
    <3>6. toRunner' \in [Runners -> Seq(BrokerMessage)]
      BY <1>2, <3>1 DEF TypeOK
    <3> QED BY <3>2, <3>3, <3>4, <3>5, <3>6
  <2> QED BY <2>1, <2>2
<1>6. TypeOK'
  <2>1. tasks' \subseteq Offers /\ armed' \subseteq tasks'
    BY <1>1, <1>2 DEF TypeOK
  <2> QED BY <1>1, <1>2, <1>3, <1>5, <2>1 DEF TypeOK
<1> QED BY <1>4, <1>5, <1>6, Framed

-----------------------------------------------------------------------------
(* The steps about connections.                                            *)

\* A connection is opened.
LEMMA RegisterRunnerKeeps ==
    ASSUME BrokerInv, NEW r \in Runners, RegisterRunner(r)
    PROVE  BrokerInv'
<1> DEFINE msg == [type |-> "registered"]
<1>1. /\ proc[r] = "starting"
      /\ proc' = [proc EXCEPT ![r] = "connected"]
      /\ known' = known \cup {r}
      /\ Tell(r, msg)
      /\ UNCHANGED <<external, launchers, draining, requests, busy, offers, accepting, tasks,
                     armed, reply, taskOf, open, status, sent, toBroker>>
  BY DEF RegisterRunner, config, requesterVars
<1>2. TypeOK /\ RunnerInv(r)
  BY DEF BrokerInv
<1>3. /\ r \notin known /\ toRunner[r] = <<>> /\ toBroker[r] = <<>> /\ open[r] = {}
      /\ \A o \in OffersOf(r) : status[o] = "none" /\ o \notin tasks /\ o \notin ToSet(offers)
  BY <1>1, <1>2 DEF RunnerInv, IdleOutside, UnknownIsGone
<1>4. msg \in BrokerMessage /\ \A o, type : msg # Message(type, o) \/ type = "registered"
  <2>1. msg \in BrokerMessage
    BY DEF BrokerMessage
  <2>2. \A o, type : Message(type, o).type = type /\ msg.type = "registered"
    BY DEF Message
  <2> QED BY <2>1, <2>2
<1>5. /\ toRunner' \in [Runners -> Seq(BrokerMessage)]
      /\ \A s \in Runners \ {r} : toRunner'[s] = toRunner[s]
      /\ ToSet(toRunner'[r]) \subseteq {msg}
  <2>1. ToSet(toRunner[r]) = {}
    BY <1>3, EmptyHasNone
  <2> HIDE DEF msg
  <2> QED BY <1>1, <1>4, <2>1, Tells
<1>6. TypeOK'
  BY <1>1, <1>2, <1>5 DEF TypeOK
<1>7. AskedOnce(accepting', busy') /\ QueuedOnce'
  BY <1>1 DEF BrokerInv, QueuedOnce
<1>8. ASSUME NEW o \in Offers, RunnerOf(o) # r PROVE Stays(o)
  <2>1. sent'[RunnerOf(o)] >= sent[RunnerOf(o)]
    BY <1>1, SentSame
  <2>2. RunnerOf(o) \in Runners
    BY OfferIs
  <2> QED BY <1>1, <1>2, <1>5, <1>8, <2>1, <2>2 DEF Stays, Said, Ordered, TypeOK
<1>9. ASSUME NEW o \in Offers, RunnerOf(o) = r PROVE OfferInv(o)'
  <2>1. /\ ~ Ordered("settings", o)' /\ ~ Ordered("cancel", o)'
        /\ \A type : ~ Said(type, o)'
    BY <1>1, <1>3, <1>4, <1>5, <1>9, EmptyHasNone DEF Said, Ordered
  <2>2. /\ status'[o] = "none" /\ o \notin tasks' /\ o \notin ToSet(offers')
        /\ o \notin open'[RunnerOf(o)]
    BY <1>1, <1>3, <1>9 DEF OffersOf
  <2>3. Unmade(o)' /\ Arriving(o)' /\ Untouched(o)' /\ OverAtRunner(o)' /\ Unheard(o)'
    BY <2>1, <2>2 DEF Unmade, Arriving, Untouched, OverAtRunner, Unheard
  <2>4. ForgottenFirst(o)' /\ Remembered(o)' /\ Occupies(o)'
    BY <2>1, <2>2 DEF ForgottenFirst, Remembered, Occupies
  <2> QED BY <2>3, <2>4 DEF OfferInv
<1>10. ASSUME NEW s \in Runners, s # r PROVE RunnerStays(s)
  <2>1. proc'[s] = proc[s] /\ OwnOrders(s, toRunner'[s])
    BY <1>1, <1>2, <1>5, <1>10, SameOrders DEF TypeOK
  <2> QED BY <1>1, <1>5, <1>10, <2>1 DEF RunnerStays
<1>11. RunnerInv(r)'
  <2>1. OwnOrders(r, toRunner'[r])
    BY <1>5 DEF OwnOrders
  <2>2. OwnMessages(r)'
    BY <1>1, <1>2, <2>1 DEF RunnerInv, OwnMessages
  <2>3. UnknownIsGone(r)'
    BY <1>1 DEF UnknownIsGone
  <2>4. IdleOutside(r)'
    BY <1>1, <1>2 DEF IdleOutside, TypeOK
  <2>5. SlotsKept(r)' /\ SaidOnce(toBroker'[r]) /\ Within(r, toBroker'[r], tasks')
    BY <1>1, <1>2 DEF RunnerInv, SlotsKept, RunningTasks
  <2> QED BY <2>2, <2>3, <2>4, <2>5 DEF RunnerInv
<1> QED BY <1>6, <1>7, <1>8, <1>9, <1>10, <1>11, Framed

\* A connection is closed.
LEMMA DeregisterRunnerKeeps ==
    ASSUME BrokerInv, NEW r \in Runners, DeregisterRunner(r)
    PROVE  BrokerInv'
<1> DEFINE mine == {o \in tasks : RunnerOf(o) = r}
<1>1. /\ r \in known
      /\ known' = known \ {r}
      /\ offers' = Kept(offers, {o \in Offers : RunnerOf(o) = r})
      /\ Answer(mine, "failed")
      /\ tasks' = tasks \ mine /\ armed' = armed \ mine
      /\ toBroker' = [toBroker EXCEPT ![r] = <<>>]
      /\ UNCHANGED <<external, launchers, draining, requests, busy, accepting, taskOf, proc,
                     open, status, sent, toRunner>>
  BY DEF DeregisterRunner, Forget, config, runnerVars
<1>2. TypeOK /\ RunnerInv(r)
  BY DEF BrokerInv
<1>3. /\ reply' \in [Requests -> {"idle", "waiting", "started", "answered",
                                  "failed", "expired", "cancelled"}]
      /\ \A q \in Requests : reply'[q] = "idle" => reply[q] = "idle"
  <2> HIDE DEF mine
  <2> QED BY <1>1, <1>2, AnswerIs
<1>4. /\ offers' \in Seq(Offers) /\ IsInjective(offers')
      /\ ToSet(offers') \subseteq ToSet(offers) \ {o \in Offers : RunnerOf(o) = r}
  BY <1>1, <1>2, KeptIs DEF TypeOK
<1>5. /\ toBroker' \in [Runners -> Seq(RunnerMessage)]
      /\ toBroker'[r] = <<>>
      /\ \A s \in Runners \ {r} : toBroker'[s] = toBroker[s]
  BY <1>1, <1>2, EmptySeq DEF TypeOK
<1>6. TypeOK'
  <2>1. tasks' \subseteq Offers /\ armed' \subseteq tasks' /\ known' \subseteq Runners
    BY <1>1, <1>2 DEF TypeOK
  <2> QED BY <1>1, <1>2, <1>3, <1>4, <1>5, <2>1 DEF TypeOK
<1>7. AskedOnce(accepting', busy') /\ QueuedOnce'
  BY <1>1, <1>3 DEF BrokerInv, QueuedOnce
<1>8. ASSUME NEW o \in Offers PROVE Stays(o)
  <2>1. sent'[RunnerOf(o)] >= sent[RunnerOf(o)]
    BY <1>1, SentSame
  <2>2. RunnerOf(o) \in Runners
    BY OfferIs
  <2>3. CASE RunnerOf(o) = r
    <3>1. \A type : ~ Said(type, o)'
      BY <1>5, <2>3, EmptyHasNone DEF Said
    <3> QED BY <1>1, <1>4, <2>1, <2>3, <3>1 DEF Stays, Ordered
  <2>4. CASE RunnerOf(o) # r
    BY <1>1, <1>4, <1>5, <2>1, <2>2, <2>4 DEF Stays, Said, Ordered
  <2> QED BY <2>3, <2>4
<1>9. ASSUME NEW s \in Runners, s # r PROVE RunnerStays(s)
  <2>1. OwnOrders(s, toRunner'[s])
    BY <1>1, SameOrders
  <2> QED BY <1>1, <1>4, <1>5, <1>9, <2>1 DEF RunnerStays
<1>10. RunnerInv(r)'
  <2>1. OwnMessages(r)'
    BY <1>1, <1>2, <1>5, EmptyHasNone DEF RunnerInv, OwnMessages
  <2>2. \A o \in OffersOf(r) : o \notin tasks' /\ o \notin ToSet(offers')
    BY <1>1, <1>4 DEF OffersOf
  <2>3. UnknownIsGone(r)'
    BY <1>5, <2>2 DEF UnknownIsGone
  <2>4. IdleOutside(r)'
    BY <1>1, <1>2 DEF RunnerInv, IdleOutside
  <2>5. SlotsKept(r)'
    BY <1>1, <1>2 DEF RunnerInv, SlotsKept, RunningTasks
  <2>6. Within(r, <<>>, tasks') /\ SaidOnce(<<>>)
    BY <2>2, WithinEmpty
  <2> QED BY <1>5, <2>1, <2>3, <2>4, <2>5, <2>6 DEF RunnerInv
<1> QED BY <1>6, <1>7, <1>8, <1>9, <1>10, Framed

\* The broker shuts down.
LEMMA StartDrainingKeeps ==
    ASSUME BrokerInv, StartDraining
    PROVE  BrokerInv'
<1> DEFINE msg == [type |-> "drain"]
<1>1. /\ draining' = TRUE
      /\ toRunner' = [r \in Runners |->
                        IF r \in known /\ proc[r] # "gone"
                        THEN Append(toRunner[r], msg) ELSE toRunner[r]]
      /\ UNCHANGED <<external, launchers, known, requests, busy, offers, accepting, tasks,
                     armed, reply, taskOf, proc, open, status, sent, toBroker>>
  BY DEF StartDraining, config, requesterVars, runnerVars
<1>2. TypeOK
  BY DEF BrokerInv
<1>3. msg \in BrokerMessage /\ msg.type = "drain"
  BY DEF BrokerMessage
<1> HIDE DEF msg
<1>4. ASSUME NEW r \in Runners
      PROVE  /\ toRunner'[r] \in Seq(BrokerMessage)
             /\ \A m : m # msg => (m \in ToSet(toRunner'[r]) <=> m \in ToSet(toRunner[r]))
             /\ r \notin known => toRunner'[r] = toRunner[r]
             /\ OwnOrders(r, toRunner'[r])
  <2>1. toRunner[r] \in Seq(BrokerMessage) /\ OwnOrders(r, toRunner[r])
    BY <1>2, SameOrders DEF TypeOK
  <2>2. /\ Append(toRunner[r], msg) \in Seq(BrokerMessage)
        /\ ToSet(Append(toRunner[r], msg)) = ToSet(toRunner[r]) \cup {msg}
    BY <1>3, <2>1, AppendElements
  <2>3. OwnOrders(r, Append(toRunner[r], msg))
    BY <1>3, <2>1, <2>2 DEF OwnOrders
  <2> QED BY <1>1, <2>1, <2>2, <2>3
<1>5. TypeOK'
  <2>1. toRunner' \in [Runners -> Seq(BrokerMessage)]
    BY <1>1, <1>4
  <2> QED BY <1>1, <1>2, <2>1 DEF TypeOK
<1>6. AskedOnce(accepting', busy') /\ QueuedOnce'
  BY <1>1 DEF BrokerInv, QueuedOnce
<1>7. ASSUME NEW o \in Offers PROVE Stays(o)
  <2>1. sent'[RunnerOf(o)] >= sent[RunnerOf(o)]
    BY <1>1, SentSame
  <2>2. RunnerOf(o) \in Runners
    BY OfferIs
  <2>3. Message("settings", o) # msg /\ Message("cancel", o) # msg
    BY <1>3, Messages
  <2> QED BY <1>1, <1>4, <2>1, <2>2, <2>3 DEF Stays, Said, Ordered
<1>8. ASSUME NEW r \in Runners PROVE RunnerStays(r)
  BY <1>1, <1>4, SameOrders, NothingToRunner
<1> QED BY <1>5, <1>6, <1>7, <1>8, Framed

\* A connection breaks, or the process of a runner ends.
LEMMA RunnerExitsKeeps ==
    ASSUME BrokerInv, NEW r \in Runners, RunnerExits(r)
    PROVE  BrokerInv'
<1>1. /\ Kill(r)
      /\ toRunner' = [toRunner EXCEPT ![r] = <<>>]
      /\ UNCHANGED <<external, launchers, known, draining, requests, busy, offers, accepting,
                     tasks, armed, reply, taskOf, sent, toBroker>>
  BY DEF RunnerExits, brokerVars, config, requesterVars
<1>2. TypeOK
  BY DEF BrokerInv
<1>3. /\ proc' \in [Runners -> {"starting", "connected", "serving", "draining", "gone"}]
      /\ open' \in [Runners -> SUBSET Offers]
      /\ status' \in [Offers -> {"none", "waitingForSettings", "running",
                                 "cancelled", "timeout"}]
      /\ proc'[r] = "gone" /\ open'[r] = {}
      /\ \A s \in Runners \ {r} : proc'[s] = proc[s] /\ open'[s] = open[s]
      /\ \A o \in Offers : IF RunnerOf(o) = r THEN status'[o] = "none"
                           ELSE status'[o] = status[o]
  BY <1>1, <1>2, Killed
<1>4. /\ toRunner' \in [Runners -> Seq(BrokerMessage)]
      /\ toRunner'[r] = <<>>
      /\ \A s \in Runners \ {r} : toRunner'[s] = toRunner[s]
  BY <1>1, <1>2, EmptySeq DEF TypeOK
<1>5. TypeOK'
  BY <1>1, <1>2, <1>3, <1>4 DEF TypeOK
<1>6. AskedOnce(accepting', busy') /\ QueuedOnce'
  BY <1>1 DEF BrokerInv, QueuedOnce
<1>7. ASSUME NEW o \in Offers PROVE Stays(o)
  <2>1. sent'[RunnerOf(o)] >= sent[RunnerOf(o)]
    BY <1>1, SentSame
  <2>2. RunnerOf(o) \in Runners
    BY OfferIs
  <2>3. CASE RunnerOf(o) = r
    <3>1. \A type : ~ Ordered(type, o)'
      BY <1>4, <2>3, EmptyHasNone DEF Ordered
    <3> QED BY <1>1, <1>3, <2>1, <2>3, <3>1 DEF Stays, Said
  <2>4. CASE RunnerOf(o) # r
    BY <1>1, <1>3, <1>4, <2>1, <2>2, <2>4 DEF Stays, Said, Ordered
  <2> QED BY <2>3, <2>4
<1>8. ASSUME NEW s \in Runners PROVE RunnerStays(s)
  <2>1. CASE s = r
    <3>1. IdleOutside(s)'
      BY <1>3, <2>1 DEF IdleOutside, OffersOf
    <3>2. \A o \in OffersOf(s) : status'[o] = "none"
      BY <1>3, <2>1 DEF OffersOf
    <3>3. OwnOrders(s, toRunner'[s])
      BY <1>4, <2>1, EmptyHasNone DEF OwnOrders
    <3>4. open'[s] \subseteq open[s]
      BY <1>3, <2>1
    <3> QED BY <1>1, <3>1, <3>2, <3>3, <3>4 DEF RunnerStays
  <2>2. CASE s # r
    <3>1. \A o \in OffersOf(s) : status'[o] = status[o]
      BY <1>3, <2>2 DEF OffersOf
    <3>2. OwnOrders(s, toRunner'[s])
      BY <1>4, <2>2, SameOrders
    <3> QED BY <1>1, <1>3, <1>4, <2>2, <3>1, <3>2 DEF RunnerStays
  <2> QED BY <2>1, <2>2
<1> QED BY <1>5, <1>6, <1>7, <1>8, Framed

-----------------------------------------------------------------------------
(* The steps of a runner.                                                  *)

\* A runner that has been told to stop, or is idle, leaves its offers.
LEMMA StopRunnerKeeps ==
    ASSUME BrokerInv, NEW r \in Runners, StopRunner(r)
    PROVE  BrokerInv'
<1>1. /\ proc[r] = "serving"
      /\ proc' = [proc EXCEPT ![r] = "draining"]
      /\ open' = [open EXCEPT ![r] = {}]
      /\ UNCHANGED <<external, launchers, known, draining, requests, busy, offers, accepting,
                     tasks, armed, reply, taskOf, status, sent, toRunner, toBroker>>
  BY DEF StopRunner, brokerVars, config, requesterVars
<1>2. TypeOK
  BY DEF BrokerInv
<1>3. TypeOK'
  BY <1>1, <1>2 DEF TypeOK
<1>4. AskedOnce(accepting', busy') /\ QueuedOnce'
  BY <1>1 DEF BrokerInv, QueuedOnce
<1>5. ASSUME NEW s \in Runners
      PROVE  /\ open'[s] \subseteq open[s]
             /\ proc[s] = "gone" => proc'[s] = "gone"
             /\ proc'[s] = proc[s] \/ proc'[s] = "draining"
  BY <1>1, <1>2 DEF TypeOK
<1>6. ASSUME NEW o \in Offers PROVE Stays(o)
  <2>1. sent'[RunnerOf(o)] >= sent[RunnerOf(o)]
    BY <1>1, SentSame
  <2>2. RunnerOf(o) \in Runners
    BY OfferIs
  <2> QED BY <1>1, <1>5, <2>1, <2>2 DEF Stays, Said, Ordered
<1>7. ASSUME NEW s \in Runners PROVE RunnerStays(s)
  <2>1. OwnOrders(s, toRunner'[s])
    BY <1>1, SameOrders
  <2>2. proc'[s] = proc[s] \/ IdleOutside(s)'
    BY <1>5 DEF IdleOutside
  <2> QED BY <1>1, <1>5, <2>1, <2>2 DEF RunnerStays
<1> QED BY <1>3, <1>4, <1>6, <1>7, Framed

\* The other orders wait on.
LEMMA GotOthers ==
    ASSUME BrokerInv, NEW r \in Runners, NEW type, Gets(r, type)
    PROVE  /\ \A s \in Runners : OwnOrders(s, toRunner'[s])
           /\ \A other : \A p \in Offers :
                 /\ Ordered(other, p)' => Ordered(other, p)
                 /\ other # type \/ p # Head(toRunner[r]).task =>
                       (Ordered(other, p)' <=> Ordered(other, p))
<1>1. /\ \A s \in Runners \ {r} : toRunner'[s] = toRunner[s]
      /\ ToSet(toRunner[r]) = ToSet(toRunner'[r]) \cup {Head(toRunner[r])}
      /\ Head(toRunner[r]).type = type
  BY Got
<1>2. ASSUME NEW s \in Runners PROVE OwnOrders(s, toRunner'[s])
  <2>1. OwnOrders(s, toRunner[s])
    BY SameOrders
  <2>2. CASE s # r
    BY <1>1, <2>1, <2>2
  <2>3. CASE s = r
    BY <1>1, <2>1, <2>3 DEF OwnOrders
  <2> QED BY <2>2, <2>3
<1>3. ASSUME NEW other, NEW p \in Offers
      PROVE  /\ Ordered(other, p)' => Ordered(other, p)
             /\ other # type \/ p # Head(toRunner[r]).task =>
                   (Ordered(other, p)' <=> Ordered(other, p))
  <2> DEFINE n == Message(other, p)
             s == RunnerOf(p)
             h == Head(toRunner[r])
  <2>1. s \in Runners /\ n.type = other /\ n.task = p
    BY OfferIs, Messages
  <2>2. other # type \/ p # h.task => n # h
    BY <1>1, <2>1
  <2> HIDE DEF n, s, h
  <2>3. n \in ToSet(toRunner'[s]) => n \in ToSet(toRunner[s])
    <3>1. CASE s = r
      BY <1>1, <3>1 DEF h
    <3>2. CASE s # r
      BY <1>1, <2>1, <3>2
    <3> QED BY <3>1, <3>2
  <2>4. n # h => (n \in ToSet(toRunner'[s]) <=> n \in ToSet(toRunner[s]))
    <3>1. CASE s = r
      BY <1>1, <3>1 DEF h
    <3>2. CASE s # r
      BY <1>1, <2>1, <3>2
    <3> QED BY <3>1, <3>2
  <2> QED BY <2>2, <2>3, <2>4 DEF Ordered, n, s, h
<1> QED BY <1>2, <1>3

\* It is registered, or told to drain.
LEMMA ReceiveModeKeeps ==
    ASSUME BrokerInv, NEW r \in Runners, ReceiveRegistered(r) \/ ReceiveDrain(r)
    PROVE  BrokerInv'
<1>1. PICK type \in {"registered", "drain"} : Gets(r, type)
  BY DEF ReceiveRegistered, ReceiveDrain
<1>2. PICK how \in {proc[r], "serving", "draining"} : proc' = [proc EXCEPT ![r] = how]
  <2>1. proc \in [Runners -> {"starting", "connected", "serving", "draining", "gone"}]
    BY DEF BrokerInv, TypeOK
  <2>2. CASE ReceiveDrain(r)
    BY <2>2 DEF ReceiveDrain
  <2>3. CASE ReceiveRegistered(r)
    BY <2>1, <2>3 DEF ReceiveRegistered
  <2> QED BY <2>2, <2>3
<1>3. UNCHANGED <<external, launchers, known, draining, requests, busy, offers, accepting,
                  tasks, armed, reply, taskOf, open, status, sent, toBroker>>
  BY DEF ReceiveRegistered, ReceiveDrain, brokerVars, config, requesterVars
<1>4. /\ proc[r] # "gone" /\ proc[r] # "starting"
      /\ toRunner' \in [Runners -> Seq(BrokerMessage)]
      /\ \A s \in Runners \ {r} : toRunner'[s] = toRunner[s]
  BY <1>1, Got
<1>5. /\ \A s \in Runners : OwnOrders(s, toRunner'[s])
      /\ \A p \in Offers : /\ Ordered("settings", p)' <=> Ordered("settings", p)
                           /\ Ordered("cancel", p)' <=> Ordered("cancel", p)
  BY <1>1, GotOthers
<1>6. TypeOK
  BY DEF BrokerInv
<1>7. TypeOK'
  BY <1>2, <1>3, <1>4, <1>6 DEF TypeOK
<1>8. AskedOnce(accepting', busy') /\ QueuedOnce'
  BY <1>3 DEF BrokerInv, QueuedOnce
<1>9. ASSUME NEW s \in Runners
      PROVE  /\ proc[s] = "gone" => proc'[s] = "gone"
             /\ \/ proc'[s] = proc[s] /\ (proc[s] = "starting" => toRunner'[s] = toRunner[s])
                \/ proc'[s] \notin {"starting", "gone"}
  BY <1>2, <1>4, <1>6 DEF TypeOK
<1>10. ASSUME NEW o \in Offers PROVE Stays(o)
  <2>1. sent'[RunnerOf(o)] >= sent[RunnerOf(o)]
    BY <1>3, SentSame
  <2>2. RunnerOf(o) \in Runners
    BY OfferIs
  <2> QED BY <1>3, <1>5, <1>9, <2>1, <2>2 DEF Stays, Said
<1>11. ASSUME NEW s \in Runners PROVE RunnerStays(s)
  <2>1. \/ proc'[s] = proc[s] /\ (proc[s] = "starting" => toRunner'[s] = toRunner[s])
        \/ IdleOutside(s)'
    BY <1>9 DEF IdleOutside
  <2> QED BY <1>3, <1>5, <2>1 DEF RunnerStays
<1> QED BY <1>7, <1>8, <1>10, <1>11, Framed

\* It is sent the settings of a task, which starts.
LEMMA ReceiveSettingsKeeps ==
    ASSUME BrokerInv, NEW r \in Runners, ReceiveSettings(r)
    PROVE  BrokerInv'
<1>0. PICK o \in OffersOf(r) : o = Head(toRunner[r]).task
  BY Got DEF ReceiveSettings, Orders
<1>1. /\ Gets(r, "settings")
      /\ status' = [status EXCEPT ![o] = IF @ = "waitingForSettings" THEN "running" ELSE @]
      /\ UNCHANGED <<external, launchers, known, draining, requests, busy, offers, accepting,
                     tasks, armed, reply, taskOf, proc, open, sent, toBroker>>
  BY <1>0 DEF ReceiveSettings, brokerVars, config, requesterVars
<1>2. /\ proc[r] # "gone" /\ proc[r] # "starting"
      /\ toRunner' \in [Runners -> Seq(BrokerMessage)]
      /\ \A s \in Runners \ {r} : toRunner'[s] = toRunner[s]
      /\ ToSet(toRunner[r]) = ToSet(toRunner'[r]) \cup {Head(toRunner[r])}
      /\ Head(toRunner[r]) = Message("settings", o)
  BY <1>0, <1>1, Got DEF Orders
<1>3. /\ \A s \in Runners : OwnOrders(s, toRunner'[s])
      /\ \A p \in Offers : /\ Ordered("settings", p)' => Ordered("settings", p)
                           /\ Ordered("cancel", p)' <=> Ordered("cancel", p)
  BY <1>1, GotOthers
<1>4. o \in Offers /\ RunnerOf(o) = r /\ Ordered("settings", o) /\ OfferInv(o) /\ TypeOK
  BY <1>2 DEF OffersOf, Ordered, BrokerInv
<1>5. /\ \A p \in Offers \ {o} : status'[p] = status[p]
      /\ status'[o] = IF status[o] = "waitingForSettings" THEN "running" ELSE status[o]
      /\ status' \in [Offers -> {"none", "waitingForSettings", "running",
                                 "cancelled", "timeout"}]
  BY <1>1, <1>4 DEF TypeOK
<1>6. TypeOK'
  BY <1>1, <1>2, <1>4, <1>5 DEF TypeOK
<1>7. AskedOnce(accepting', busy') /\ QueuedOnce'
  BY <1>1 DEF BrokerInv, QueuedOnce
<1>8. ASSUME NEW p \in Offers, p # o PROVE Stays(p)
  <2>1. sent'[RunnerOf(p)] >= sent[RunnerOf(p)]
    BY <1>1, SentSame
  <2> QED BY <1>1, <1>3, <1>5, <1>8, <2>1 DEF Stays, Said
<1>9. OfferInv(o)'
  <2>1. \A type : Said(type, o)' <=> Said(type, o)
    BY <1>1 DEF Said
  <2>2. /\ ~ Said("accepted", o) /\ o \notin open[RunnerOf(o)]
        /\ ~ (Serial(o) > sent[RunnerOf(o)])
    BY <1>4 DEF OfferInv, Unheard, Untouched, Unmade
  <2>3. Unmade(o)' /\ Untouched(o)'
    BY <1>1, <2>2 DEF Unmade, Untouched, Serial
  <2>4. Arriving(o)' /\ OverAtRunner(o)' /\ Unheard(o)'
    BY <1>1, <1>4, <1>5, <2>1, <2>2 DEF OfferInv, Arriving, OverAtRunner, Unheard
  <2>5. ForgottenFirst(o)' /\ Occupies(o)'
    BY <1>1, <1>3, <1>4, <1>5, <2>1 DEF OfferInv, ForgottenFirst, Occupies
  <2>6. Remembered(o)'
    BY <1>1, <1>3, <1>4, <1>5 DEF OfferInv, Remembered
  <2> QED BY <2>3, <2>4, <2>5, <2>6 DEF OfferInv
<1>10. ASSUME NEW s \in Runners PROVE RunnerStays(s)
  <2>1. \A p \in OffersOf(s) : status'[p] # "none" => status[p] # "none"
    BY <1>5 DEF OffersOf
  <2>2. proc[s] = "starting" => toRunner'[s] = toRunner[s]
    BY <1>2
  <2> QED BY <1>1, <1>3, <2>1, <2>2 DEF RunnerStays
<1> QED BY <1>6, <1>7, <1>8, <1>9, <1>10, Framed

-----------------------------------------------------------------------------
(* What a runner says.                                                     *)

\* A message alone.
LEMMA OneSaid ==
    ASSUME NEW m \in RunnerMessage
    PROVE  /\ <<m>> \in Seq(RunnerMessage) /\ ToSet(<<m>>) = {m}
           /\ Len(<<m>>) = 1 /\ <<m>>[1] = m
           /\ SaidOnce(<<m>>)
<1> DEFINE s == <<m>>
<1>1. s \in Seq(RunnerMessage) /\ Len(s) = 1 /\ s[1] = m
  OBVIOUS
<1> HIDE DEF s
<1>2. ToSet(s) = {m}
  <2>1. \A x : x \in ToSet(s) <=> \E i \in 1..1 : s[i] = x
    BY <1>1, ElementsAre
  <2> QED BY <1>1, <2>1
<1>3. ASSUME NEW i \in 1..Len(s), NEW j \in 1..Len(s)
      PROVE  /\ i = j
             /\ \A o \in Offers :
                   ~ (s[i] = Message("accepted", o) /\ s[j] = Message("finished", o))
  <2>1. i = 1 /\ j = 1
    BY <1>1
  <2>2. \A o \in Offers : Message("accepted", o) # Message("finished", o)
    BY Messages
  <2> QED BY <1>1, <2>1, <2>2
<1>4. SaidOnce(s)
  BY <1>3 DEF SaidOnce
<1> QED BY <1>1, <1>2, <1>4 DEF s

\* Messages by which no task starts.
LEMMA WithinQuiet ==
    ASSUME NEW r \in Runners, NEW queue \in Seq(RunnerMessage),
           NEW msgs \in Seq(RunnerMessage), NEW held, Within(r, queue, held),
           \A m \in ToSet(msgs) : m.type # "accepted"
    PROVE  Within(r, queue \o msgs, held)
<1> DEFINE n == Len(queue)
           u == queue \o msgs
           S == Counted(r, queue, held, n)
<1>1. /\ u \in Seq(RunnerMessage) /\ Len(u) = n + Len(msgs)
      /\ \A i \in 1..n + Len(msgs) : u[i] = IF i <= n THEN queue[i] ELSE msgs[i - n]
      /\ n \in Nat /\ Len(msgs) \in Nat
      /\ \A i \in 1..Len(msgs) : msgs[i] \in ToSet(msgs)
  BY ConcatProperties, ElementsAre
<1>2. S \subseteq OffersOf(r) /\ Cardinality(S) <= MaxConcurrency
  <2>1. n \in 0..Len(queue)
    BY <1>1
  <2> QED BY <2>1, CountedOwn DEF Within
<1>3. ASSUME NEW k \in 1..Len(msgs) PROVE Counted(r, u, held, n + k) \subseteq S
  <2> HIDE DEF u, n, S
  <2> SUFFICES ASSUME NEW o \in Counted(r, u, held, n + k) PROVE o \in S
    OBVIOUS
  <2>1. /\ o \in OffersOf(r)
        /\ o \in held \/ \E i \in 1..(n + k) : u[i] = Message("accepted", o)
        /\ \A i \in 1..(n + k) : u[i] # Message("finished", o)
    BY DEF Counted
  <2>2. \A i \in 1..n : i \in 1..(n + k) /\ u[i] = queue[i]
    BY <1>1
  <2>3. ASSUME NEW i \in 1..(n + k), u[i] = Message("accepted", o)
        PROVE  i \in 1..n /\ queue[i] = Message("accepted", o)
    <3>1. CASE i <= n
      BY <1>1, <2>3, <3>1
    <3>2. CASE ~ (i <= n)
      <4>1. i - n \in 1..Len(msgs) /\ u[i] = msgs[i - n]
        BY <1>1, <3>2
      <4>2. Message("accepted", o).type # "accepted"
        BY <1>1, <2>3, <4>1
      <4> QED BY <4>2, Messages
    <3> QED BY <3>1, <3>2
  <2>4. o \in held \/ \E i \in 1..n : queue[i] = Message("accepted", o)
    BY <2>1, <2>3
  <2>5. \A i \in 1..n : queue[i] # Message("finished", o)
    BY <2>1, <2>2
  <2> QED BY <2>1, <2>4, <2>5 DEF Counted, S
<1> HIDE DEF S
<1> QED BY <1>2, <1>3, WithinSays

\* The runner that says something.
LEMMA SayerKeeps ==
    ASSUME BrokerInv, NEW r \in Runners, NEW msgs \in Seq(RunnerMessage), Say(r, msgs),
           UNCHANGED <<known, tasks, offers, proc>>, proc[r] \notin {"starting", "gone"},
           SaidOnce(msgs),
           \A m \in ToSet(msgs) :
              RunnerOf(m.task) = r /\ (m \in ToSet(toBroker[r]) => m.type = "declined"),
           \A o \in Offers : Message("accepted", o) \in ToSet(msgs) =>
                                Message("finished", o) \notin ToSet(toBroker[r]),
           r \in known => Within(r, toBroker[r] \o msgs, tasks),
           open'[r] \subseteq OffersOf(r), OwnOrders(r, toRunner'[r]), SlotsKept(r)'
    PROVE  RunnerInv(r)'
<1>1. /\ r \notin known => toBroker'[r] = toBroker[r]
      /\ r \in known => /\ toBroker'[r] = toBroker[r] \o msgs
                        /\ ToSet(toBroker'[r]) = ToSet(toBroker[r]) \cup ToSet(msgs)
  BY Says
<1>2. RunnerInv(r) /\ toBroker[r] \in Seq(RunnerMessage)
  BY DEF BrokerInv, TypeOK
<1>3. OwnMessages(r)'
  <2>1. \A m \in ToSet(toBroker'[r]) : RunnerOf(m.task) = r
    BY <1>1, <1>2 DEF RunnerInv, OwnMessages
  <2> QED BY <2>1 DEF OwnMessages
<1>4. UnknownIsGone(r)'
  BY <1>1, <1>2 DEF RunnerInv, UnknownIsGone
<1>5. IdleOutside(r)'
  BY DEF IdleOutside
<1>6. SaidOnce(toBroker'[r])
  <2>1. SaidOnce(toBroker[r])
    BY <1>2 DEF RunnerInv
  <2>2. SaidOnce(toBroker[r] \o msgs)
    BY <1>2, <2>1, SaidOnceSays
  <2> QED BY <1>1, <2>1, <2>2
<1>7. Within(r, toBroker'[r], tasks')
  BY <1>1, <1>2 DEF RunnerInv
<1> QED BY <1>3, <1>4, <1>5, <1>6, <1>7 DEF RunnerInv

\* An offer that is made.
LEMMA FreshKeeps ==
    ASSUME NEW o \in Offers, OfferInv(o), Serial(o) > sent[RunnerOf(o)],
           ~ (Serial(o) > sent'[RunnerOf(o)]),
           status'[o] = status[o], tasks' = tasks, offers' = offers,
           Said("accepted", o)' => Said("accepted", o),
           Said("finished", o)' => Said("finished", o),
           Ordered("settings", o)' => Ordered("settings", o),
           Ordered("cancel", o)' => Ordered("cancel", o)
    PROVE  OfferInv(o)'
<1>1. /\ status'[o] = "none" /\ o \notin tasks' /\ o \notin ToSet(offers')
      /\ ~ Said("accepted", o)' /\ ~ Said("finished", o)'
      /\ ~ Ordered("settings", o)' /\ ~ Ordered("cancel", o)'
  BY DEF OfferInv, Unmade
<1>2. Unmade(o)'
  BY DEF Unmade, Serial
<1>3. Arriving(o)' /\ Untouched(o)' /\ OverAtRunner(o)' /\ Unheard(o)'
  BY <1>1 DEF Arriving, Untouched, OverAtRunner, Unheard
<1>4. ForgottenFirst(o)' /\ Remembered(o)' /\ Occupies(o)'
  BY <1>1 DEF ForgottenFirst, Remembered, Occupies
<1> QED BY <1>2, <1>3, <1>4 DEF OfferInv

\* What a runner says reaches the broker, unless that does not know it.
LEMMA Saying ==
    ASSUME BrokerInv, NEW r \in Runners, NEW msgs \in Seq(RunnerMessage), Say(r, msgs)
    PROVE  /\ toBroker' \in [Runners -> Seq(RunnerMessage)]
           /\ \A s \in Runners \ {r} : toBroker'[s] = toBroker[s]
           /\ \A type : \A p \in Offers :
                 /\ Said(type, p) => Said(type, p)'
                 /\ Said(type, p)' => Said(type, p) \/ Message(type, p) \in ToSet(msgs)
                 /\ Message(type, p) \in ToSet(msgs) /\ RunnerOf(p) = r /\ r \in known =>
                       Said(type, p)'
<1>1. /\ toBroker' \in [Runners -> Seq(RunnerMessage)]
      /\ \A s \in Runners \ {r} : toBroker'[s] = toBroker[s]
      /\ r \notin known => toBroker'[r] = toBroker[r]
      /\ r \in known => ToSet(toBroker'[r]) = ToSet(toBroker[r]) \cup ToSet(msgs)
  BY Says
<1>2. ASSUME NEW type, NEW p \in Offers
      PROVE  /\ Said(type, p) => Said(type, p)'
             /\ Said(type, p)' => Said(type, p) \/ Message(type, p) \in ToSet(msgs)
             /\ Message(type, p) \in ToSet(msgs) /\ RunnerOf(p) = r /\ r \in known =>
                   Said(type, p)'
  <2> DEFINE m == Message(type, p)
             s == RunnerOf(p)
  <2>1. s \in Runners
    BY OfferIs
  <2> HIDE DEF m, s
  <2>2. /\ m \in ToSet(toBroker[s]) => m \in ToSet(toBroker'[s])
        /\ m \in ToSet(toBroker'[s]) => m \in ToSet(toBroker[s]) \/ m \in ToSet(msgs)
        /\ m \in ToSet(msgs) /\ s = r /\ r \in known => m \in ToSet(toBroker'[s])
    <3>1. CASE s = r
      BY <1>1, <3>1
    <3>2. CASE s # r
      BY <1>1, <2>1, <3>2
    <3> QED BY <3>1, <3>2
  <2> QED BY <2>2 DEF Said, m, s
<1> QED BY <1>1, <1>2

\* Runners that do nothing while another one speaks.
LEMMA OtherRunners ==
    ASSUME BrokerInv, NEW r \in Runners, NEW s \in Runners, s # r,
           UNCHANGED <<known, tasks, offers, proc>>,
           toBroker'[s] = toBroker[s], toRunner'[s] = toRunner[s], open'[s] = open[s],
           \A o \in OffersOf(s) : status'[o] = status[o]
    PROVE  RunnerStays(s)
<1>1. OwnOrders(s, toRunner'[s])
  BY SameOrders
<1> QED BY <1>1 DEF RunnerStays

\* An accept is answered by a message that it is declined.
LEMMA DeclineKeeps ==
    ASSUME BrokerInv, NEW r \in Runners, NEW o \in OffersOf(r), Gets(r, "offeraccept"),
           Say(r, <<Message("declined", o)>>),
           open' = [open EXCEPT ![r] = open'[r]], open'[r] \subseteq open[r],
           UNCHANGED <<external, launchers, known, draining, requests, busy, offers, accepting,
                       tasks, armed, reply, taskOf, proc, status, sent>>
    PROVE  BrokerInv'
<1> DEFINE m == Message("declined", o)
<1>1. TypeOK /\ RunnerInv(r)
  BY DEF BrokerInv
<1>2. m \in RunnerMessage /\ RunnerOf(m.task) = r /\ m.type = "declined" /\ o \in Offers
  BY DEF OffersOf, Message, RunnerMessage
<1> DEFINE msgs == <<m>>
<1>3. msgs \in Seq(RunnerMessage) /\ ToSet(msgs) = {m} /\ SaidOnce(msgs)
  <2> HIDE DEF m
  <2> QED BY <1>2, OneSaid
<1>4. Say(r, msgs)
  OBVIOUS
<1> HIDE DEF msgs
<1>5. /\ toBroker' \in [Runners -> Seq(RunnerMessage)]
      /\ \A s \in Runners \ {r} : toBroker'[s] = toBroker[s]
      /\ \A type : \A p \in Offers :
            /\ Said(type, p) => Said(type, p)'
            /\ Said(type, p)' => Said(type, p) \/ Message(type, p) \in ToSet(msgs)
  BY <1>3, <1>4, Saying
<1>6. \A p \in Offers : /\ Said("offer", p)' <=> Said("offer", p)
                        /\ Said("accepted", p)' <=> Said("accepted", p)
                        /\ Said("finished", p)' <=> Said("finished", p)
  <2>1. \A p : \A type \in {"offer", "accepted", "finished"} : Message(type, p) # m
    BY Messages
  <2> HIDE DEF m
  <2> QED BY <1>3, <1>5, <2>1
<1>7. /\ proc[r] # "gone" /\ proc[r] # "starting"
      /\ toRunner' \in [Runners -> Seq(BrokerMessage)]
      /\ \A s \in Runners \ {r} : toRunner'[s] = toRunner[s]
  BY Got
<1>8. /\ \A s \in Runners : OwnOrders(s, toRunner'[s])
      /\ \A p \in Offers : /\ Ordered("settings", p)' <=> Ordered("settings", p)
                           /\ Ordered("cancel", p)' <=> Ordered("cancel", p)
  BY GotOthers
<1>9. /\ \A s \in Runners \ {r} : open'[s] = open[s]
      /\ \A s \in Runners : open'[s] \subseteq open[s]
      /\ open' \in [Runners -> SUBSET Offers]
  BY <1>1 DEF TypeOK
<1>10. TypeOK'
  BY <1>1, <1>5, <1>7, <1>9 DEF TypeOK
<1>11. AskedOnce(accepting', busy') /\ QueuedOnce'
  BY DEF BrokerInv, QueuedOnce
<1>12. ASSUME NEW p \in Offers PROVE Stays(p)
  <2>1. sent'[RunnerOf(p)] >= sent[RunnerOf(p)]
    BY SentSame
  <2>2. RunnerOf(p) \in Runners
    BY OfferIs
  <2> QED BY <1>6, <1>8, <1>9, <2>1, <2>2 DEF Stays
<1>13. ASSUME NEW s \in Runners, s # r PROVE RunnerStays(s)
  BY <1>5, <1>7, <1>9, <1>13, OtherRunners
<1>14. RunnerInv(r)'
  <2>1. open'[r] \subseteq OffersOf(r) /\ open[r] \subseteq OffersOf(r)
    BY <1>1 DEF RunnerInv, OwnMessages
  <2>2. SlotsKept(r)'
    <3>1. /\ Cardinality(open'[r]) <= Cardinality(open[r])
          /\ Cardinality(open'[r]) \in Nat /\ Cardinality(open[r]) \in Nat
      BY <2>1, FewerOffers
    <3>2. RunningTasks(r)' = RunningTasks(r) /\ RunningTasks(r) \subseteq OffersOf(r)
      BY DEF RunningTasks, OffersOf
    <3>3. Cardinality(RunningTasks(r)) \in Nat
      BY <3>2, FewerOffers
    <3>4. Cardinality(open[r]) + Cardinality(RunningTasks(r)) <= MaxConcurrency
      BY <1>1 DEF RunnerInv, SlotsKept
    <3>5. Cardinality(open'[r]) + Cardinality(RunningTasks(r)) <= MaxConcurrency
      BY <3>1, <3>3, <3>4, BrokerAssumption
    <3> QED BY <3>2, <3>5 DEF SlotsKept
  <2>3. Within(r, toBroker[r] \o msgs, tasks)
    <3>1. Within(r, toBroker[r], tasks) /\ toBroker[r] \in Seq(RunnerMessage)
      BY <1>1 DEF RunnerInv, TypeOK
    <3>2. \A n \in ToSet(msgs) : n.type # "accepted"
      BY <1>2, <1>3
    <3> QED BY <1>3, <3>1, <3>2, WithinQuiet
  <2>4. \A p \in Offers : Message("accepted", p) \notin ToSet(msgs)
    BY <1>3, Messages
  <2>5. \A n \in ToSet(msgs) : RunnerOf(n.task) = r /\ n.type = "declined"
    BY <1>2, <1>3
  <2> QED BY <1>3, <1>4, <1>7, <1>8, <2>1, <2>2, <2>3, <2>4, <2>5, SayerKeeps
<1> QED BY <1>10, <1>11, <1>12, <1>13, <1>14, Framed

\* A launcher defers.
LEMMA LauncherDefersKeeps ==
    ASSUME BrokerInv, NEW r \in Runners, LauncherDefers(r)
    PROVE  BrokerInv'
<1>1. PICK o \in OffersOf(r) : o = Head(toRunner[r]).task
  BY Got DEF LauncherDefers, Orders
<1>2. /\ Gets(r, "offeraccept") /\ Say(r, <<Message("declined", o)>>)
      /\ UNCHANGED <<external, launchers, known, draining, requests, busy, offers, accepting,
                     tasks, armed, reply, taskOf, proc, open, status, sent>>
  BY <1>1 DEF LauncherDefers, Message, brokerVars, config, requesterVars, runnerVars
<1>3. open' = [open EXCEPT ![r] = open'[r]] /\ open'[r] \subseteq open[r]
  BY <1>2 DEF BrokerInv, TypeOK
<1> QED BY <1>2, <1>3, DeclineKeeps

\* An open offer is accepted while there is room: the offer becomes a task.
LEMMA AcceptKeeps ==
    ASSUME BrokerInv, NEW r \in Runners, NEW o \in OffersOf(r), Gets(r, "offeraccept"),
           o \in open[r], open' = [open EXCEPT ![r] = @ \ {o}],
           status' = [status EXCEPT ![o] = "waitingForSettings"],
           Say(r, <<Message("accepted", o)>>),
           UNCHANGED <<external, launchers, known, draining, requests, busy, offers, accepting,
                       tasks, armed, reply, taskOf, proc, sent>>
    PROVE  BrokerInv'
<1> DEFINE m == Message("accepted", o)
<1>1. TypeOK /\ RunnerInv(r) /\ o \in Offers /\ RunnerOf(o) = r /\ OfferInv(o)
  BY DEF BrokerInv, OffersOf
<1>2. m \in RunnerMessage /\ RunnerOf(m.task) = r /\ m.type = "accepted"
  BY <1>1 DEF Message, RunnerMessage
<1> DEFINE msgs == <<m>>
<1>3. msgs \in Seq(RunnerMessage) /\ ToSet(msgs) = {m} /\ SaidOnce(msgs)
      /\ Len(msgs) = 1 /\ msgs[1] = m
  <2> HIDE DEF m
  <2> QED BY <1>2, OneSaid
<1>4. Say(r, msgs)
  OBVIOUS
<1> HIDE DEF msgs
<1>5. /\ toBroker' \in [Runners -> Seq(RunnerMessage)]
      /\ \A s \in Runners \ {r} : toBroker'[s] = toBroker[s]
      /\ \A type : \A p \in Offers :
            /\ Said(type, p) => Said(type, p)'
            /\ Said(type, p)' => Said(type, p) \/ Message(type, p) \in ToSet(msgs)
            /\ Message(type, p) \in ToSet(msgs) /\ RunnerOf(p) = r /\ r \in known =>
                  Said(type, p)'
  BY <1>3, <1>4, Saying
<1>6. /\ \A p \in Offers : /\ Said("offer", p)' <=> Said("offer", p)
                           /\ Said("finished", p)' <=> Said("finished", p)
      /\ \A p \in Offers \ {o} : Said("accepted", p)' <=> Said("accepted", p)
  <2>1. \A p : \A type \in {"offer", "finished"} : Message(type, p) # m
    BY Messages
  <2>2. \A p : p # o => Message("accepted", p) # m
    BY Messages
  <2> HIDE DEF m
  <2> QED BY <1>3, <1>5, <2>1, <2>2
<1>7. /\ proc[r] # "gone" /\ proc[r] # "starting"
      /\ toRunner' \in [Runners -> Seq(BrokerMessage)]
      /\ \A s \in Runners \ {r} : toRunner'[s] = toRunner[s]
  BY Got
<1>8. /\ \A s \in Runners : OwnOrders(s, toRunner'[s])
      /\ \A p \in Offers : /\ Ordered("settings", p)' <=> Ordered("settings", p)
                           /\ Ordered("cancel", p)' <=> Ordered("cancel", p)
  BY GotOthers
<1>9. /\ \A s \in Runners \ {r} : open'[s] = open[s]
      /\ open'[r] = open[r] \ {o}
      /\ open' \in [Runners -> SUBSET Offers]
      /\ \A p \in Offers \ {o} : status'[p] = status[p]
      /\ status'[o] = "waitingForSettings"
      /\ status' \in [Offers -> {"none", "waitingForSettings", "running",
                                 "cancelled", "timeout"}]
  BY <1>1 DEF TypeOK
<1>10. TypeOK'
  BY <1>1, <1>5, <1>7, <1>9 DEF TypeOK
<1>11. AskedOnce(accepting', busy') /\ QueuedOnce'
  BY DEF BrokerInv, QueuedOnce
<1>12. /\ status[o] = "none" /\ o \notin tasks
       /\ ~ Said("accepted", o) /\ ~ Said("finished", o)
       /\ ~ Ordered("settings", o) /\ ~ Ordered("cancel", o)
       /\ ~ (Serial(o) > sent[RunnerOf(o)])
  BY <1>1 DEF OfferInv, Untouched, Unmade
<1>13. ASSUME NEW p \in Offers, p # o PROVE Stays(p)
  <2>1. sent'[RunnerOf(p)] >= sent[RunnerOf(p)]
    BY SentSame
  <2>2. p \in open'[RunnerOf(p)] => p \in open[RunnerOf(p)]
    BY <1>9, OfferIs
  <2> QED BY <1>6, <1>8, <1>9, <1>13, <2>1, <2>2 DEF Stays
<1>14. OfferInv(o)'
  <2>1. Unmade(o)' /\ Untouched(o)'
    BY <1>1, <1>9, <1>12 DEF Unmade, Untouched, Serial
  <2>2. Arriving(o)' /\ OverAtRunner(o)' /\ Unheard(o)'
    BY <1>1, <1>6, <1>8, <1>9, <1>12 DEF OfferInv, Arriving, OverAtRunner, Unheard
  <2>3. ForgottenFirst(o)' /\ Remembered(o)' /\ Occupies(o)'
    BY <1>8, <1>9, <1>12 DEF ForgottenFirst, Remembered, Occupies
  <2> QED BY <2>1, <2>2, <2>3 DEF OfferInv
<1>15. ASSUME NEW s \in Runners, s # r PROVE RunnerStays(s)
  <2>1. \A p \in OffersOf(s) : status'[p] = status[p]
    BY <1>1, <1>9, <1>15 DEF OffersOf
  <2> QED BY <1>5, <1>7, <1>9, <1>15, <2>1, OtherRunners
<1>16. RunnerInv(r)'
  <2>1. open'[r] \subseteq OffersOf(r) /\ open[r] \subseteq OffersOf(r)
    BY <1>1, <1>9 DEF RunnerInv, OwnMessages
  <2>2. /\ RunningTasks(r)' = RunningTasks(r) \cup {o} /\ o \notin RunningTasks(r)
        /\ RunningTasks(r) \subseteq OffersOf(r)
    <3>1. o \notin RunningTasks(r)
      BY <1>12 DEF RunningTasks
    <3>2. \A p \in Offers : p \in RunningTasks(r)' <=> p \in RunningTasks(r) \/ p = o
      BY <1>1, <1>9 DEF RunningTasks
    <3>3. RunningTasks(r)' \subseteq Offers /\ RunningTasks(r) \subseteq Offers
      BY DEF RunningTasks
    <3>4. RunningTasks(r) \subseteq OffersOf(r)
      BY DEF RunningTasks, OffersOf
    <3> QED BY <1>1, <3>1, <3>2, <3>3, <3>4
  <2>3. /\ IsFiniteSet(open[r]) /\ Cardinality(open[r]) \in Nat
        /\ IsFiniteSet(RunningTasks(r)) /\ Cardinality(RunningTasks(r)) \in Nat
    BY <2>1, <2>2, OffersFinite
  <2>4. Cardinality(open'[r]) = Cardinality(open[r]) - 1
    BY <1>9, <2>3, FS_RemoveElement
  <2>5. Cardinality(RunningTasks(r)') = Cardinality(RunningTasks(r)) + 1
    BY <2>2, <2>3, FS_AddElement
  <2>6. Cardinality(open[r]) + Cardinality(RunningTasks(r)) <= MaxConcurrency
    BY <1>1 DEF RunnerInv, SlotsKept
  <2>7. /\ Cardinality(open'[r]) + Cardinality(RunningTasks(r)') <= MaxConcurrency
        /\ Cardinality(RunningTasks(r)') <= MaxConcurrency
    <3>1. Cardinality(open'[r]) \in Nat
      BY <2>1, FewerOffers
    <3> QED BY <2>3, <2>4, <2>5, <2>6, <3>1, BrokerAssumption
  <2>8. SlotsKept(r)'
    BY <2>7 DEF SlotsKept
  <2>9. ASSUME r \in known PROVE Within(r, toBroker[r] \o msgs, tasks)
    <3> DEFINE queue == toBroker[r]
               n == Len(queue)
               u == queue \o msgs
               S == RunningTasks(r)'
    <3>1. Within(r, queue, tasks) /\ queue \in Seq(RunnerMessage)
      BY <1>1 DEF RunnerInv, TypeOK
    <3>2. /\ u \in Seq(RunnerMessage) /\ Len(u) = n + 1 /\ n \in Nat
          /\ ToSet(u) = ToSet(queue) \cup {m}
      BY <1>3, <3>1, ConcatProperties, ConcatElements, LenProperties
    <3>3. toBroker'[r] = u
      BY <1>3, <1>4, <2>9, Says
    <3>4. ASSUME NEW p \in Counted(r, u, tasks, n + 1) PROVE p \in S
      <4> HIDE DEF u, n, queue
      <4>1. /\ p \in OffersOf(r) /\ p \in Offers /\ RunnerOf(p) = r
            /\ p \in tasks \/ Message("accepted", p) \in ToSet(u)
            /\ Message("finished", p) \notin ToSet(u)
        <5>1. \A x : x \in ToSet(u) <=> \E i \in 1..(n + 1) : u[i] = x
          BY <3>2, ElementsAre
        <5> QED BY <5>1 DEF Counted, OffersOf
      <4>2. (p \in tasks \/ Said("accepted", p)') /\ ~ Said("finished", p)'
        BY <3>3, <4>1 DEF Said
      <4>3. status'[p] # "none"
        <5>1. CASE p = o
          BY <1>9, <5>1
        <5>2. CASE p # o
          <6>1. Occupies(p)
            BY <4>1 DEF BrokerInv, OfferInv
          <6> QED BY <1>6, <1>7, <1>9, <2>9, <4>1, <4>2, <5>2, <6>1 DEF Occupies
        <5> QED BY <5>1, <5>2
      <4> QED BY <4>1, <4>3 DEF RunningTasks
    <3>5. S \subseteq OffersOf(r)
      BY DEF RunningTasks, OffersOf
    <3>6. \A k \in 1..Len(msgs) : k = 1
      BY <1>3
    <3>7. \A k \in 1..Len(msgs) : Counted(r, u, tasks, n + k) \subseteq S
      BY <3>4, <3>6
    <3> HIDE DEF S, n
    <3>8. Cardinality(S) <= MaxConcurrency
      BY <2>7 DEF S
    <3> HIDE DEF queue
    <3>9. Within(r, queue \o msgs, tasks)
      BY <1>3, <3>1, <3>5, <3>7, <3>8, WithinSays DEF n
    <3> QED BY <3>9 DEF queue
  <2>10. \A p \in Offers : Message("accepted", p) \in ToSet(msgs) =>
            Message("finished", p) \notin ToSet(toBroker[r])
    <3>1. Message("finished", o) \notin ToSet(toBroker[r])
      BY <1>1, <1>12 DEF Said
    <3> QED BY <1>3, <3>1, Messages
  <2>11. \A x \in ToSet(msgs) : RunnerOf(x.task) = r /\ x \notin ToSet(toBroker[r])
    <3>1. m \notin ToSet(toBroker[r])
      BY <1>1, <1>12 DEF Said
    <3> QED BY <1>2, <1>3, <3>1
  <2> QED BY <1>3, <1>4, <1>7, <1>8, <2>1, <2>8, <2>9, <2>10, <2>11, SayerKeeps
<1> QED BY <1>10, <1>11, <1>13, <1>14, <1>15, <1>16, Framed

\* A runner is asked whether its offer stands.
LEMMA OfferAcceptedKeeps ==
    ASSUME BrokerInv, NEW r \in Runners, OfferAccepted(r)
    PROVE  BrokerInv'
<1>1. PICK o \in OffersOf(r) : o = Head(toRunner[r]).task
  BY Got DEF OfferAccepted, Orders
<1>2. /\ Gets(r, "offeraccept")
      /\ open' = [open EXCEPT ![r] = IF proc[r] = "draining" THEN @ ELSE @ \ {o}]
      /\ IF HasOffer(r, o)
         THEN /\ status' = [status EXCEPT ![o] = "waitingForSettings"]
              /\ Say(r, <<Message("accepted", o)>>)
         ELSE Say(r, <<Message("declined", o)>>) /\ UNCHANGED status
      /\ UNCHANGED <<external, launchers, known, draining, requests, busy, offers, accepting,
                     tasks, armed, reply, taskOf, proc, sent>>
  BY <1>1 DEF OfferAccepted, Message, brokerVars, config, requesterVars
<1>3. CASE HasOffer(r, o)
  <2>1. o \in open[r] /\ open' = [open EXCEPT ![r] = @ \ {o}]
    BY <1>2, <1>3 DEF HasOffer
  <2> QED BY <1>2, <1>3, <2>1, AcceptKeeps
<1>4. CASE ~ HasOffer(r, o)
  <2>1. open' = [open EXCEPT ![r] = open'[r]] /\ open'[r] \subseteq open[r]
    BY <1>2 DEF BrokerInv, TypeOK
  <2> QED BY <1>2, <1>4, <2>1, DeclineKeeps
<1> QED BY <1>3, <1>4

-----------------------------------------------------------------------------
(* sendOffers.                                                             *)

\* This step makes the offer.
Fresh(o) == Serial(o) > sent[RunnerOf(o)] /\ ~ (Serial(o) > sent'[RunnerOf(o)])

\* The messages of a round of sendOffers: each is one offer that is made now.
OfferMessages(r, msgs) ==
    /\ msgs \in Seq(RunnerMessage) /\ SaidOnce(msgs)
    /\ \A m \in ToSet(msgs) :
          m.type = "offer" /\ m.task \in OffersOf(r) /\ Fresh(m.task)

\* The number of offers fits the slots that are left.
LEMMA OffersFit ==
    ASSUME NEW r \in Runners, NEW held \in Nat, held <= MaxConcurrency,
           sent[r] \in 0..MaxOffers
    PROVE  /\ OffersToSend(r, held) \in Nat
           /\ OffersToSend(r, held) + held <= MaxConcurrency
           /\ sent[r] + OffersToSend(r, held) <= MaxOffers
<1> DEFINE S == {MaxConcurrency - held, MaxOffers - sent[r]}
<1>0. MaxConcurrency \in Nat /\ MaxOffers \in Nat /\ sent[r] \in Nat /\ sent[r] <= MaxOffers
  BY BrokerAssumption
<1>1. CASE proc[r] # "serving"
  <2>1. OffersToSend(r, held) = 0
    BY <1>1 DEF OffersToSend
  <2> QED BY <1>0, <2>1
<1>2. CASE proc[r] = "serving"
  <2>1. S \in SUBSET Nat /\ S # {}
    BY <1>0
  <2>2. Min(S) \in S /\ \A y \in S : Min(S) <= y
    <3> HIDE DEF S
    <3> QED BY <2>1, MinIsLeast
  <2>3. OffersToSend(r, held) = Min(S)
    BY <1>2 DEF OffersToSend
  <2> DEFINE n == Min(S)
  <2>4. n \in Nat /\ n <= MaxConcurrency - held /\ n <= MaxOffers - sent[r]
    BY <2>1, <2>2
  <2> HIDE DEF n
  <2>5. n + held <= MaxConcurrency /\ sent[r] + n <= MaxOffers
    BY <1>0, <2>4
  <2> QED BY <2>3, <2>4, <2>5 DEF n
<1> QED BY <1>1, <1>2

\* What a runner sends after its other messages: offers with serial numbers of
\* their own, for the slots that are neither open nor taken.
LEMMA Sending ==
    ASSUME BrokerInv, NEW r \in Runners, NEW first \in Seq(RunnerMessage),
           NEW running \in SUBSET RunningTasks(r), SendOffers(r, first, running)
    PROVE  /\ open' \in [Runners -> SUBSET Offers] /\ sent' \in [Runners -> 0..MaxOffers]
           /\ \A s \in Runners \ {r} : open'[s] = open[s] /\ sent'[s] = sent[s]
           /\ \A s \in Runners : sent'[s] >= sent[s]
           /\ open'[r] \subseteq OffersOf(r)
           /\ \A o \in open'[r] : o \in open[r] \/ Fresh(o)
           /\ Cardinality(open'[r]) + Cardinality(running) <= MaxConcurrency
           /\ \E msgs : OfferMessages(r, msgs) /\ Say(r, first \o msgs)
<1>1. TypeOK /\ RunnerInv(r)
  BY DEF BrokerInv
<1>2. PICK keep \in SUBSET open[r] :
         LET n     == OffersToSend(r, Cardinality(keep) + Cardinality(running))
             fresh == [i \in 1..n |-> <<r, sent[r] + i>>]
         IN  /\ open' = [open EXCEPT ![r] = keep \cup ToSet(fresh)]
             /\ sent' = [sent EXCEPT ![r] = @ + n]
             /\ Say(r, first \o [i \in 1..n |-> [type |-> "offer", task |-> fresh[i]]])
  BY DEF SendOffers
<1> DEFINE held == Cardinality(keep) + Cardinality(running)
           n == OffersToSend(r, held)
           fresh == [i \in 1..n |-> <<r, sent[r] + i>>]
           msgs == [i \in 1..n |-> [type |-> "offer", task |-> fresh[i]]]
<1>3. /\ open' = [open EXCEPT ![r] = keep \cup ToSet(fresh)]
      /\ sent' = [sent EXCEPT ![r] = @ + n]
      /\ Say(r, first \o msgs)
  BY <1>2
<1>4. /\ open[r] \subseteq OffersOf(r) /\ RunningTasks(r) \subseteq OffersOf(r)
      /\ Cardinality(open[r]) + Cardinality(RunningTasks(r)) <= MaxConcurrency
      /\ sent[r] \in 0..MaxOffers
  BY <1>1 DEF RunnerInv, OwnMessages, SlotsKept, RunningTasks, OffersOf, TypeOK
<1>5. /\ keep \subseteq OffersOf(r) /\ IsFiniteSet(keep)
      /\ Cardinality(keep) \in Nat /\ Cardinality(running) \in Nat
      /\ held \in Nat /\ held <= MaxConcurrency
  <2>1. /\ Cardinality(keep) <= Cardinality(open[r])
        /\ Cardinality(keep) \in Nat /\ Cardinality(open[r]) \in Nat
    BY <1>4, FewerOffers
  <2>2. /\ Cardinality(running) <= Cardinality(RunningTasks(r))
        /\ Cardinality(running) \in Nat /\ Cardinality(RunningTasks(r)) \in Nat
    BY <1>4, FewerOffers
  <2>3. IsFiniteSet(keep)
    BY <1>4, OffersFinite
  <2>4. held \in Nat /\ held <= MaxConcurrency
    BY <1>4, <2>1, <2>2, BrokerAssumption
  <2> QED BY <1>4, <2>1, <2>2, <2>3, <2>4
<1>6. n \in Nat /\ n + held <= MaxConcurrency /\ sent[r] + n <= MaxOffers
  <2> HIDE DEF held
  <2> QED BY <1>4, <1>5, OffersFit
<1>7. sent[r] \in Nat /\ MaxOffers \in Nat /\ MaxConcurrency \in Nat
  BY <1>4, BrokerAssumption
<1> HIDE DEF n
<1>8. ASSUME NEW i \in 1..n
      PROVE  /\ fresh[i] = <<r, sent[r] + i>> /\ fresh[i] \in OffersOf(r) /\ fresh[i] \in Offers
             /\ Serial(fresh[i]) = sent[r] + i
             /\ msgs[i] = Message("offer", fresh[i]) /\ msgs[i] \in RunnerMessage
  <2>1. fresh[i] = <<r, sent[r] + i>> /\ sent[r] + i \in 1..MaxOffers
    BY <1>6, <1>7
  <2>2. fresh[i] \in Offers /\ RunnerOf(fresh[i]) = r /\ Serial(fresh[i]) = sent[r] + i
    <3> DEFINE o == <<r, sent[r] + i>>
    <3>1. o \in Offers /\ RunnerOf(o) = r /\ Serial(o) = sent[r] + i
      BY <2>1 DEF Offers, RunnerOf, Serial
    <3> QED BY <2>1, <3>1
  <2>3. msgs[i] = Message("offer", fresh[i])
    BY DEF Message
  <2> HIDE DEF fresh, msgs
  <2> QED BY <2>1, <2>2, <2>3 DEF OffersOf, Message, RunnerMessage
<1>9. sent' \in [Runners -> 0..MaxOffers] /\ sent'[r] = sent[r] + n /\ sent'[r] >= sent[r]
      /\ \A s \in Runners \ {r} : sent'[s] = sent[s]
  <2>1. sent[r] + n \in 0..MaxOffers /\ sent[r] + n >= sent[r]
    BY <1>6, <1>7
  <2>2. sent \in [Runners -> 0..MaxOffers]
    BY <1>1 DEF TypeOK
  <2> QED BY <1>3, <2>1, <2>2
<1>10. \A s \in Runners : sent'[s] >= sent[s]
  <2>1. \A s \in Runners : sent[s] \in Nat
    BY <1>1, <1>7 DEF TypeOK
  <2> QED BY <1>9, <2>1
<1>11. ASSUME NEW i \in 1..n PROVE Fresh(fresh[i])
  <2>1. RunnerOf(fresh[i]) = r /\ Serial(fresh[i]) = sent[r] + i
    BY <1>8 DEF OffersOf
  <2>2. sent[r] + i > sent[r] /\ ~ (sent[r] + i > sent[r] + n)
    BY <1>6, <1>7
  <2> QED BY <1>9, <2>1, <2>2 DEF Fresh
<1>12. /\ fresh \in Seq(Offers) /\ Len(fresh) = n
       /\ msgs \in Seq(RunnerMessage) /\ Len(msgs) = n
  <2>1. DOMAIN fresh = 1..n /\ DOMAIN msgs = 1..n
    OBVIOUS
  <2>2. fresh \in [1..n -> Offers] /\ msgs \in [1..n -> RunnerMessage]
    BY <1>8
  <2> HIDE DEF fresh, msgs
  <2> QED BY <1>6, <2>1, <2>2
<1> DEFINE new == ToSet(fresh)
<1>13. /\ new \subseteq OffersOf(r) /\ IsFiniteSet(new)
       /\ \A o \in new : Fresh(o)
       /\ Cardinality(new) \in Nat /\ Cardinality(new) <= n
  <2>1. \A o : o \in new <=> \E i \in 1..n : fresh[i] = o
    <3> HIDE DEF fresh
    <3> QED BY <1>12, ElementsAre
  <2>2. new \subseteq OffersOf(r) /\ \A o \in new : Fresh(o)
    <3> HIDE DEF fresh, new, msgs
    <3> QED BY <1>8, <1>11, <2>1
  <2>3. fresh \in Surjection(1..n, new)
    <3>1. DOMAIN fresh = 1..n
      OBVIOUS
    <3>2. fresh \in [1..n -> new]
      BY <2>1
    <3> HIDE DEF fresh
    <3> QED BY <2>1, <3>2 DEF Surjection
  <2>4. IsFiniteSet(1..n) /\ Cardinality(1..n) = n
    BY <1>6, FS_Interval
  <2> HIDE DEF fresh, new
  <2>5. IsFiniteSet(new) /\ Cardinality(new) <= n
    BY <2>3, <2>4, FS_Surjection
  <2> QED BY <2>2, <2>5, FS_CardinalityType
<1>14. /\ open' \in [Runners -> SUBSET Offers] /\ open'[r] = keep \cup new
       /\ \A s \in Runners \ {r} : open'[s] = open[s]
  <2>1. open \in [Runners -> SUBSET Offers]
    BY <1>1 DEF TypeOK
  <2>2. keep \cup new \subseteq Offers
    BY <1>5, <1>13 DEF OffersOf
  <2> HIDE DEF fresh
  <2> QED BY <1>3, <2>1, <2>2
<1>15. Cardinality(keep \cup new) + Cardinality(running) <= MaxConcurrency
  <2> HIDE DEF new
  <2>1. /\ Cardinality(keep \cup new) =
              Cardinality(keep) + Cardinality(new) - Cardinality(keep \cap new)
        /\ Cardinality(keep \cap new) \in Nat
    <3>1. keep \cap new \subseteq keep
      OBVIOUS
    <3>2. IsFiniteSet(keep \cap new)
      BY <1>5, <3>1, FS_Subset
    <3> QED BY <1>5, <1>13, <3>2, FS_Union, FS_CardinalityType
  <2> QED BY <1>5, <1>6, <1>7, <1>13, <2>1
<1>16. OfferMessages(r, msgs)
  <2>1. \A m \in ToSet(msgs) : \E i \in 1..n : m = msgs[i]
    <3> HIDE DEF msgs
    <3> QED BY <1>12, ElementsAre
  <2>2. \A m \in ToSet(msgs) :
           m.type = "offer" /\ m.task \in OffersOf(r) /\ Fresh(m.task)
    <3> HIDE DEF msgs, fresh
    <3> QED BY <1>8, <1>11, <2>1, Messages
  <2>3. ASSUME NEW i \in 1..n, NEW j \in 1..n
        PROVE  /\ msgs[i] = msgs[j] => i = j
               /\ \A o \in Offers : msgs[i] # Message("accepted", o)
    <3>1. msgs[i] = msgs[j] => sent[r] + i = sent[r] + j
      <4> HIDE DEF msgs, fresh
      <4> QED BY <1>8, Messages
    <3>2. sent[r] + i = sent[r] + j => i = j
      BY <1>6, <1>7
    <3>3. \A o \in Offers : msgs[i] # Message("accepted", o)
      <4> HIDE DEF msgs, fresh
      <4> QED BY <1>8, Messages
    <3> HIDE DEF msgs
    <3> QED BY <3>1, <3>2, <3>3
  <2>4. SaidOnce(msgs)
    <3> HIDE DEF msgs
    <3> QED BY <1>12, <2>3 DEF SaidOnce
  <2> HIDE DEF msgs
  <2> QED BY <1>12, <2>2, <2>4 DEF OfferMessages
<1>17. \A o \in open'[r] : o \in open[r] \/ Fresh(o)
  BY <1>13, <1>14
<1>18. open'[r] \subseteq OffersOf(r)
  <2> HIDE DEF new
  <2> QED BY <1>5, <1>13, <1>14
<1> HIDE DEF msgs, new, fresh
<1>19. Cardinality(open'[r]) + Cardinality(running) <= MaxConcurrency
  BY <1>14, <1>15
<1> QED BY <1>3, <1>9, <1>10, <1>14, <1>16, <1>17, <1>18, <1>19

\* Tasks end at a runner, which says so where the broker may wait for it, and
\* sends its offers.
LEMMA SendKeeps ==
    ASSUME BrokerInv, NEW r \in Runners, NEW ended, ended \subseteq OffersOf(r),
           NEW first \in Seq(RunnerMessage), SaidOnce(first),
           \A m \in ToSet(first) : m.type = "finished" /\ m.task \in ended,
           \A o \in ended :
              /\ status[o] # "none"
              /\ \/ Message("finished", o) \in ToSet(first)
                 \/ o \notin tasks /\ ~ Said("accepted", o),
           status' \in [Offers -> {"none", "waitingForSettings", "running",
                                   "cancelled", "timeout"}],
           \A o \in Offers : status'[o] = IF o \in ended THEN "none" ELSE status[o],
           SendOffers(r, first, RunningTasks(r) \ ended),
           toRunner' \in [Runners -> Seq(BrokerMessage)],
           \A s \in Runners : OwnOrders(s, toRunner'[s]),
           \A s \in Runners \ {r} : toRunner'[s] = toRunner[s],
           \A o \in Offers : /\ Ordered("settings", o)' => Ordered("settings", o)
                             /\ Ordered("cancel", o)' => Ordered("cancel", o)
                             /\ o \notin ended /\ Ordered("cancel", o) => Ordered("cancel", o)',
           proc[r] \notin {"starting", "gone"},
           UNCHANGED <<external, launchers, known, draining, requests, busy, offers, accepting,
                       tasks, armed, reply, taskOf, proc>>
    PROVE  BrokerInv'
<1>1. TypeOK /\ RunnerInv(r)
  BY DEF BrokerInv
<1>2. /\ open' \in [Runners -> SUBSET Offers] /\ sent' \in [Runners -> 0..MaxOffers]
      /\ \A s \in Runners \ {r} : open'[s] = open[s] /\ sent'[s] = sent[s]
      /\ \A s \in Runners : sent'[s] >= sent[s]
      /\ open'[r] \subseteq OffersOf(r)
      /\ \A o \in open'[r] : o \in open[r] \/ Fresh(o)
      /\ Cardinality(open'[r]) + Cardinality(RunningTasks(r) \ ended) <= MaxConcurrency
      /\ \E offered : OfferMessages(r, offered) /\ Say(r, first \o offered)
  BY Sending
<1>3. PICK offered : OfferMessages(r, offered) /\ Say(r, first \o offered)
  BY <1>2
<1> DEFINE msgs == first \o offered
<1>4. /\ offered \in Seq(RunnerMessage) /\ SaidOnce(offered)
      /\ \A m \in ToSet(offered) : m.type = "offer" /\ m.task \in OffersOf(r) /\ Fresh(m.task)
  BY <1>3 DEF OfferMessages
<1>5. msgs \in Seq(RunnerMessage) /\ ToSet(msgs) = ToSet(first) \cup ToSet(offered)
  BY <1>4, ConcatElements
<1>6. Say(r, msgs)
  BY <1>3
<1>7. /\ \A p \in Offers : Message("offer", p) \in ToSet(msgs) => Fresh(p)
      /\ \A p \in Offers : Message("accepted", p) \notin ToSet(msgs)
      /\ \A p \in Offers : Message("finished", p) \in ToSet(msgs) => p \in ended
      /\ \A p \in Offers : Message("finished", p) \in ToSet(first) =>
                              Message("finished", p) \in ToSet(msgs)
      /\ \A m \in ToSet(msgs) : RunnerOf(m.task) = r /\ m.type # "accepted"
  <2> HIDE DEF msgs
  <2>0. ASSUME NEW type, NEW p, Message(type, p) \in ToSet(msgs)
        PROVE  \/ type = "finished" /\ p \in ended
               \/ type = "offer" /\ Fresh(p)
    <3> DEFINE m == Message(type, p)
    <3>1. m.type = type /\ m.task = p
      BY DEF Message
    <3> HIDE DEF m
    <3>2. CASE m \in ToSet(first)
      BY <3>1, <3>2
    <3>3. CASE m \in ToSet(offered)
      BY <1>4, <3>1, <3>3
    <3> QED BY <1>5, <2>0, <3>2, <3>3 DEF m
  <2>1. \A p \in Offers : Message("offer", p) \in ToSet(msgs) => Fresh(p)
    BY <2>0
  <2>2. \A p \in Offers : Message("accepted", p) \notin ToSet(msgs)
    BY <2>0
  <2>3. \A p \in Offers : Message("finished", p) \in ToSet(msgs) => p \in ended
    BY <2>0
  <2>4. \A m \in ToSet(msgs) : RunnerOf(m.task) = r /\ m.type # "accepted"
    BY <1>4, <1>5 DEF OffersOf
  <2> QED BY <1>5, <2>1, <2>2, <2>3, <2>4
<1> HIDE DEF msgs
<1>8. /\ toBroker' \in [Runners -> Seq(RunnerMessage)]
      /\ \A s \in Runners \ {r} : toBroker'[s] = toBroker[s]
      /\ \A type : \A p \in Offers :
            /\ Said(type, p) => Said(type, p)'
            /\ Said(type, p)' => Said(type, p) \/ Message(type, p) \in ToSet(msgs)
            /\ Message(type, p) \in ToSet(msgs) /\ RunnerOf(p) = r /\ r \in known =>
                  Said(type, p)'
  BY <1>5, <1>6, Saying
<1>9. \A p \in Offers : /\ Said("offer", p)' => Said("offer", p) \/ Fresh(p)
                        /\ Said("accepted", p)' => Said("accepted", p)
                        /\ Said("finished", p)' => Said("finished", p) \/ p \in ended
                        /\ Said("finished", p) => Said("finished", p)'
  BY <1>7, <1>8
<1>10. TypeOK'
  BY <1>1, <1>2, <1>8 DEF TypeOK
<1>11. AskedOnce(accepting', busy') /\ QueuedOnce'
  BY DEF BrokerInv, QueuedOnce
<1>12. ASSUME NEW p \in Offers, Fresh(p), p \notin ended PROVE OfferInv(p)'
  <2>1. OfferInv(p)
    BY DEF BrokerInv
  <2> QED BY <1>9, <1>12, <2>1, FreshKeeps DEF Fresh
<1>13. ASSUME NEW p \in Offers, ~ Fresh(p), p \notin ended PROVE Stays(p)
  <2>1. RunnerOf(p) \in Runners
    BY OfferIs
  <2>2. p \in open'[RunnerOf(p)] => p \in open[RunnerOf(p)]
    BY <1>2, <1>13, <2>1
  <2> QED BY <1>2, <1>9, <1>13, <2>1, <2>2 DEF Stays
<1>14. ASSUME NEW p \in Offers, p \in ended PROVE OfferInv(p)'
  <2>1. OfferInv(p) /\ RunnerOf(p) = r /\ status[p] # "none" /\ status'[p] = "none"
    BY <1>14 DEF BrokerInv, OffersOf
  <2>2. ~ (Serial(p) > sent[RunnerOf(p)]) /\ p \notin open[RunnerOf(p)]
    BY <2>1 DEF OfferInv, Unmade, Untouched
  <2>3. ~ (Serial(p) > sent'[RunnerOf(p)])
    <3>1. Serial(p) \in Nat /\ sent[r] \in Nat /\ sent'[r] \in Nat /\ sent'[r] >= sent[r]
      <4>1. sent[r] \in 0..MaxOffers
        BY <1>1 DEF TypeOK
      <4> QED BY <1>2, <4>1, OfferIs, BrokerAssumption DEF Serial
    <3> QED BY <2>1, <2>2, <3>1
  <2>4. ~ Fresh(p) /\ p \notin open'[RunnerOf(p)]
    BY <1>2, <2>1, <2>2 DEF Fresh
  <2>5. Unmade(p)' /\ Untouched(p)'
    BY <2>3, <2>4 DEF Unmade, Untouched, Serial
  <2>6. Arriving(p)' /\ OverAtRunner(p)' /\ Unheard(p)'
    BY <1>9, <2>1, <2>4 DEF OfferInv, Arriving, OverAtRunner, Unheard
  <2>7. ForgottenFirst(p)' /\ Remembered(p)'
    BY <2>1 DEF OfferInv, ForgottenFirst, Remembered
  <2>8. Occupies(p)'
    <3>1. CASE Message("finished", p) \in ToSet(first)
      <4>1. r \in known => Said("finished", p)'
        BY <1>7, <1>8, <2>1, <3>1
      <4> QED BY <2>1, <4>1 DEF Occupies
    <3>2. CASE p \notin tasks /\ ~ Said("accepted", p)
      BY <1>9, <3>2 DEF Occupies
    <3> QED BY <1>14, <3>1, <3>2
  <2> QED BY <2>5, <2>6, <2>7, <2>8 DEF OfferInv
<1>15. ASSUME NEW s \in Runners, s # r PROVE RunnerStays(s)
  <2>1. \A p \in OffersOf(s) : status'[p] = status[p]
    BY <1>15 DEF OffersOf
  <2> QED BY <1>2, <1>8, <1>15, <2>1, OtherRunners
<1>16. RunnerInv(r)'
  <2>1. toBroker[r] \in Seq(RunnerMessage) /\ Within(r, toBroker[r], tasks)
    BY <1>1 DEF TypeOK, RunnerInv
  <2>2. Within(r, toBroker[r] \o msgs, tasks)
    BY <1>5, <1>7, <2>1, WithinQuiet
  <2>3. SlotsKept(r)'
    <3>1. RunningTasks(r)' = RunningTasks(r) \ ended
      BY DEF RunningTasks
    <3> QED BY <1>2, <3>1 DEF SlotsKept
  <2>4. SaidOnce(msgs)
    <3>1. \A m \in ToSet(offered) : m \notin ToSet(first)
      BY <1>4
    <3>2. \A o \in Offers : Message("accepted", o) \notin ToSet(offered)
      BY <1>4, Messages
    <3> QED BY <1>4, <3>1, <3>2, SaidOnceSays DEF msgs
  <2>5. ASSUME NEW m \in ToSet(msgs) PROVE m \notin ToSet(toBroker[r])
    <3>1. m \in RunnerMessage
      BY <1>5, ElementsAre
    <3>2. m.task \in Offers /\ m = Message(m.type, m.task) /\ RunnerOf(m.task) = r
      BY <1>7, <3>1 DEF RunnerMessage, Message
    <3>3. OfferInv(m.task)
      BY <3>2 DEF BrokerInv
    <3>4. CASE m \in ToSet(first)
      <4>1. m.type = "finished" /\ status[m.task] # "none"
        BY <3>4
      <4>2. ~ Said("finished", m.task)
        BY <3>3, <4>1 DEF OfferInv, OverAtRunner
      <4> QED BY <3>2, <4>1, <4>2 DEF Said
    <3>5. CASE m \in ToSet(offered)
      <4>1. m.type = "offer" /\ Fresh(m.task)
        BY <1>4, <3>5
      <4>2. ~ Said("offer", m.task)
        BY <3>3, <4>1 DEF OfferInv, Unmade, Fresh
      <4> QED BY <3>2, <4>1, <4>2 DEF Said
    <3> QED BY <1>5, <3>4, <3>5
  <2>6. \A m \in ToSet(msgs) :
           RunnerOf(m.task) = r /\ (m \in ToSet(toBroker[r]) => m.type = "declined")
    BY <1>7, <2>5
  <2> QED BY <1>2, <1>5, <1>6, <1>7, <2>2, <2>3, <2>4, <2>6, SayerKeeps
<1> QED BY <1>10, <1>11, <1>12, <1>13, <1>14, <1>15, <1>16, Framed

\* What a runner says when it says nothing.
LEMMA NothingSaid ==
    <<>> \in Seq(RunnerMessage) /\ ToSet(<<>>) = {} /\ SaidOnce(<<>>)
<1>1. Len(<<>>) = 0 /\ 1..0 = {} /\ <<>> \in Seq(RunnerMessage)
  BY EmptySeq
<1> QED BY <1>1, EmptyHasNone DEF SaidOnce

\* The interval.
LEMMA OfferIntervalKeeps ==
    ASSUME BrokerInv, NEW r \in Runners, OfferInterval(r)
    PROVE  BrokerInv'
<1>1. /\ proc[r] = "serving" /\ SendOffers(r, <<>>, RunningTasks(r))
      /\ UNCHANGED <<external, launchers, known, draining, requests, busy, offers, accepting,
                     tasks, armed, reply, taskOf, proc, status, toRunner>>
  BY DEF OfferInterval, brokerVars, config, requesterVars
<1>2. RunningTasks(r) \ {} = RunningTasks(r)
  OBVIOUS
<1>3. TypeOK
  BY DEF BrokerInv
<1>4. \A o \in Offers : /\ Ordered("settings", o)' <=> Ordered("settings", o)
                        /\ Ordered("cancel", o)' <=> Ordered("cancel", o)
  BY <1>1 DEF Ordered
<1>5. /\ SendOffers(r, <<>>, RunningTasks(r) \ {})
      /\ status' \in [Offers -> {"none", "waitingForSettings", "running",
                                 "cancelled", "timeout"}]
      /\ \A o \in Offers : status'[o] = IF o \in {} THEN "none" ELSE status[o]
      /\ toRunner' \in [Runners -> Seq(BrokerMessage)]
      /\ \A s \in Runners : OwnOrders(s, toRunner'[s])
  BY <1>1, <1>2, <1>3, SameOrders DEF TypeOK
<1> DEFINE ended == {}
<1>6. ended \subseteq OffersOf(r) /\ \A o : o \notin ended
  OBVIOUS
<1>7. /\ SendOffers(r, <<>>, RunningTasks(r) \ ended)
      /\ \A o \in Offers : status'[o] = IF o \in ended THEN "none" ELSE status[o]
  BY <1>5
<1> HIDE DEF ended
<1> QED BY <1>1, <1>4, <1>5, <1>6, <1>7, NothingSaid, SendKeeps

\* A task that is over is not on the books of a runner that starts or is gone.
LEMMA TaskAlive ==
    ASSUME BrokerInv, NEW o \in Offers, status[o] # "none"
    PROVE  RunnerOf(o) \in Runners /\ proc[RunnerOf(o)] \notin {"starting", "gone"}
BY OfferIs DEF BrokerInv, RunnerInv, IdleOutside, OffersOf

\* A task ends at its runner without an order.
LEMMA EndKeeps ==
    ASSUME BrokerInv, NEW o \in Offers, status[o] # "none",
           NEW first,
           \/ first = <<>> /\ o \notin tasks /\ ~ Said("accepted", o)
           \/ first = <<Message("finished", o)>>,
           status' = [status EXCEPT ![o] = "none"],
           SendOffers(RunnerOf(o), first, RunningTasks(RunnerOf(o)) \ {o}),
           UNCHANGED <<external, launchers, known, draining, requests, busy, offers, accepting,
                       tasks, armed, reply, taskOf, proc, toRunner>>
    PROVE  BrokerInv'
<1> DEFINE r == RunnerOf(o)
           ended == {o}
<1>1. r \in Runners /\ proc[r] \notin {"starting", "gone"} /\ TypeOK
  BY TaskAlive DEF BrokerInv
<1>2. ended \subseteq OffersOf(r) /\ \A p : p \in ended <=> p = o
  BY DEF OffersOf
<1>3. /\ first \in Seq(RunnerMessage) /\ SaidOnce(first)
      /\ \A m \in ToSet(first) : m.type = "finished" /\ m.task \in ended
      /\ Message("finished", o) \in ToSet(first) \/ (o \notin tasks /\ ~ Said("accepted", o))
  <2>1. CASE first = <<>> /\ o \notin tasks /\ ~ Said("accepted", o)
    BY <2>1, NothingSaid
  <2>2. CASE first = <<Message("finished", o)>>
    <3> DEFINE m == Message("finished", o)
    <3>1. m \in RunnerMessage /\ m.type = "finished" /\ m.task = o
      BY DEF Message, RunnerMessage
    <3> HIDE DEF m
    <3>2. first \in Seq(RunnerMessage) /\ ToSet(first) = {m} /\ SaidOnce(first)
      BY <2>2, <3>1, OneSaid DEF m
    <3>3. m \in ToSet(first)
      BY <3>2
    <3> QED BY <3>1, <3>2, <3>3 DEF m
  <2> QED BY <2>1, <2>2
<1>4. /\ status' \in [Offers -> {"none", "waitingForSettings", "running",
                                 "cancelled", "timeout"}]
      /\ \A p \in Offers : status'[p] = IF p \in ended THEN "none" ELSE status[p]
      /\ toRunner' \in [Runners -> Seq(BrokerMessage)]
      /\ \A s \in Runners : OwnOrders(s, toRunner'[s])
  BY <1>1, SameOrders DEF TypeOK
<1>5. \A p \in Offers : /\ Ordered("settings", p)' <=> Ordered("settings", p)
                        /\ Ordered("cancel", p)' <=> Ordered("cancel", p)
  BY DEF Ordered
<1>6. SendOffers(r, first, RunningTasks(r) \ ended)
  OBVIOUS
<1>7. \A p \in ended :
         /\ status[p] # "none"
         /\ \/ Message("finished", p) \in ToSet(first)
            \/ p \notin tasks /\ ~ Said("accepted", p)
  BY <1>2, <1>3
<1> HIDE DEF r, ended
<1> QED BY <1>1, <1>2, <1>3, <1>4, <1>5, <1>6, <1>7, SendKeeps

\* The code ends: an aborted one says nothing, and nothing waits for it.
LEMMA ExecutionEndsKeeps ==
    ASSUME BrokerInv, NEW o \in Offers, ExecutionEnds(o)
    PROVE  BrokerInv'
<1> DEFINE first == IF status[o] = "cancelled" THEN <<>> ELSE <<Message("finished", o)>>
<1>1. /\ status[o] # "none"
      /\ status[o] \in {"running", "cancelled", "timeout"}
      /\ status' = [status EXCEPT ![o] = "none"]
      /\ SendOffers(RunnerOf(o), first, RunningTasks(RunnerOf(o)) \ {o})
      /\ UNCHANGED <<external, launchers, known, draining, requests, busy, offers, accepting,
                     tasks, armed, reply, taskOf, proc, toRunner>>
  BY DEF ExecutionEnds, Message, brokerVars, config, requesterVars
<1>2. status[o] = "cancelled" => o \notin tasks /\ ~ Said("accepted", o)
  BY DEF BrokerInv, OfferInv, ForgottenFirst, Unheard
<1>3. \/ first = <<>> /\ o \notin tasks /\ ~ Said("accepted", o)
      \/ first = <<Message("finished", o)>>
  BY <1>2
<1> HIDE DEF first
<1> QED BY <1>1, <1>3, EndKeeps

\* The runner's timer.
LEMMA TaskTimedOutKeeps ==
    ASSUME BrokerInv, NEW o \in Offers, TaskTimedOut(o)
    PROVE  BrokerInv'
<1>1. UNCHANGED <<external, launchers, known, draining, requests, busy, offers, accepting,
                  tasks, armed, reply, taskOf, proc, toRunner>>
  BY DEF TaskTimedOut, brokerVars, config, requesterVars
<1>2. CASE status[o] = "waitingForSettings" /\ WhenTimedOutWaiting(o)
  <2>1. /\ status[o] # "none"
        /\ status' = [status EXCEPT ![o] = "none"]
        /\ SendOffers(RunnerOf(o), <<Message("finished", o)>>, RunningTasks(RunnerOf(o)) \ {o})
    BY <1>2 DEF WhenTimedOutWaiting, Message
  <2> DEFINE first == <<Message("finished", o)>>
  <2>2. /\ first = <<Message("finished", o)>>
        /\ SendOffers(RunnerOf(o), first, RunningTasks(RunnerOf(o)) \ {o})
    BY <2>1
  <2> HIDE DEF first
  <2> QED BY <1>1, <2>1, <2>2, EndKeeps
<1>3. CASE /\ status[o] = "running"
           /\ status' = [status EXCEPT ![o] = "timeout"]
           /\ UNCHANGED <<open, sent, toBroker>>
  <2>1. TypeOK /\ OfferInv(o)
    BY DEF BrokerInv
  <2>2. /\ \A p \in Offers \ {o} : status'[p] = status[p]
        /\ status'[o] = "timeout"
        /\ status' \in [Offers -> {"none", "waitingForSettings", "running",
                                   "cancelled", "timeout"}]
    BY <1>3, <2>1 DEF TypeOK
  <2>3. TypeOK'
    BY <1>1, <1>3, <2>1, <2>2 DEF TypeOK
  <2>4. AskedOnce(accepting', busy') /\ QueuedOnce'
    BY <1>1 DEF BrokerInv, QueuedOnce
  <2>5. ASSUME NEW p \in Offers, p # o PROVE Stays(p)
    <3>1. sent'[RunnerOf(p)] >= sent[RunnerOf(p)]
      BY <1>3, SentSame
    <3> QED BY <1>1, <1>3, <2>2, <2>5, <3>1 DEF Stays, Said, Ordered
  <2>6. OfferInv(o)'
    <3>1. /\ \A type : Said(type, o)' <=> Said(type, o)
          /\ \A type : Ordered(type, o)' <=> Ordered(type, o)
      BY <1>1, <1>3 DEF Said, Ordered
    <3>2. /\ ~ Said("accepted", o) /\ ~ Said("finished", o)
          /\ o \notin open[RunnerOf(o)] /\ ~ (Serial(o) > sent[RunnerOf(o)])
      BY <1>3, <2>1 DEF OfferInv, Unheard, OverAtRunner, Untouched, Unmade
    <3>3. Unmade(o)' /\ Untouched(o)'
      BY <1>3, <3>2 DEF Unmade, Untouched, Serial
    <3>4. Arriving(o)' /\ OverAtRunner(o)' /\ Unheard(o)'
      BY <1>1, <2>1, <3>1, <3>2 DEF OfferInv, Arriving, OverAtRunner, Unheard
    <3>5. ForgottenFirst(o)' /\ Remembered(o)' /\ Occupies(o)'
      BY <1>1, <2>1, <2>2, <3>1 DEF OfferInv, ForgottenFirst, Remembered, Occupies
    <3> QED BY <3>3, <3>4, <3>5 DEF OfferInv
  <2>7. ASSUME NEW s \in Runners PROVE RunnerStays(s)
    <3>1. \A p \in OffersOf(s) : status'[p] # "none" => status[p] # "none"
      BY <1>3, <2>2 DEF OffersOf
    <3>2. OwnOrders(s, toRunner'[s])
      BY <1>1, SameOrders
    <3> QED BY <1>1, <1>3, <3>1, <3>2 DEF RunnerStays
  <2> QED BY <2>3, <2>4, <2>5, <2>6, <2>7, Framed
<1> QED BY <1>2, <1>3 DEF TaskTimedOut

\* The broker orders a task to be cancelled: whatever the runner makes of it, the
\* broker has forgotten the task.
LEMMA TaskCancelledKeeps ==
    ASSUME BrokerInv, NEW r \in Runners, TaskCancelled(r)
    PROVE  BrokerInv'
<1>1. PICK o \in OffersOf(r) : o = Head(toRunner[r]).task
  BY Got DEF TaskCancelled, Orders
<1>2. /\ Gets(r, "cancel")
      /\ UNCHANGED <<external, launchers, known, draining, requests, busy, offers, accepting,
                     tasks, armed, reply, taskOf, proc>>
      /\ \/ /\ status[o] = "waitingForSettings"
            /\ status' = [status EXCEPT ![o] = "none"]
            /\ SendOffers(r, <<>>, RunningTasks(r) \ {o})
         \/ /\ status[o] = "running"
            /\ status' = [status EXCEPT ![o] = "cancelled"]
            /\ UNCHANGED <<open, sent, toBroker>>
         \/ /\ status[o] \notin {"waitingForSettings", "running"}
            /\ UNCHANGED <<status, open, sent, toBroker>>
  BY <1>1 DEF TaskCancelled, brokerVars, config, requesterVars
<1>3. /\ proc[r] # "gone" /\ proc[r] # "starting"
      /\ toRunner' \in [Runners -> Seq(BrokerMessage)]
      /\ \A s \in Runners \ {r} : toRunner'[s] = toRunner[s]
      /\ ToSet(toRunner[r]) = ToSet(toRunner'[r]) \cup {Head(toRunner[r])}
      /\ Head(toRunner[r]) = Message("cancel", o)
  BY <1>1, <1>2, Got DEF Orders
<1>4. /\ \A s \in Runners : OwnOrders(s, toRunner'[s])
      /\ \A p \in Offers : /\ Ordered("settings", p)' <=> Ordered("settings", p)
                           /\ Ordered("cancel", p)' => Ordered("cancel", p)
      /\ \A p \in Offers \ {o} : Ordered("cancel", p)' <=> Ordered("cancel", p)
  BY <1>1, <1>2, GotOthers
<1>5. /\ o \in Offers /\ RunnerOf(o) = r /\ OfferInv(o) /\ TypeOK
      /\ Ordered("cancel", o)
  BY <1>3 DEF OffersOf, Ordered, BrokerInv
<1>6. /\ o \notin tasks /\ ~ Said("accepted", o) /\ o \notin open[RunnerOf(o)]
      /\ ~ (Serial(o) > sent[RunnerOf(o)])
  BY <1>5 DEF OfferInv, ForgottenFirst, Unheard, Untouched, Unmade
<1>7. CASE /\ status[o] = "waitingForSettings"
           /\ status' = [status EXCEPT ![o] = "none"]
           /\ SendOffers(r, <<>>, RunningTasks(r) \ {o})
  <2> DEFINE ended == {o}
             first == <<>>
  <2>1. /\ ended \subseteq OffersOf(r) /\ SendOffers(r, first, RunningTasks(r) \ ended)
        /\ \A p : p \in ended <=> p = o
    BY <1>7
  <2>2. first \in Seq(RunnerMessage) /\ SaidOnce(first) /\ ToSet(first) = {}
    BY NothingSaid
  <2> HIDE DEF ended, first
  <2>3. /\ status' \in [Offers -> {"none", "waitingForSettings", "running",
                                   "cancelled", "timeout"}]
        /\ \A p \in Offers : status'[p] = IF p \in ended THEN "none" ELSE status[p]
    BY <1>5, <1>7, <2>1 DEF TypeOK
  <2>4. \A p \in ended : status[p] # "none" /\ p \notin tasks /\ ~ Said("accepted", p)
    BY <1>6, <1>7, <2>1
  <2>5. \A p \in Offers : p \notin ended /\ Ordered("cancel", p) => Ordered("cancel", p)'
    BY <1>4, <2>1
  <2> QED BY <1>2, <1>3, <1>4, <2>1, <2>2, <2>3, <2>4, <2>5, SendKeeps
<1>8. CASE /\ UNCHANGED <<open, sent, toBroker>>
           /\ \/ /\ status[o] = "running"
                 /\ status' = [status EXCEPT ![o] = "cancelled"]
              \/ /\ status[o] \notin {"waitingForSettings", "running"}
                 /\ UNCHANGED status
  <2>1. /\ \A p \in Offers \ {o} : status'[p] = status[p]
        /\ status'[o] # "none" <=> status[o] # "none"
        /\ status'[o] \notin {"waitingForSettings", "running"}
        /\ status' \in [Offers -> {"none", "waitingForSettings", "running",
                                   "cancelled", "timeout"}]
    BY <1>5, <1>8 DEF TypeOK
  <2>2. TypeOK'
    BY <1>2, <1>3, <1>5, <1>8, <2>1 DEF TypeOK
  <2>3. AskedOnce(accepting', busy') /\ QueuedOnce'
    BY <1>2 DEF BrokerInv, QueuedOnce
  <2>4. ASSUME NEW p \in Offers, p # o PROVE Stays(p)
    <3>1. sent'[RunnerOf(p)] >= sent[RunnerOf(p)]
      BY <1>8, SentSame
    <3> QED BY <1>2, <1>4, <1>8, <2>1, <2>4, <3>1 DEF Stays, Said
  <2>5. OfferInv(o)'
    <3>1. \A type : Said(type, o)' <=> Said(type, o)
      BY <1>8 DEF Said
    <3>2. Unmade(o)' /\ Untouched(o)'
      BY <1>6, <1>8 DEF Unmade, Untouched, Serial
    <3>3. Arriving(o)' /\ OverAtRunner(o)' /\ Unheard(o)'
      BY <1>2, <1>5, <1>6, <2>1, <3>1 DEF OfferInv, Arriving, OverAtRunner, Unheard
    <3>4. ForgottenFirst(o)' /\ Remembered(o)' /\ Occupies(o)'
      BY <1>2, <1>6, <2>1, <3>1 DEF ForgottenFirst, Remembered, Occupies
    <3> QED BY <3>2, <3>3, <3>4 DEF OfferInv
  <2>6. ASSUME NEW s \in Runners PROVE RunnerStays(s)
    <3>1. \A p \in OffersOf(s) : status'[p] # "none" => status[p] # "none"
      BY <2>1 DEF OffersOf
    <3>2. proc[s] = "starting" => toRunner'[s] = toRunner[s]
      BY <1>3
    <3> QED BY <1>2, <1>4, <1>8, <3>1, <3>2 DEF RunnerStays
  <2> QED BY <2>2, <2>3, <2>4, <2>5, <2>6, Framed
<1> QED BY <1>2, <1>7, <1>8

\* The one offer of a launcher.
LEMMA LauncherOffersKeeps ==
    ASSUME BrokerInv, NEW r \in Runners, LauncherOffers(r)
    PROVE  BrokerInv'
<1> DEFINE o == <<r, 1>>
           m == Message("offer", o)
           msgs == <<m>>
<1>1. /\ proc[r] = "serving" /\ sent[r] = 0 /\ MaxOffers > 0
      /\ sent' = [sent EXCEPT ![r] = 1]
      /\ Say(r, msgs)
      /\ UNCHANGED <<external, launchers, known, draining, requests, busy, offers, accepting,
                     tasks, armed, reply, taskOf, proc, open, status, toRunner>>
  BY DEF LauncherOffers, Message, brokerVars, config, requesterVars
<1>2. o \in Offers /\ RunnerOf(o) = r /\ Serial(o) = 1
  BY <1>1, BrokerAssumption DEF Offers, RunnerOf, Serial
<1> HIDE DEF o
<1>3. m \in RunnerMessage /\ m.type = "offer" /\ m.task = o
  BY <1>2 DEF Message, RunnerMessage
<1>4. msgs \in Seq(RunnerMessage) /\ ToSet(msgs) = {m} /\ SaidOnce(msgs)
  <2> HIDE DEF m
  <2> QED BY <1>3, OneSaid
<1> HIDE DEF msgs
<1>5. TypeOK /\ RunnerInv(r) /\ OfferInv(o)
  BY <1>2 DEF BrokerInv
<1>6. /\ sent' \in [Runners -> 0..MaxOffers] /\ sent'[r] = 1
      /\ \A s \in Runners \ {r} : sent'[s] = sent[s]
      /\ \A s \in Runners : sent'[s] >= sent[s]
  <2>1. sent \in [Runners -> 0..MaxOffers] /\ 1 \in 0..MaxOffers
    BY <1>1, <1>5, BrokerAssumption DEF TypeOK
  <2>2. \A s \in Runners : sent[s] \in Nat
    BY <2>1, BrokerAssumption
  <2> QED BY <1>1, <2>1, <2>2
<1>7. /\ toBroker' \in [Runners -> Seq(RunnerMessage)]
      /\ \A s \in Runners \ {r} : toBroker'[s] = toBroker[s]
      /\ \A type : \A p \in Offers :
            /\ Said(type, p) => Said(type, p)'
            /\ Said(type, p)' => Said(type, p) \/ Message(type, p) \in ToSet(msgs)
  BY <1>1, <1>4, Saying
<1>8. \A p \in Offers : /\ p # o => (Said("offer", p)' <=> Said("offer", p))
                        /\ Said("accepted", p)' <=> Said("accepted", p)
                        /\ Said("finished", p)' <=> Said("finished", p)
  <2>1. \A p : \A type \in {"accepted", "finished"} : Message(type, p) # m
    BY Messages
  <2>2. \A p : p # o => Message("offer", p) # m
    BY Messages
  <2> HIDE DEF m
  <2> QED BY <1>4, <1>7, <2>1, <2>2
<1>9. \A p \in Offers : /\ Ordered("settings", p)' <=> Ordered("settings", p)
                        /\ Ordered("cancel", p)' <=> Ordered("cancel", p)
  BY <1>1 DEF Ordered
<1>10. TypeOK'
  BY <1>1, <1>5, <1>6, <1>7 DEF TypeOK
<1>11. AskedOnce(accepting', busy') /\ QueuedOnce'
  BY <1>1 DEF BrokerInv, QueuedOnce
<1>12. ASSUME NEW p \in Offers, p # o PROVE Stays(p)
  <2>1. RunnerOf(p) \in Runners
    BY OfferIs
  <2> QED BY <1>1, <1>6, <1>8, <1>9, <1>12, <2>1 DEF Stays
<1>13. OfferInv(o)'
  <2>1. Serial(o) > sent[RunnerOf(o)] /\ ~ (Serial(o) > sent'[RunnerOf(o)])
    BY <1>1, <1>2, <1>6
  <2> QED BY <1>1, <1>2, <1>5, <1>8, <1>9, <2>1, FreshKeeps
<1>14. ASSUME NEW s \in Runners, s # r PROVE RunnerStays(s)
  BY <1>1, <1>7, <1>14, OtherRunners
<1>15. RunnerInv(r)'
  <2>1. open'[r] \subseteq OffersOf(r) /\ OwnOrders(r, toRunner'[r])
    BY <1>1, <1>5, SameOrders DEF RunnerInv, OwnMessages
  <2>2. SlotsKept(r)'
    <3>1. RunningTasks(r)' = RunningTasks(r)
      BY <1>1 DEF RunningTasks
    <3> QED BY <1>1, <1>5, <3>1 DEF RunnerInv, SlotsKept
  <2>3. Within(r, toBroker[r] \o msgs, tasks)
    <3>1. toBroker[r] \in Seq(RunnerMessage) /\ Within(r, toBroker[r], tasks)
      BY <1>5 DEF TypeOK, RunnerInv
    <3>2. \A n \in ToSet(msgs) : n.type # "accepted"
      BY <1>3, <1>4
    <3> QED BY <1>4, <3>1, <3>2, WithinQuiet
  <2>4. \A p \in Offers : Message("accepted", p) \notin ToSet(msgs)
    BY <1>4, Messages
  <2>5. \A n \in ToSet(msgs) : RunnerOf(n.task) = r /\ n \notin ToSet(toBroker[r])
    <3>1. ~ Said("offer", o)
      <4>1. Serial(o) > sent[RunnerOf(o)]
        BY <1>1, <1>2
      <4> QED BY <1>5, <4>1 DEF OfferInv, Unmade
    <3> QED BY <1>2, <1>3, <1>4, <3>1 DEF Said
  <2> QED BY <1>1, <1>4, <2>1, <2>2, <2>3, <2>4, <2>5, SayerKeeps
<1> QED BY <1>10, <1>11, <1>12, <1>13, <1>14, <1>15, Framed

-----------------------------------------------------------------------------
(* The theorems.                                                           *)

\* Nothing has happened yet.
LEMMA BrokerStarts ==
    ASSUME Init
    PROVE  BrokerInv
<1>1. TypeOK
  <2>1. <<>> \in Seq(Requests) /\ <<>> \in Seq(Offers) /\ IsInjective(<<>>)
        /\ <<>> \in Seq(BrokerMessage) /\ <<>> \in Seq(RunnerMessage)
    BY EmptySeq, EmptyHasNone
  <2>2. 0 \in 0..MaxOffers
    BY BrokerAssumption
  <2>3. launchers \subseteq Runners /\ external \in BOOLEAN
    BY DEF Init
  <2> QED BY <2>1, <2>2, <2>3 DEF Init, TypeOK
<1>2. AskedOnce(accepting, busy)
  BY DEF Init, AskedOnce
<1>3. QueuedOnce
  BY EmptyHasNone DEF Init, QueuedOnce
<1>4. ASSUME NEW o \in Offers PROVE OfferInv(o)
  <2>1. RunnerOf(o) \in Runners
    BY OfferIs
  <2>2. \A type : ~ Said(type, o) /\ ~ Ordered(type, o)
    BY <2>1, EmptyHasNone DEF Init, Said, Ordered
  <2>3. /\ status[o] = "none" /\ o \notin tasks /\ o \notin open[RunnerOf(o)]
        /\ o \notin ToSet(offers)
    BY <2>1, EmptyHasNone DEF Init
  <2>4. Unmade(o) /\ Arriving(o) /\ Untouched(o) /\ OverAtRunner(o)
    BY <2>2, <2>3 DEF Unmade, Arriving, Untouched, OverAtRunner
  <2>5. Unheard(o) /\ ForgottenFirst(o) /\ Remembered(o) /\ Occupies(o)
    BY <2>2, <2>3 DEF Unheard, ForgottenFirst, Remembered, Occupies
  <2> QED BY <2>4, <2>5 DEF OfferInv
<1>5. ASSUME NEW r \in Runners PROVE RunnerInv(r)
  <2>1. /\ toBroker[r] = <<>> /\ toRunner[r] = <<>> /\ open[r] = {}
        /\ r \notin known /\ tasks = {} /\ offers = <<>>
        /\ \A o \in Offers : status[o] = "none"
    BY DEF Init
  <2>2. OwnMessages(r)
    BY <2>1, EmptyHasNone DEF OwnMessages, OwnOrders
  <2>3. UnknownIsGone(r) /\ IdleOutside(r)
    BY <2>1, EmptyHasNone DEF UnknownIsGone, IdleOutside, OffersOf
  <2>4. SlotsKept(r)
    <3>1. RunningTasks(r) = {}
      BY <2>1 DEF RunningTasks
    <3> QED BY <2>1, <3>1, FS_EmptySet, BrokerAssumption DEF SlotsKept
  <2>5. Within(r, toBroker[r], tasks) /\ SaidOnce(toBroker[r])
    BY <2>1, WithinEmpty
  <2> QED BY <2>2, <2>3, <2>4, <2>5 DEF RunnerInv
<1> QED BY <1>1, <1>2, <1>3, <1>4, <1>5 DEF BrokerInv

\* Every step keeps the invariant.
LEMMA BrokerKeeps ==
    ASSUME BrokerInv, [Next]_vars
    PROVE  BrokerInv'
<1>1. CASE UNCHANGED vars
  <2>1. UNCHANGED <<external, launchers, known, draining, requests, busy, offers, accepting,
                    tasks, armed, reply, taskOf, proc, open, status, sent, toRunner, toBroker>>
    BY <1>1 DEF vars, brokerVars, config, requesterVars, runnerVars
  <2>2. TypeOK'
    BY <2>1 DEF BrokerInv, TypeOK
  <2>3. AskedOnce(accepting', busy') /\ QueuedOnce'
    BY <2>1 DEF BrokerInv, QueuedOnce
  <2>4. \A o \in Offers : Stays(o)
    BY <2>1, NothingToOffer
  <2>5. \A r \in Runners : RunnerStays(r)
    BY <2>1, NothingToRunner, SameOrders
  <2> QED BY <2>2, <2>3, <2>4, <2>5, Framed
<1>2. ASSUME NEW q \in Requests, TaskRequested(q) \/ RequestTimesOut(q) \/ CancelTask(q)
      PROVE  BrokerInv'
  BY <1>2, TaskRequestedKeeps, RequestTimesOutKeeps, CancelTaskKeeps
<1>3. ASSUME NEW o \in Offers,
             AcceptTimesOut(o) \/ TaskTimesOut(o) \/ TaskTimedOut(o) \/ ExecutionEnds(o)
      PROVE  BrokerInv'
  BY <1>3, AcceptTimesOutKeeps, TaskTimesOutKeeps, TaskTimedOutKeeps, ExecutionEndsKeeps
<1>4. ASSUME NEW r \in Runners, NEW o \in Offers,
             \/ TaskOffered(r, o) \/ RunnerAccepted(r, o)
             \/ RunnerDeclined(r, o) \/ TaskFinished(r, o)
      PROVE  BrokerInv'
  BY <1>4, TaskOfferedKeeps, RunnerAcceptedKeeps, RunnerDeclinedKeeps, TaskFinishedKeeps
<1>5. ASSUME NEW r \in Runners, RunnerGets(r) PROVE BrokerInv'
  BY <1>5, ReceiveModeKeeps, OfferAcceptedKeeps, ReceiveSettingsKeeps, TaskCancelledKeeps,
     LauncherDefersKeeps
     DEF RunnerGets
<1>6. ASSUME NEW r \in Runners,
             \/ RegisterRunner(r) \/ DeregisterRunner(r) \/ OfferInterval(r)
             \/ LauncherOffers(r) \/ StopRunner(r) \/ RunnerExits(r)
      PROVE  BrokerInv'
  BY <1>6, RegisterRunnerKeeps, DeregisterRunnerKeeps, OfferIntervalKeeps,
     LauncherOffersKeeps, StopRunnerKeeps, RunnerExitsKeeps
<1>7. ASSUME StartDraining PROVE BrokerInv'
  BY <1>7, StartDrainingKeeps
<1> QED BY <1>1, <1>2, <1>3, <1>4, <1>5, <1>6, <1>7 DEF Next, BrokerHears

\* The invariant holds in every state.
THEOREM BrokerInvariant == Spec => []BrokerInv
<1>1. Init => BrokerInv
  BY BrokerStarts
<1>2. BrokerInv /\ [Next]_vars => BrokerInv'
  BY BrokerKeeps
<1> QED BY <1>1, <1>2, PTL DEF Spec

\* The variables have their types.
THEOREM TypesHold == Spec => []TypeOK
<1>1. BrokerInv => TypeOK
  BY DEF BrokerInv
<1> QED BY <1>1, BrokerInvariant, PTL

\* No two runners are asked to take the same request.
THEOREM OneAccept == Spec => []OneAcceptPerRequest
<1>1. BrokerInv => OneAcceptPerRequest
  BY DEF BrokerInv, AskedOnce, OneAcceptPerRequest
<1> QED BY <1>1, BrokerInvariant, PTL

\* The broker counts no more tasks on a runner than it takes.
THEOREM CapacityKept == Spec => []BrokerWithinCapacity
<1>1. BrokerInv => BrokerWithinCapacity
  <2> SUFFICES ASSUME BrokerInv, NEW r \in Runners
               PROVE  Cardinality({o \in tasks : RunnerOf(o) = r}) <= MaxConcurrency
    BY DEF BrokerWithinCapacity
  <2>1. /\ Within(r, toBroker[r], tasks) /\ toBroker[r] \in Seq(RunnerMessage)
        /\ tasks \subseteq Offers
    BY DEF BrokerInv, RunnerInv, TypeOK
  <2>2. 0 \in 0..Len(toBroker[r]) /\ 1..0 = {}
    BY <2>1, LenProperties
  <2>3. Counted(r, toBroker[r], tasks, 0) = {o \in tasks : RunnerOf(o) = r}
    BY <2>1, <2>2 DEF Counted, OffersOf
  <2>4. Cardinality(Counted(r, toBroker[r], tasks, 0)) <= MaxConcurrency
    BY <2>1, <2>2 DEF Within
  <2> QED BY <2>3, <2>4
<1> QED BY <1>1, BrokerInvariant, PTL

\* Code that runs on a connected runner is a task of the broker, or is about to
\* be cancelled.
THEOREM NothingForgotten == Spec => []NoForgottenExecution
<1>1. BrokerInv => NoForgottenExecution
  <2> SUFFICES ASSUME BrokerInv, NEW o \in Offers, status[o] = "running",
                      RunnerOf(o) \in known, o \notin tasks
               PROVE  [type |-> "cancel", task |-> o] \in ToSet(toRunner[RunnerOf(o)])
    BY DEF NoForgottenExecution
  <2>1. Ordered("cancel", o)
    BY DEF BrokerInv, OfferInv, Remembered
  <2> QED BY <2>1 DEF Ordered, Message
<1> QED BY <1>1, BrokerInvariant, PTL
=============================================================================
