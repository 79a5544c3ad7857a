----------------------------- MODULE RulesProofs -----------------------------
(***************************************************************************)
(* Lemmas about walks, and about the rules that walk up inReplyTo.  The    *)
(* library states induction for an operator the provers cannot             *)
(* instantiate; the least of the numbers at which a claim fails does its   *)
(* work.                                                                   *)
(***************************************************************************)
EXTENDS Rules, TLAPS, FiniteSetTheorems, WellFoundedInduction

\* Some number of a set is the least, since < is well founded on Nat.
LEMMA Least ==
    ASSUME NEW T \in SUBSET Nat, T # {}
    PROVE  \E m \in T : \A n \in T : m <= n
  <1>1. PICK m \in T : \A n \in T : ~ (<<n, m>> \in OpToRel(<, Nat))
    BY NatLessThanWellFounded, WFMin
  <1>2. \A n \in T : ~ (n < m)
    BY <1>1 DEF OpToRel
  <1> QED  BY <1>2

\* What holds at k, and at i + 1 when it holds at i, holds up to any n.
LEMMA Climbing ==
    ASSUME NEW k \in Nat, NEW n \in Nat, NEW T \in SUBSET Nat, k \in T,
           \A i \in k .. n - 1 : i \in T => i + 1 \in T
    PROVE  k .. n \subseteq T
  <1> DEFINE Missed == (k .. n) \ T
  <1> SUFFICES ASSUME Missed # {} PROVE FALSE
    OBVIOUS
  <1>1. Missed \in SUBSET Nat
    OBVIOUS
  <1>2. PICK j \in Missed : \A i \in Missed : j <= i
    <2> HIDE DEF Missed
    <2> QED  BY <1>1, Least
  <1>3. j \in k .. n /\ j # k /\ j \notin T
    BY <1>2
  <1>4. j - 1 \in k .. n - 1 /\ j - 1 \in k .. n /\ j - 1 < j
    BY <1>3
  <1>5. j - 1 \in T
    BY <1>2, <1>4
  <1>6. (j - 1) + 1 \in T
    BY <1>4, <1>5
  <1> QED  BY <1>3, <1>6

\* What has a rank, and is true of a thing when it is true of all that rank
\* lower, is true of all.
LEMMA Descending ==
    ASSUME NEW S, NEW rank \in [S -> Nat], NEW T \in SUBSET S,
           \A m \in S : (\A n \in S : rank[n] < rank[m] => n \in T) => m \in T
    PROVE  T = S
  <1> DEFINE Ranks == {rank[m] : m \in S \ T}
  <1> SUFFICES ASSUME S \ T # {} PROVE FALSE
    OBVIOUS
  <1>1. Ranks \in SUBSET Nat /\ Ranks # {}
    OBVIOUS
  <1>2. PICK k \in Ranks : \A i \in Ranks : k <= i
    <2> HIDE DEF Ranks
    <2> QED  BY <1>1, Least
  <1>3. PICK m \in S \ T : rank[m] = k
    BY <1>2
  <1>4. ASSUME NEW n \in S, rank[n] < rank[m] PROVE n \in T
    <2>1. rank[n] \in Nat /\ rank[m] \in Nat
      OBVIOUS
    <2>2. n \in S \ T => rank[n] \in Ranks
      OBVIOUS
    <2> HIDE DEF Ranks
    <2> QED  BY <1>2, <1>3, <1>4, <2>1, <2>2
  <1> QED  BY <1>3, <1>4

-----------------------------------------------------------------------------
(* Walks *)

\* The first n steps of a walk from id, each to the next of the last.
IsWalk(next, id, n, f) ==
    f = [i \in 0 .. n |-> IF i = 0 THEN id ELSE next[f[i - 1]]]

LEMMA WalkExists ==
    ASSUME NEW next, NEW id, NEW n \in Nat
    PROVE  \E f : IsWalk(next, id, n, f)
  <1> DEFINE T == {i \in Nat : \E f : IsWalk(next, id, i, f)}
  <1>1. 0 \in T
    <2> DEFINE f == [i \in 0 .. 0 |-> id]
    <2>1. f = [i \in 0 .. 0 |-> IF i = 0 THEN id ELSE next[f[i - 1]]]
      OBVIOUS
    <2>2. IsWalk(next, id, 0, f)
      BY <2>1 DEF IsWalk
    <2> QED  BY <2>2
  <1>2. ASSUME NEW i \in 0 .. n - 1, i \in T PROVE i + 1 \in T
    <2>1. PICK f : IsWalk(next, id, i, f)
      BY <1>2
    <2> DEFINE g == [j \in 0 .. i + 1 |-> IF j = i + 1 THEN next[f[i]] ELSE f[j]]
    <2>2. ASSUME NEW j \in 0 .. i + 1
          PROVE  g[j] = IF j = 0 THEN id ELSE next[g[j - 1]]
      <3>1. \A l \in 0 .. i : g[l] = f[l]
        OBVIOUS
      <3>2. CASE j = i + 1
        BY <3>1, <3>2
      <3>3. CASE j \in 0 .. i
        <4>1. f[j] = IF j = 0 THEN id ELSE next[f[j - 1]]
          BY <2>1, <3>3 DEF IsWalk
        <4>2. j # 0 => j - 1 \in 0 .. i
          BY <3>3
        <4> QED  BY <3>1, <3>3, <4>1, <4>2
      <3> QED  BY <3>2, <3>3
    <2>3. g = [j \in 0 .. i + 1 |-> IF j = 0 THEN id ELSE next[g[j - 1]]]
      <3>1. DOMAIN g = 0 .. i + 1
        OBVIOUS
      <3>2. g = [j \in 0 .. i + 1 |-> g[j]]
        OBVIOUS
      <3> HIDE DEF g
      <3> QED  BY <2>2, <3>2
    <2>4. IsWalk(next, id, i + 1, g)
      BY <2>3 DEF IsWalk
    <2> QED  BY <2>4
  <1>3. T \in SUBSET Nat
    OBVIOUS
  <1>4. 0 .. n \subseteq T
    <2> HIDE DEF T
    <2> QED  BY <1>1, <1>2, <1>3, Climbing
  <1> QED  BY <1>4

StaysIn(next, S) == \A m \in S : next[m] \in S

\* A walk stays where all the nexts stay.
LEMMA WalkStays ==
    ASSUME NEW S, NEW next, NEW id \in S, StaysIn(next, S),
           NEW n \in Nat, NEW f, IsWalk(next, id, n, f)
    PROVE  /\ f[0] = id
           /\ f \in [0 .. n -> S]
           /\ \A i \in 0 .. n - 1 : f[i + 1] = next[f[i]]
  <1>1. DOMAIN f = 0 .. n /\ f[0] = id
    BY DEF IsWalk
  <1>2. ASSUME NEW i \in 0 .. n - 1 PROVE f[i + 1] = next[f[i]]
    <2>1. i + 1 \in 0 .. n /\ i + 1 # 0 /\ (i + 1) - 1 = i
      OBVIOUS
    <2>2. f[i + 1] = next[f[(i + 1) - 1]]
      BY <2>1 DEF IsWalk
    <2> QED  BY <2>1, <2>2
  <1> DEFINE T == {i \in 0 .. n : f[i] \in S}
  <1>3. 0 \in T
    BY <1>1
  <1>4. ASSUME NEW i \in 0 .. n - 1, i \in T PROVE i + 1 \in T
    <2>1. f[i + 1] \in S
      BY <1>2, <1>4 DEF StaysIn
    <2> QED  BY <2>1
  <1>5. 0 .. n \subseteq T
    <2>1. T \in SUBSET Nat
      OBVIOUS
    <2> HIDE DEF T
    <2> QED  BY <1>3, <1>4, <2>1, Climbing
  <1>6. f = [i \in 0 .. n |-> f[i]]
    BY DEF IsWalk
  <1> QED  BY <1>1, <1>2, <1>5, <1>6

\* A rank that falls with every step that goes anywhere: no walk has a cycle.
Descends(next, S, rank) ==
    /\ next \in [S -> S] /\ rank \in [S -> Nat]
    /\ \A m \in S : next[m] # m => rank[next[m]] < rank[m]

\* A walk of as many steps as there are places has stopped.
LEMMA WalkEnds ==
    ASSUME NEW S, IsFiniteSet(S), NEW next, NEW rank, Descends(next, S, rank),
           NEW id \in S, NEW f, IsWalk(next, id, Cardinality(S), f)
    PROVE  f[Cardinality(S)] \in S /\ next[f[Cardinality(S)]] = f[Cardinality(S)]
  <1> DEFINE n == Cardinality(S)
  <1>1. n \in Nat
    BY FS_CardinalityType
  <1>2. /\ f \in [0 .. n -> S]
        /\ \A i \in 0 .. n - 1 : f[i + 1] = next[f[i]]
    <2>1. StaysIn(next, S)
      BY DEF Descends, StaysIn
    <2> QED  BY <1>1, <2>1, WalkStays
  <1>0. IsFiniteSet(0 .. n) /\ Cardinality(0 .. n) = n + 1
    <2>1. Cardinality(0 .. n) = (n - 0) + 1
      BY <1>1, FS_Interval
    <2> QED  BY <1>1, <2>1, FS_Interval
  <1>9. Cardinality(S) < Cardinality(0 .. n)
    BY <1>0, <1>1
  <1> HIDE DEF n
  <1> SUFFICES ASSUME next[f[n]] # f[n] PROVE FALSE
    BY <1>1, <1>2 DEF n
  \* Once the walk stays put, it stays put for good.
  <1>3. ASSUME NEW i \in 0 .. n PROVE next[f[i]] # f[i]
    <2> SUFFICES ASSUME next[f[i]] = f[i] PROVE FALSE
      OBVIOUS
    <2> DEFINE T == {j \in i .. n : f[j] = f[i]}
    <2>1. i \in T
      BY <1>1
    <2>2. ASSUME NEW j \in i .. n - 1, j \in T PROVE j + 1 \in T
      <3>1. f[j + 1] = next[f[j]] /\ j + 1 \in i .. n
        BY <1>1, <1>2
      <3>2. f[j] = f[i]
        BY <2>2
      <3> QED  BY <3>1, <3>2
    <2>3. i .. n \subseteq T
      <3>1. T \in SUBSET Nat
        BY <1>1
      <3> HIDE DEF T
      <3> QED  BY <1>1, <2>1, <2>2, <3>1, Climbing
    <2>4. n \in i .. n
      BY <1>1
    <2> QED  BY <2>3, <2>4
  <1>4. \A i \in 0 .. n - 1 : rank[f[i + 1]] < rank[f[i]]
    <2> SUFFICES ASSUME NEW i \in 0 .. n - 1 PROVE rank[f[i + 1]] < rank[f[i]]
      OBVIOUS
    <2>1. i \in 0 .. n /\ f[i] \in S /\ f[i + 1] = next[f[i]]
      BY <1>1, <1>2
    <2> QED  BY <1>3, <2>1 DEF Descends
  \* So no place is met twice, and there are not that many places.
  <1>5. ASSUME NEW i \in 0 .. n, NEW j \in 0 .. n, i < j PROVE f[i] # f[j]
    <2> DEFINE T == {k \in i + 1 .. n : rank[f[k]] < rank[f[i]]}
    <2>1. i + 1 \in T
      <3>1. i \in 0 .. n - 1 /\ i + 1 \in i + 1 .. n
        BY <1>1, <1>5
      <3> QED  BY <1>4, <3>1
    <2>2. ASSUME NEW k \in i + 1 .. n - 1, k \in T PROVE k + 1 \in T
      <3>1. k \in 0 .. n - 1 /\ k + 1 \in i + 1 .. n /\ k \in 0 .. n /\ k + 1 \in 0 .. n
        BY <1>1
      <3>2. rank[f[k + 1]] < rank[f[k]] /\ rank[f[k]] < rank[f[i]]
        BY <1>4, <2>2, <3>1
      <3>3. rank[f[k + 1]] \in Nat /\ rank[f[k]] \in Nat /\ rank[f[i]] \in Nat
        BY <1>2, <3>1 DEF Descends
      <3>4. rank[f[k + 1]] < rank[f[i]]
        BY <3>2, <3>3
      <3> QED  BY <3>1, <3>4
    <2>3. i + 1 .. n \subseteq T
      <3>1. T \in SUBSET Nat /\ i + 1 \in Nat
        BY <1>1
      <3> HIDE DEF T
      <3> QED  BY <1>1, <2>1, <2>2, <3>1, Climbing
    <2>4. j \in i + 1 .. n
      BY <1>1, <1>5
    <2>5. rank[f[j]] < rank[f[i]] /\ rank[f[i]] \in Nat
      <3>1. rank[f[j]] < rank[f[i]]
        BY <2>3, <2>4
      <3> QED  BY <1>2, <3>1 DEF Descends
    <2> QED  BY <2>5
  <1>7. PICK i \in 0 .. n, j \in 0 .. n : i # j /\ f[i] = f[j]
    <2>1. f \in [0 .. n -> S]
      BY <1>2
    <2> QED  BY <1>0, <1>9, <2>1, FS_PigeonHole
  <1>8. i < j \/ j < i
    BY <1>1, <1>7
  <1> QED  BY <1>5, <1>7, <1>8

\* And it has stopped where a walk from its second place stops.
LEMMA WalkFromNext ==
    ASSUME NEW S, IsFiniteSet(S), NEW next, NEW rank, Descends(next, S, rank),
           NEW id \in S, NEW n, n = Cardinality(S),
           NEW f, IsWalk(next, id, n, f), NEW g, IsWalk(next, next[id], n, g)
    PROVE  g[n] = f[n]
  <1>1. n \in Nat /\ next[id] \in S
    BY FS_CardinalityType DEF Descends
  <1>2. /\ f[0] = id /\ g[0] = next[id]
        /\ \A i \in 0 .. n - 1 : f[i + 1] = next[f[i]]
        /\ \A i \in 0 .. n - 1 : g[i + 1] = next[g[i]]
    <2>1. StaysIn(next, S)
      BY DEF Descends, StaysIn
    <2>2. f[0] = id /\ \A i \in 0 .. n - 1 : f[i + 1] = next[f[i]]
      BY <1>1, <2>1, WalkStays
    <2>3. g[0] = next[id] /\ \A i \in 0 .. n - 1 : g[i + 1] = next[g[i]]
      BY <1>1, <2>1, WalkStays
    <2> QED  BY <2>2, <2>3
  <1> DEFINE T == {i \in 0 .. n : g[i] = next[f[i]]}
  <1>3. 0 \in T
    BY <1>1, <1>2
  <1>4. ASSUME NEW i \in 0 .. n - 1, i \in T PROVE i + 1 \in T
    BY <1>1, <1>2, <1>4
  <1>5. 0 .. n \subseteq T
    <2>1. T \in SUBSET Nat
      OBVIOUS
    <2> HIDE DEF T
    <2> QED  BY <1>1, <1>3, <1>4, <2>1, Climbing
  <1>6. g[n] = next[f[n]]
    BY <1>1, <1>5
  <1> QED  BY <1>6, WalkEnds

\* A walk from a place that is its own next stays there.
LEMMA WalkAtEnd ==
    ASSUME NEW next, NEW id, next[id] = id, NEW n \in Nat, NEW f, IsWalk(next, id, n, f)
    PROVE  f[n] = id
  <1>1. StaysIn(next, {id})
    BY DEF StaysIn
  <1>2. f \in [0 .. n -> {id}]
    BY <1>1, WalkStays
  <1> QED  BY <1>2

-----------------------------------------------------------------------------
(* Threads *)

\* A rank that falls from every message to its stored parent: inReplyTo has
\* no cycle.
Falls(objs, rank) ==
    /\ rank \in [DOMAIN objs -> Nat]
    /\ \A m \in DOMAIN objs : objs[m].parent \in DOMAIN objs =>
                                 rank[objs[m].parent] < rank[m]

Ups(objs) == [m \in DOMAIN objs |-> Up(objs, m)]

LEMMA UpsDescend ==
    ASSUME NEW objs, NEW rank, Falls(objs, rank)
    PROVE  Descends(Ups(objs), DOMAIN objs, rank)
BY DEF Falls, Descends, Ups, Up

\* rules.thread_root is where the walk ends.
LEMMA RootIsWalked ==
    ASSUME NEW objs, IsFiniteSet(DOMAIN objs), NEW id \in DOMAIN objs,
           NEW f, IsWalk(Ups(objs), id, Cardinality(DOMAIN objs), f)
    PROVE  ThreadRoot(objs, id) = f[Cardinality(DOMAIN objs)]
  <1> DEFINE n == Cardinality(DOMAIN objs)
             Climbs(c) == c = [i \in 0 .. n |-> IF i = 0 THEN id ELSE Up(objs, c[i - 1])]
             climb == CHOOSE c : Climbs(c)
  <1>1. n \in Nat
    BY FS_CardinalityType
  <1>2. /\ f[0] = id /\ f \in [0 .. n -> DOMAIN objs]
        /\ \A i \in 0 .. n - 1 : f[i + 1] = Ups(objs)[f[i]]
    <2>1. StaysIn(Ups(objs), DOMAIN objs)
      BY DEF Ups, Up, StaysIn
    <2> QED  BY <1>1, <2>1, WalkStays
  <1>3. Climbs(f)
    <2>1. ASSUME NEW i \in 0 .. n PROVE f[i] = IF i = 0 THEN id ELSE Up(objs, f[i - 1])
      <3>1. i # 0 => f[(i - 1) + 1] = Ups(objs)[f[i - 1]] /\ f[i - 1] \in DOMAIN objs
        BY <1>1, <1>2
      <3> QED  BY <1>2, <3>1 DEF Ups
    <2>2. f = [i \in 0 .. n |-> f[i]]
      BY <1>2
    <2> QED  BY <2>1, <2>2
  <1>4. Climbs(climb)
    BY <1>3
  <1>5. climb[0] = id /\ \A i \in 0 .. n - 1 : climb[i + 1] = Up(objs, climb[i])
    <2> HIDE DEF climb
    <2>1. climb[0] = id
      BY <1>1, <1>4
    <2>2. ASSUME NEW i \in 0 .. n - 1 PROVE climb[i + 1] = Up(objs, climb[i])
      <3>1. i + 1 \in 0 .. n /\ i + 1 # 0 /\ (i + 1) - 1 = i
        BY <1>1
      <3>2. climb[i + 1] = Up(objs, climb[(i + 1) - 1])
        BY <1>4, <3>1
      <3> QED  BY <3>1, <3>2
    <2> QED  BY <2>1, <2>2
  <1> DEFINE T == {i \in 0 .. n : climb[i] = f[i]}
  <1>6. 0 \in T
    BY <1>1, <1>2, <1>5
  <1>7. ASSUME NEW i \in 0 .. n - 1, i \in T PROVE i + 1 \in T
    <2> HIDE DEF climb
    <2>1. f[i + 1] = Up(objs, f[i]) /\ climb[i + 1] = Up(objs, climb[i]) /\ i + 1 \in 0 .. n
      BY <1>1, <1>2, <1>5 DEF Ups
    <2> QED  BY <1>7, <2>1
  <1>8. 0 .. n \subseteq T
    <2>1. T \in SUBSET Nat
      OBVIOUS
    <2> HIDE DEF T
    <2> QED  BY <1>1, <1>6, <1>7, <2>1, Climbing
  <1>9. climb[n] = f[n]
    BY <1>1, <1>8
  <1> QED  BY <1>9 DEF ThreadRoot

\* A thread has a stored beginning, with no stored parent.
LEMMA RootIsStored ==
    ASSUME NEW objs, IsFiniteSet(DOMAIN objs), NEW rank, Falls(objs, rank),
           NEW m \in DOMAIN objs
    PROVE  /\ ThreadRoot(objs, m) \in DOMAIN objs
           /\ objs[ThreadRoot(objs, m)].parent \notin DOMAIN objs
  <1> DEFINE n == Cardinality(DOMAIN objs)
  <1>1. n \in Nat
    BY FS_CardinalityType
  <1>2. PICK f : IsWalk(Ups(objs), m, n, f)
    BY <1>1, WalkExists
  <1>3. ThreadRoot(objs, m) = f[n]
    BY <1>2, RootIsWalked
  <1>4. f[n] \in DOMAIN objs /\ Ups(objs)[f[n]] = f[n]
    BY <1>2, UpsDescend, WalkEnds
  <1>5. Up(objs, f[n]) = f[n]
    BY <1>4 DEF Ups
  <1>6. ASSUME objs[f[n]].parent \in DOMAIN objs PROVE FALSE
    <2>1. objs[f[n]].parent = f[n]
      BY <1>5, <1>6 DEF Up
    <2>2. rank[f[n]] < rank[f[n]] /\ rank[f[n]] \in Nat
      BY <1>4, <1>6, <2>1 DEF Falls
    <2> QED  BY <2>2
  <1> QED  BY <1>3, <1>4, <1>6

\* A message is in the thread of its parent,
LEMMA ParentsThread ==
    ASSUME NEW objs, IsFiniteSet(DOMAIN objs), NEW rank, Falls(objs, rank),
           NEW m \in DOMAIN objs, objs[m].parent \in DOMAIN objs
    PROVE  ThreadRoot(objs, m) = ThreadRoot(objs, objs[m].parent)
  <1> DEFINE n == Cardinality(DOMAIN objs)
  <1>1. n \in Nat
    BY FS_CardinalityType
  <1>2. Ups(objs)[m] = objs[m].parent
    BY DEF Ups, Up
  <1>3. PICK f : IsWalk(Ups(objs), m, n, f)
    BY <1>1, WalkExists
  <1>4. PICK g : IsWalk(Ups(objs), Ups(objs)[m], n, g)
    BY <1>1, WalkExists
  <1>5. g[n] = f[n]
    BY <1>3, <1>4, UpsDescend, WalkFromNext
  <1>6. ThreadRoot(objs, m) = f[n]
    BY <1>3, RootIsWalked
  <1>7. ThreadRoot(objs, objs[m].parent) = g[n]
    BY <1>2, <1>4, RootIsWalked
  <1> QED  BY <1>5, <1>6, <1>7

\* and one without a stored parent begins its own.
LEMMA TopIsRoot ==
    ASSUME NEW objs, IsFiniteSet(DOMAIN objs), NEW m \in DOMAIN objs,
           objs[m].parent \notin DOMAIN objs
    PROVE  ThreadRoot(objs, m) = m
  <1> DEFINE n == Cardinality(DOMAIN objs)
  <1>1. n \in Nat
    BY FS_CardinalityType
  <1>2. Ups(objs)[m] = m
    BY DEF Ups, Up
  <1>3. PICK f : IsWalk(Ups(objs), m, n, f)
    BY <1>1, WalkExists
  <1>4. f[n] = m
    BY <1>1, <1>2, <1>3, WalkAtEnd
  <1> QED  BY <1>3, <1>4, RootIsWalked

\* So whatever expires takes every reply that was stored with it.
LEMMA RepliesExpireToo ==
    ASSUME NEW objs, IsFiniteSet(DOMAIN objs), NEW rank, Falls(objs, rank), NEW idle,
           NEW m \in DOMAIN objs, objs[m].parent \in ExpiringThreads(objs, idle)
    PROVE  m \in ExpiringThreads(objs, idle)
  <1>1. objs[m].parent \in DOMAIN objs
    BY DEF ExpiringThreads
  <1>2. ThreadRoot(objs, m) = ThreadRoot(objs, objs[m].parent)
    BY <1>1, ParentsThread
  <1> QED  BY <1>2 DEF ExpiringThreads
=============================================================================
