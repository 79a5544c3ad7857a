---------------------------- MODULE ReadingProofs ----------------------------
(***************************************************************************)
(* That the views of a store agree with it and with each other, for any    *)
(* values of the constants.                                                *)
(***************************************************************************)
EXTENDS Reading, RulesProofs, SequenceTheorems

-----------------------------------------------------------------------------
(* The order in which ids are minted                                        *)

Place(m) == CHOOSE i \in DOMAIN Minting : Minting[i] = m

LEMMA PlaceIsIt ==
    ASSUME NEW m \in Ids
    PROVE  Place(m) \in 1..Len(Minting) /\ Minting[Place(m)] = m /\ m \in Nat
  <1>1. \E i \in DOMAIN Minting : Minting[i] = m
    BY DEF Ids, Range
  <1>2. Place(m) \in DOMAIN Minting /\ Minting[Place(m)] = m
    BY <1>1 DEF Place
  <1> QED  BY <1>2, ReadingConstants

LEMMA MintedPlace ==
    ASSUME NEW i \in 1..Len(Minting)
    PROVE  Minting[i] \in Ids /\ Place(Minting[i]) = i
  <1>1. i \in DOMAIN Minting /\ Minting[i] \in Ids
    BY ReadingConstants DEF Ids, Range
  <1>2. Place(Minting[i]) \in DOMAIN Minting /\ Minting[Place(Minting[i])] = Minting[i]
    BY <1>1, PlaceIsIt, ReadingConstants
  <1> QED  BY <1>1, <1>2, ReadingConstants

\* The ids that were minted so far.
Used == {Minting[i] : i \in 1..issued}

LEMMA UsedPlace ==
    ASSUME issued \in 0..Len(Minting), NEW m
    PROVE  m \in Used <=> m \in Ids /\ Place(m) <= issued
  <1>0. Len(Minting) \in Nat
    BY ReadingConstants
  <1>1. ASSUME m \in Used PROVE m \in Ids /\ Place(m) <= issued
    <2>1. PICK i \in 1..issued : m = Minting[i]
      BY <1>1 DEF Used
    <2>2. i \in 1..Len(Minting)
      BY <1>0
    <2> QED  BY <2>1, <2>2, MintedPlace
  <1>2. ASSUME m \in Ids, Place(m) <= issued PROVE m \in Used
    BY <1>0, <1>2, PlaceIsIt DEF Used
  <1> QED  BY <1>1, <1>2

LEMMA NoneIsNoId == None \notin Ids /\ None \notin Actors
BY ReadingConstants DEF Ids

-----------------------------------------------------------------------------
(* The order of the store                                                  *)

\* Finitely many messages, each with an id and an instant.
Lined ==
    /\ IsFiniteSet(DOMAIN objects)
    /\ \A m \in DOMAIN objects : m \in Nat /\ objects[m].at \in Nat

LEMMA BeforeOrders ==
    ASSUME Lined, NEW l \in DOMAIN objects, NEW m \in DOMAIN objects, NEW n \in DOMAIN objects
    PROVE  /\ ~Before(m, m)
           /\ m # n => Before(m, n) \/ Before(n, m)
           /\ Before(l, m) /\ Before(m, n) => Before(l, n)
           /\ Before(m, n) => ~Before(n, m)
           /\ Before(m, n) => objects[m].at <= objects[n].at
BY DEF Lined, Before

\* One more than how many come before m.
Rank(ms, m) == Cardinality({k \in ms : Before(k, m)}) + 1

LEMMA RanksOrder ==
    ASSUME Lined, NEW ms \in SUBSET DOMAIN objects, NEW m \in ms
    PROVE  /\ Rank(ms, m) \in 1..Cardinality(ms)
           /\ \A n \in ms : Before(m, n) => Rank(ms, m) < Rank(ms, n)
  <1> DEFINE behind(n) == {k \in ms : Before(k, n)}
  <1>0. IsFiniteSet(ms) /\ Cardinality(ms) \in Nat
    BY FS_Subset, FS_CardinalityType DEF Lined
  <1>1. \A n \in ms : IsFiniteSet(behind(n)) /\ Cardinality(behind(n)) \in Nat
    <2> SUFFICES ASSUME NEW n \in ms
                 PROVE  IsFiniteSet(behind(n)) /\ Cardinality(behind(n)) \in Nat
      OBVIOUS
    <2>1. behind(n) \in SUBSET ms
      OBVIOUS
    <2> HIDE DEF behind
    <2> QED  BY <1>0, <2>1, FS_Subset, FS_CardinalityType
  <1>2. ASSUME NEW S \in SUBSET ms, NEW T \in SUBSET S, NEW k \in S, k \notin T
        PROVE  Cardinality(T) < Cardinality(S)
    <2>1. IsFiniteSet(S) /\ IsFiniteSet(T)
      BY <1>0, FS_Subset
    <2>2. Cardinality(S) \in Nat /\ Cardinality(T) \in Nat
      BY <2>1, FS_CardinalityType
    <2>3. Cardinality(T) <= Cardinality(S) /\ Cardinality(S) # Cardinality(T)
      BY <1>2, <2>1, FS_Subset
    <2> QED  BY <2>2, <2>3
  <1>3. Rank(ms, m) \in 1..Cardinality(ms)
    <2>1. behind(m) \in SUBSET ms /\ m \notin behind(m)
      BY BeforeOrders
    <2>2. Cardinality(behind(m)) < Cardinality(ms)
      BY <1>2, <2>1
    <2>3. Rank(ms, m) = Cardinality(behind(m)) + 1
      BY DEF Rank
    <2> HIDE DEF behind
    <2> QED  BY <1>0, <1>1, <2>2, <2>3
  <1>4. ASSUME NEW n \in ms, Before(m, n) PROVE Rank(ms, m) < Rank(ms, n)
    <2>1. behind(n) \in SUBSET ms /\ behind(m) \in SUBSET behind(n)
      BY <1>4, BeforeOrders
    <2>2. m \in behind(n) /\ m \notin behind(m)
      BY <1>4, BeforeOrders
    <2>3. Cardinality(behind(m)) < Cardinality(behind(n))
      BY <1>2, <2>1, <2>2
    <2>4. /\ Rank(ms, m) = Cardinality(behind(m)) + 1
          /\ Rank(ms, n) = Cardinality(behind(n)) + 1
      BY DEF Rank
    <2> HIDE DEF behind
    <2> QED  BY <1>1, <2>3, <2>4
  <1> QED  BY <1>3, <1>4

\* There is a line, by the ranks; and it holds each message once.
LEMMA InLine ==
    ASSUME Lined, NEW ms \in SUBSET DOMAIN objects
    PROVE  /\ Cardinality(ms) \in Nat
           /\ Line(ms) \in [1..Cardinality(ms) -> ms]
           /\ \A i, j \in 1..Cardinality(ms) : i < j => Before(Line(ms)[i], Line(ms)[j])
           /\ \A i, j \in 1..Cardinality(ms) : Line(ms)[i] = Line(ms)[j] => i = j
           /\ \A m \in ms : \E i \in 1..Cardinality(ms) : Line(ms)[i] = m
  <1> DEFINE n == Cardinality(ms)
             rank == [m \in ms |-> Rank(ms, m)]
             Sorts(line) == \A i, j \in DOMAIN line : i < j => Before(line[i], line[j])
  <1>0. IsFiniteSet(ms) /\ n \in Nat
    BY FS_Subset, FS_CardinalityType DEF Lined
  <1>1. IsFiniteSet(1..n) /\ Cardinality(1..n) = n
    BY <1>0, FS_Interval
  <1>2. rank \in Injection(ms, 1..n)
    <2>1. rank \in [ms -> 1..n]
      BY RanksOrder
    <2>2. ASSUME NEW k \in ms, NEW m \in ms, k # m PROVE rank[k] # rank[m]
      <3>1. Rank(ms, k) \in 1..n /\ Rank(ms, m) \in 1..n
        BY RanksOrder
      <3>2. Before(k, m) \/ Before(m, k)
        BY <2>2, BeforeOrders
      <3>3. Rank(ms, k) < Rank(ms, m) \/ Rank(ms, m) < Rank(ms, k)
        BY <3>2, RanksOrder
      <3>4. Rank(ms, k) # Rank(ms, m)
        BY <1>0, <3>1, <3>3
      <3> QED  BY <3>4
    <2> HIDE DEF rank, n
    <2> QED  BY <2>1, <2>2 DEF Injection, IsInjective
  <1>3. rank \in Surjection(ms, 1..n)
    <2> HIDE DEF rank, n
    <2>1. Cardinality(ms) = Cardinality(1..n)
      BY <1>1 DEF n
    <2> QED  BY <1>1, <1>2, <2>1, FS_Injection
  <1> DEFINE line == [i \in 1..n |-> CHOOSE m \in ms : rank[m] = i]
  <1>4. \A i \in 1..n : line[i] \in ms /\ rank[line[i]] = i
    <2> HIDE DEF rank
    <2> SUFFICES ASSUME NEW i \in 1..n PROVE line[i] \in ms /\ rank[line[i]] = i
      OBVIOUS
    <2>1. \E m \in ms : rank[m] = i
      BY <1>3 DEF Surjection
    <2> QED  BY <2>1
  <1>5. line \in [1..n -> ms]
    BY <1>4
  <1>6. Sorts(line)
    <2> SUFFICES ASSUME NEW i \in 1..n, NEW j \in 1..n, i < j PROVE Before(line[i], line[j])
      OBVIOUS
    <2>1. /\ line[i] \in ms /\ Rank(ms, line[i]) = i
          /\ line[j] \in ms /\ Rank(ms, line[j]) = j
      BY <1>4
    <2> HIDE DEF line
    <2>2. line[i] # line[j]
      BY <2>1
    <2>3. ~Before(line[j], line[i])
      <3>1. Before(line[j], line[i]) => Rank(ms, line[j]) < Rank(ms, line[i])
        BY <2>1, RanksOrder
      <3> QED  BY <1>0, <2>1, <3>1
    <2> QED  BY <2>1, <2>2, <2>3, BeforeOrders
  <1>7. Line(ms) \in [1..n -> ms] /\ Sorts(Line(ms))
    <2> HIDE DEF line, Sorts
    <2>1. \E l \in [1..n -> ms] : Sorts(l)
      BY <1>5, <1>6
    <2>2. Line(ms) = CHOOSE l \in [1..n -> ms] : Sorts(l)
      BY DEF Line, Sorts
    <2> QED  BY <2>1, <2>2
  <1>8. \A i, j \in 1..n : i < j => Before(Line(ms)[i], Line(ms)[j])
    BY <1>7
  <1>9. \A i, j \in 1..n : Line(ms)[i] = Line(ms)[j] => i = j
    <2> SUFFICES ASSUME NEW i \in 1..n, NEW j \in 1..n, Line(ms)[i] = Line(ms)[j], i # j
                 PROVE  FALSE
      OBVIOUS
    <2>1. i < j \/ j < i
      BY <1>0
    <2>2. Before(Line(ms)[i], Line(ms)[i])
      BY <1>8, <2>1
    <2>3. Line(ms)[i] \in DOMAIN objects
      BY <1>7
    <2> QED  BY <2>2, <2>3, BeforeOrders
  <1>10. \A m \in ms : \E i \in 1..n : Line(ms)[i] = m
    <2> HIDE DEF n, rank, line, Sorts
    <2>1. Line(ms) \in Injection(1..n, ms)
      BY <1>7, <1>9 DEF Injection, IsInjective
    <2>2. Cardinality(1..n) = Cardinality(ms)
      BY <1>1 DEF n
    <2>3. Line(ms) \in Surjection(1..n, ms)
      BY <1>0, <2>1, <2>2, FS_Injection
    <2> QED  BY <2>3 DEF Surjection
  <1> QED  BY <1>0, <1>7, <1>8, <1>9, <1>10

LEMMA LineIsSeq ==
    ASSUME Lined, NEW ms \in SUBSET DOMAIN objects
    PROVE  /\ Line(ms) \in Seq(ms)
           /\ Len(Line(ms)) = Cardinality(ms) /\ DOMAIN Line(ms) = 1..Cardinality(ms)
           /\ Range(Line(ms)) = ms
  <1>1. Cardinality(ms) \in Nat /\ Line(ms) \in [1..Cardinality(ms) -> ms]
    BY InLine
  <1>2. Line(ms) \in Seq(ms) /\ Len(Line(ms)) = Cardinality(ms)
    BY <1>1
  <1>3. DOMAIN Line(ms) = 1..Cardinality(ms)
    BY <1>1
  <1>4. Range(Line(ms)) \subseteq ms
    BY <1>1 DEF Range
  <1>5. ASSUME NEW m \in ms PROVE m \in Range(Line(ms))
    <2>1. PICK i \in 1..Cardinality(ms) : Line(ms)[i] = m
      BY InLine
    <2> QED  BY <1>3, <2>1 DEF Range
  <1> QED  BY <1>2, <1>3, <1>4, <1>5

-----------------------------------------------------------------------------
(* The invariant of the store                                              *)

\* A message answers one that was minted before it.
Follows(message, m) == message.parent # None => Place(message.parent) < Place(m)

\* So do those to be stored: a draft answers what was minted, and what a
\* retraction writes back is what it read under that id.
RepliesLater ==
    /\ \A m \in DOMAIN objects : Follows(objects[m], m)
    /\ draft # None => issued < Len(Minting) /\ (draft.parent = None \/ draft.parent \in Used)
    /\ job.copy # None => job.left # <<>> /\ Follows(job.copy, Head(job.left))

Once(s) == \A i, j \in DOMAIN s : s[i] = s[j] => i = j

\* What a withdrawal looked at is still to be done, withdrawn or refused.
JobAccounts ==
    /\ Once(job.left)
    /\ Range(job.left) \cup job.retracted \cup job.refused = Range(job.looked)
    /\ Range(job.looked) \subseteq Used
    /\ Range(job.left) \cap (job.retracted \cup job.refused) = {}
    /\ job.retracted \cap job.refused = {}
    /\ \A m \in job.retracted \cap DOMAIN objects : objects[m].retracted
    /\ job.by \in Humans => job.refused \cap DOMAIN objects = {}

IInv == ReadingTypeOK /\ RepliesLater /\ JobAccounts

LEMMA NoJobType ==
    /\ NoJob \in Job
    /\ NoJob.left = <<>> /\ NoJob.looked = <<>> /\ NoJob.copy = None /\ NoJob.by = None
    /\ NoJob.retracted = {} /\ NoJob.refused = {}
BY DEF NoJob, Job

LEMMA InitInv == ReadingInit => IInv
  <1> SUFFICES ASSUME ReadingInit PROVE IInv
    OBVIOUS
  <1>1. ReadingTypeOK
    BY NoJobType, ReadingConstants DEF ReadingInit, ReadingTypeOK
  <1>2. RepliesLater
    BY NoJobType DEF ReadingInit, RepliesLater
  <1>3. JobAccounts
    BY NoJobType, NoneIsNoId, ReadingConstants DEF ReadingInit, JobAccounts, Once, Range
  <1> QED  BY <1>1, <1>2, <1>3 DEF IInv

\* The store of every state is one that the lemmas are about.
LEMMA StoreIsLined ==
    ASSUME ReadingTypeOK
    PROVE  Lined /\ DOMAIN objects \subseteq Ids
  <1>1. DOMAIN objects \subseteq Used /\ issued \in 0..Len(Minting)
    BY DEF ReadingTypeOK, Used
  <1>2. \A m \in DOMAIN objects : m \in Ids /\ m \in Nat /\ Place(m) \in 1..Len(Minting)
                                  /\ Minting[Place(m)] = m
    BY <1>1, UsedPlace, PlaceIsIt
  <1> DEFINE place == [m \in DOMAIN objects |-> Place(m)]
  <1>3. place \in Injection(DOMAIN objects, 1..Len(Minting))
    <2>1. place \in [DOMAIN objects -> 1..Len(Minting)]
      BY <1>2
    <2>2. \A k, m \in DOMAIN objects : place[k] = place[m] => k = m
      BY <1>2
    <2> HIDE DEF place
    <2> QED  BY <2>1, <2>2 DEF Injection, IsInjective
  <1>4. IsFiniteSet(DOMAIN objects)
    <2> HIDE DEF place
    <2>0. Len(Minting) \in Int
      BY ReadingConstants
    <2>1. IsFiniteSet(1..Len(Minting))
      BY <2>0, FS_Interval
    <2> QED  BY <1>3, <2>1, FS_Injection
  <1>5. \A m \in DOMAIN objects : objects[m].at \in Nat
    BY ReadingConstants DEF ReadingTypeOK, Message
  <1> QED  BY <1>2, <1>4, <1>5 DEF Lined

\* inReplyTo has no cycle.
Places == [m \in DOMAIN objects |-> Place(m)]

LEMMA StoreFalls ==
    ASSUME ReadingTypeOK, RepliesLater
    PROVE  IsFiniteSet(DOMAIN objects) /\ Falls(objects, Places)
  <1>1. Lined /\ DOMAIN objects \subseteq Ids
    BY StoreIsLined
  <1>2. \A m \in DOMAIN objects : Place(m) \in Nat
    BY <1>1, PlaceIsIt
  <1>3. \A m \in DOMAIN objects : objects[m].parent \in DOMAIN objects => objects[m].parent # None
    BY <1>1, NoneIsNoId
  <1> QED  BY <1>1, <1>2, <1>3 DEF Lined, Falls, Places, RepliesLater, Follows

LEMMA OneLess ==
    ASSUME NEW S, NEW s \in Seq(S), s # <<>>, Once(s)
    PROVE  /\ Head(s) \in Range(s) /\ Head(s) \in S
           /\ Tail(s) \in Seq(S) /\ Once(Tail(s))
           /\ Range(Tail(s)) = Range(s) \ {Head(s)}
  <1>1. /\ Len(s) \in Nat /\ Len(s) > 0 /\ DOMAIN s = 1..Len(s) /\ Head(s) = s[1]
        /\ \A i \in 1..Len(s) : s[i] \in S
    OBVIOUS
  <1>2. /\ Tail(s) \in Seq(S) /\ DOMAIN Tail(s) = 1..(Len(s) - 1)
        /\ \A i \in 1..(Len(s) - 1) : Tail(s)[i] = s[i + 1]
    OBVIOUS
  <1>3. Once(Tail(s))
    <2> SUFFICES ASSUME NEW i \in DOMAIN Tail(s), NEW j \in DOMAIN Tail(s),
                        Tail(s)[i] = Tail(s)[j]
                 PROVE  i = j
      BY DEF Once
    <2>1. i + 1 \in DOMAIN s /\ j + 1 \in DOMAIN s /\ s[i + 1] = s[j + 1]
      BY <1>1, <1>2
    <2>2. i + 1 = j + 1
      BY <2>1 DEF Once
    <2> QED  BY <1>1, <1>2, <2>2
  <1>4. ASSUME NEW i \in DOMAIN Tail(s) PROVE Tail(s)[i] \in Range(s) \ {Head(s)}
    <2>1. i + 1 \in DOMAIN s /\ 1 \in DOMAIN s /\ i + 1 # 1 /\ Tail(s)[i] = s[i + 1]
      BY <1>1, <1>2
    <2>2. s[i + 1] # s[1]
      BY <2>1 DEF Once
    <2> QED  BY <1>1, <2>1, <2>2 DEF Range
  <1>5. ASSUME NEW i \in DOMAIN s, s[i] # Head(s) PROVE s[i] \in Range(Tail(s))
    <2>1. i - 1 \in DOMAIN Tail(s) /\ Tail(s)[i - 1] = s[i]
      BY <1>1, <1>2, <1>5
    <2> QED  BY <2>1 DEF Range
  <1>6. Head(s) \in Range(s)
    BY <1>1 DEF Range
  <1>7. Range(Tail(s)) = Range(s) \ {Head(s)}
    BY <1>4, <1>5 DEF Range
  <1> QED  BY <1>1, <1>2, <1>3, <1>6, <1>7

LEMMA MintNext ==
    ASSUME ReadingTypeOK, issued < Len(Minting)
    PROVE  /\ issued + 1 \in 0..Len(Minting)
           /\ Minting[issued + 1] \in Ids /\ Place(Minting[issued + 1]) = issued + 1
           /\ Minting[issued + 1] \notin Used
           /\ {Minting[i] : i \in 1..(issued + 1)} = Used \cup {Minting[issued + 1]}
  <1>1. issued \in 0..Len(Minting) /\ Len(Minting) \in Nat
    BY ReadingConstants DEF ReadingTypeOK
  <1>2. issued + 1 \in 1..Len(Minting)
    BY <1>1
  <1>3. Minting[issued + 1] \in Ids /\ Place(Minting[issued + 1]) = issued + 1
    BY <1>2, MintedPlace
  <1>4. Minting[issued + 1] \notin Used
    BY <1>1, <1>3, UsedPlace
  <1>5. 1..(issued + 1) = (1..issued) \cup {issued + 1}
    BY <1>1
  <1>6. {Minting[i] : i \in 1..(issued + 1)} = Used \cup {Minting[issued + 1]}
    BY <1>5 DEF Used
  <1> QED  BY <1>1, <1>2, <1>3, <1>4, <1>6

LEMMA DoomedAreStored ==
    ASSUME NEW idle
    PROVE  ExpiringThreads(objects, idle) \subseteq DOMAIN objects
BY DEF ExpiringThreads

LEMMA VisibleAreStored ==
    ASSUME NEW m, NEW a
    PROVE  VisibleTurns(m, a) \subseteq DOMAIN objects
BY DEF VisibleTurns, ThreadMembers

LEMMA TypeNext == IInv /\ [ReadingNext]_readingVars => ReadingTypeOK'
  <1> SUFFICES ASSUME ReadingTypeOK, RepliesLater, JobAccounts, [ReadingNext]_readingVars PROVE ReadingTypeOK'
    BY DEF IInv
  <1> USE DEF ReadingTypeOK
  <1>1. ASSUME NEW send \in Sends, NEW parent \in Ids \cup {None},
               SendLook(send[1], send[2], parent)
        PROVE  ReadingTypeOK'
    <2>1. send[1] \in Actors /\ send[2] \in SUBSET Actors
      BY ReadingConstants
    <2>2. draft' \in [from : Actors, to : SUBSET Actors, parent : Ids \cup {None}]
      BY <1>1, <2>1 DEF SendLook
    <2> QED  BY <1>1, <2>2 DEF SendLook
  <1>2. ASSUME SendStore PROVE ReadingTypeOK'
    <2>1. issued < Len(Minting)
      BY <1>2 DEF SendStore, RepliesLater
    <2>2. draft \in [from : Actors, to : SUBSET Actors, parent : Ids \cup {None}]
      BY <1>2 DEF SendStore
    <2>3. PICK message \in Message : objects' = Put(Minting[issued + 1], message)
      BY <1>2, <2>2 DEF SendStore, Message
    <2>4. /\ DOMAIN objects' = DOMAIN objects \cup {Minting[issued + 1]}
          /\ \A m \in DOMAIN objects' : objects'[m] \in Message
      BY <2>3 DEF Put
    <2>5. issued' \in 0..Len(Minting) /\ DOMAIN objects' \subseteq {Minting[i] : i \in 1..issued'}
      BY <1>2, <2>1, <2>4, MintNext DEF SendStore, Used
    <2> QED  BY <1>2, <2>4, <2>5 DEF SendStore
  <1>3. ASSUME NEW m \in Ids, NEW a \in Readers, MarkRead(m, a) PROVE ReadingTypeOK'
    <2>1. a \in Actors
      BY ReadingConstants
    <2> QED  BY <1>3, <2>1 DEF MarkRead
  <1>4. ASSUME NEW cutoff \in 1..Instants, Purge(cutoff) PROVE ReadingTypeOK'
    BY <1>4 DEF Purge
  <1>5. ASSUME Tick PROVE ReadingTypeOK'
    BY <1>5, ReadingConstants DEF Tick
  <1>6. ASSUME NEW m \in Ids, NEW a \in Actors, RetractThread(a, m) PROVE ReadingTypeOK'
    <2>1. Line(VisibleTurns(m, a)) \in Seq(Ids)
      <3>1. VisibleTurns(m, a) \in SUBSET DOMAIN objects /\ VisibleTurns(m, a) \subseteq Ids
        BY VisibleAreStored, StoreIsLined
      <3>2. Line(VisibleTurns(m, a)) \in Seq(VisibleTurns(m, a))
        BY <3>1, StoreIsLined, LineIsSeq
      <3> QED  BY <3>1, <3>2
    <2>2. job' = [NoJob EXCEPT !.by = a, !.looked = Line(VisibleTurns(m, a)),
                               !.left = Line(VisibleTurns(m, a))]
      BY <1>6 DEF RetractThread
    <2>3. job' \in Job
      BY <2>1, <2>2, NoJobType DEF Job
    <2> QED  BY <1>6, <2>3 DEF RetractThread
  <1>7. ASSUME RetractLook PROVE ReadingTypeOK'
    <2>1. Head(job.left) \in Ids /\ Tail(job.left) \in Seq(Ids)
      BY <1>7 DEF RetractLook, Job
    <2>2. Head(job.left) \in DOMAIN objects => objects[Head(job.left)] \in Message
      OBVIOUS
    <2>3. \/ job' = [job EXCEPT !.left = Tail(@), !.refused = @ \cup {Head(job.left)}]
          \/ job' = [job EXCEPT !.left = Tail(@), !.retracted = @ \cup {Head(job.left)}]
          \/ /\ job' = [job EXCEPT !.copy = objects[Head(job.left)]]
             /\ Head(job.left) \in DOMAIN objects
      BY <1>7 DEF RetractLook
    <2>4. job \in Job
      OBVIOUS
    <2>5. job' \in Job
      <3>1. CASE job' = [job EXCEPT !.left = Tail(@), !.refused = @ \cup {Head(job.left)}]
        BY <2>1, <2>4, <3>1 DEF Job
      <3>2. CASE job' = [job EXCEPT !.left = Tail(@), !.retracted = @ \cup {Head(job.left)}]
        BY <2>1, <2>4, <3>2 DEF Job
      <3>3. CASE /\ job' = [job EXCEPT !.copy = objects[Head(job.left)]]
                 /\ Head(job.left) \in DOMAIN objects
        BY <2>2, <2>4, <3>3 DEF Job
      <3> QED  BY <2>3, <3>1, <3>2, <3>3
    <2> QED  BY <1>7, <2>5 DEF RetractLook
  <1>8. ASSUME Retract PROVE ReadingTypeOK'
    <2>1. /\ job.left # <<>> /\ Tail(job.left) \in Seq(Ids)
          /\ Head(job.left) \in Ids /\ Head(job.left) \in Used
      <3>1. job.left # <<>> /\ job.left \in Seq(Ids)
        BY <1>8 DEF Retract, RepliesLater, Job
      <3> QED  BY <3>1, OneLess DEF JobAccounts
    <2>2. job.copy \in Message
      BY <1>8 DEF Retract, Job
    <2>3. [job.copy EXCEPT !.retracted = TRUE] \in Message
      BY <2>2 DEF Message
    <2>4. job' \in Job
      BY <1>8, <2>1 DEF Retract, Job
    <2>5. /\ objects' = Put(Head(job.left), [job.copy EXCEPT !.retracted = TRUE])
          /\ UNCHANGED <<instant, issued, draft, reads>>
      BY <1>8 DEF Retract
    <2>6. /\ DOMAIN objects' \subseteq {Minting[i] : i \in 1..issued}
          /\ \A m \in DOMAIN objects' : objects'[m] \in Message
      BY <2>1, <2>3, <2>5 DEF Put, Used
    <2> QED  BY <2>4, <2>5, <2>6
  <1>9. ASSUME Answer PROVE ReadingTypeOK'
    BY <1>9, NoJobType DEF Answer
  <1>10. ASSUME UNCHANGED readingVars PROVE ReadingTypeOK'
    BY <1>10 DEF readingVars
  <1> QED
    BY <1>1, <1>2, <1>3, <1>4, <1>5, <1>6, <1>7, <1>8, <1>9, <1>10 DEF ReadingNext

LEMMA RepliesNext == IInv /\ [ReadingNext]_readingVars => RepliesLater'
  <1> SUFFICES ASSUME ReadingTypeOK, RepliesLater, JobAccounts, [ReadingNext]_readingVars
               PROVE  RepliesLater'
    BY DEF IInv
  <1>0. /\ issued \in 0..Len(Minting) /\ Len(Minting) \in Nat
        /\ DOMAIN objects \subseteq Used /\ job \in Job
    BY ReadingConstants DEF ReadingTypeOK, Used
  <1>1. ASSUME NEW send \in Sends, NEW parent \in Ids \cup {None},
               SendLook(send[1], send[2], parent)
        PROVE  RepliesLater'
    <2>1. draft'.parent = None \/ draft'.parent \in Used
      BY <1>0, <1>1 DEF SendLook, MayAttachTo
    <2> QED  BY <1>1, <2>1 DEF SendLook, RepliesLater, Follows, Used
  <1>2. ASSUME SendStore PROVE RepliesLater'
    <2>1. issued < Len(Minting) /\ (draft.parent = None \/ draft.parent \in Used)
      BY <1>2 DEF SendStore, RepliesLater
    <2> DEFINE m == Minting[issued + 1]
    <2>2. m \notin Used /\ Place(m) = issued + 1
      BY <2>1, MintNext
    <2>3. /\ objects'[m].parent = draft.parent
          /\ DOMAIN objects' = DOMAIN objects \cup {m}
          /\ \A n \in DOMAIN objects : n # m => objects'[n] = objects[n]
      BY <1>2 DEF SendStore, Put
    <2>4. draft.parent # None => Place(draft.parent) < Place(m)
      BY <1>0, <2>1, <2>2, UsedPlace, PlaceIsIt
    <2>5. draft' = None /\ job' = job
      BY <1>2 DEF SendStore
    <2> HIDE DEF m
    <2> QED  BY <2>3, <2>4, <2>5 DEF RepliesLater, Follows
  <1>3. ASSUME NEW m \in Ids, NEW a \in Readers, MarkRead(m, a) PROVE RepliesLater'
    BY <1>3 DEF MarkRead, RepliesLater, Follows, Used
  <1>4. ASSUME NEW cutoff \in 1..Instants, Purge(cutoff) PROVE RepliesLater'
    BY <1>4 DEF Purge, RepliesLater, Follows, Used
  <1>5. ASSUME Tick PROVE RepliesLater'
    BY <1>5 DEF Tick, RepliesLater, Follows, Used
  <1>6. ASSUME NEW m \in Ids, NEW a \in Actors, RetractThread(a, m) PROVE RepliesLater'
    <2>1. job'.copy = None
      BY <1>6, NoJobType DEF RetractThread, Job
    <2> QED  BY <1>6, <2>1 DEF RetractThread, RepliesLater, Follows, Used
  <1>7. ASSUME RetractLook PROVE RepliesLater'
    <2>1. \/ job'.copy = None
          \/ /\ job'.left = job.left /\ job.left # <<>>
             /\ job'.copy = objects[Head(job.left)] /\ Head(job.left) \in DOMAIN objects
      BY <1>0, <1>7 DEF RetractLook, Job
    <2> QED  BY <1>7, <2>1 DEF RetractLook, RepliesLater, Follows, Used
  <1>8. ASSUME Retract PROVE RepliesLater'
    <2> DEFINE m == Head(job.left)
    <2>1. job.copy \in Message /\ Follows(job.copy, m)
      BY <1>0, <1>8 DEF Retract, Job, RepliesLater
    <2>2. /\ objects'[m].parent = job.copy.parent
          /\ DOMAIN objects' = DOMAIN objects \cup {m}
          /\ \A n \in DOMAIN objects : n # m => objects'[n] = objects[n]
      BY <1>8, <2>1 DEF Retract, Put, Message
    <2>3. job'.copy = None /\ draft' = draft /\ issued' = issued
      BY <1>0, <1>8 DEF Retract, Job
    <2> HIDE DEF m
    <2> QED  BY <2>1, <2>2, <2>3 DEF RepliesLater, Follows, Used
  <1>9. ASSUME Answer PROVE RepliesLater'
    BY <1>9, NoJobType DEF Answer, RepliesLater, Follows, Used
  <1>10. ASSUME UNCHANGED readingVars PROVE RepliesLater'
    BY <1>10 DEF readingVars, RepliesLater, Follows, Used
  <1> QED
    BY <1>1, <1>2, <1>3, <1>4, <1>5, <1>6, <1>7, <1>8, <1>9, <1>10 DEF ReadingNext

LEMMA JobNext == IInv /\ [ReadingNext]_readingVars => JobAccounts'
  <1> SUFFICES ASSUME ReadingTypeOK, RepliesLater, JobAccounts, [ReadingNext]_readingVars
               PROVE  JobAccounts'
    BY DEF IInv
  <1>0. /\ issued \in 0..Len(Minting) /\ Len(Minting) \in Nat
        /\ DOMAIN objects \subseteq Used /\ job \in Job
    BY ReadingConstants DEF ReadingTypeOK, Used
  <1>1. ASSUME NEW send \in Sends, NEW parent \in Ids \cup {None},
               SendLook(send[1], send[2], parent)
        PROVE  JobAccounts'
    BY <1>1 DEF SendLook, JobAccounts, Used
  \* The new message is none of those that the withdrawal looked at.
  <1>2. ASSUME SendStore PROVE JobAccounts'
    <2>1. issued < Len(Minting)
      BY <1>2 DEF SendStore, RepliesLater
    <2> DEFINE m == Minting[issued + 1]
    <2>2. m \notin Used
      BY <2>1, MintNext
    <2>3. /\ DOMAIN objects' = DOMAIN objects \cup {m} /\ job' = job
          /\ \A n \in DOMAIN objects : n # m => objects'[n] = objects[n]
      BY <1>2 DEF SendStore, Put
    <2>4. Used \subseteq Used'
      BY <1>0, <1>2 DEF Used, SendStore
    <2>5. m \notin job.retracted \cup job.refused
      BY <2>2 DEF JobAccounts
    <2> HIDE DEF m
    <2> QED  BY <2>3, <2>4, <2>5 DEF JobAccounts
  <1>3. ASSUME NEW m \in Ids, NEW a \in Readers, MarkRead(m, a) PROVE JobAccounts'
    BY <1>3 DEF MarkRead, JobAccounts, Used
  <1>4. ASSUME NEW cutoff \in 1..Instants, Purge(cutoff) PROVE JobAccounts'
    BY <1>4 DEF Purge, JobAccounts, Used
  <1>5. ASSUME Tick PROVE JobAccounts'
    BY <1>5 DEF Tick, JobAccounts, Used
  <1>6. ASSUME NEW m \in Ids, NEW a \in Actors, RetractThread(a, m) PROVE JobAccounts'
    <2> DEFINE turns == VisibleTurns(m, a)
    <2>1. turns \in SUBSET DOMAIN objects /\ Lined
      BY VisibleAreStored, StoreIsLined
    <2>2. Range(Line(turns)) = turns /\ Once(Line(turns))
      BY <2>1, InLine, LineIsSeq DEF Once
    <2>3. /\ job'.left = Line(turns) /\ job'.looked = Line(turns)
          /\ job'.retracted = {} /\ job'.refused = {}
      BY <1>6, NoJobType DEF RetractThread, Job
    <2>4. Used' = Used
      BY <1>6 DEF RetractThread, Used
    <2> HIDE DEF turns
    <2> QED  BY <1>0, <2>1, <2>2, <2>3, <2>4 DEF JobAccounts
  <1>7. ASSUME RetractLook PROVE JobAccounts'
    <2> DEFINE m == Head(job.left)
    <2>1. /\ m \in Range(job.left) /\ Once(Tail(job.left))
          /\ Range(Tail(job.left)) = Range(job.left) \ {m}
      <3>1. job.left # <<>> /\ job.left \in Seq(Ids)
        BY <1>0, <1>7 DEF RetractLook, Job
      <3> QED  BY <3>1, OneLess DEF JobAccounts
    <2>2. job'.looked = job.looked /\ job'.by = job.by /\ objects' = objects /\ Used' = Used
      BY <1>0, <1>7 DEF RetractLook, Job, Used
    <2>3. \/ /\ m \notin DOMAIN objects \/ job.by \notin Humans
             /\ job'.left = Tail(job.left) /\ job'.retracted = job.retracted
             /\ job'.refused = job.refused \cup {m}
          \/ /\ m \in DOMAIN objects /\ objects[m].retracted
             /\ job'.left = Tail(job.left) /\ job'.refused = job.refused
             /\ job'.retracted = job.retracted \cup {m}
          \/ job'.left = job.left /\ job'.refused = job.refused /\ job'.retracted = job.retracted
      BY <1>0, <1>7 DEF RetractLook, Job
    <2> HIDE DEF m
    <2> QED  BY <2>1, <2>2, <2>3 DEF JobAccounts
  <1>8. ASSUME Retract PROVE JobAccounts'
    <2> DEFINE m == Head(job.left)
    <2>1. /\ m \in Range(job.left) /\ Once(Tail(job.left))
          /\ Range(Tail(job.left)) = Range(job.left) \ {m}
      <3>1. job.left # <<>> /\ job.left \in Seq(Ids)
        BY <1>0, <1>8 DEF Retract, Job, RepliesLater
      <3> QED  BY <3>1, OneLess DEF JobAccounts
    <2>2. /\ job'.looked = job.looked /\ job'.by = job.by /\ Used' = Used
          /\ job'.left = Tail(job.left) /\ job'.refused = job.refused
          /\ job'.retracted = job.retracted \cup {m}
      BY <1>0, <1>8 DEF Retract, Job, Used
    <2>3. job.copy \in Message
      BY <1>0, <1>8 DEF Retract, Job
    <2>4. /\ objects'[m].retracted
          /\ DOMAIN objects' = DOMAIN objects \cup {m}
          /\ \A n \in DOMAIN objects : n # m => objects'[n] = objects[n]
      BY <1>8, <2>3 DEF Retract, Put, Message
    <2> HIDE DEF m
    <2> QED  BY <2>1, <2>2, <2>4 DEF JobAccounts
  <1>9. ASSUME Answer PROVE JobAccounts'
    BY <1>9, NoJobType, NoneIsNoId, ReadingConstants DEF Answer, JobAccounts, Used, Once, Range
  <1>10. ASSUME UNCHANGED readingVars PROVE JobAccounts'
    BY <1>10 DEF readingVars, JobAccounts, Used
  <1> QED
    BY <1>1, <1>2, <1>3, <1>4, <1>5, <1>6, <1>7, <1>8, <1>9, <1>10 DEF ReadingNext

LEMMA StoreInvariant == ReadingSpec => []IInv
  <1>1. IInv /\ [ReadingNext]_readingVars => IInv'
    BY TypeNext, RepliesNext, JobNext DEF IInv
  <1> QED  BY <1>1, InitInv, PTL DEF ReadingSpec

\* The report of a withdrawal, whatever was sent, read, purged or withdrawn
\* meanwhile: threads.retract_thread and retraction.retract.
LEMMA ReportsAccountFor == IInv => ReportsAccount
  <1> SUFFICES ASSUME IInv PROVE ReportsAccount
    OBVIOUS
  <1>1. job.left = <<>> => Range(job.left) = {}
    BY DEF Range
  <1> QED  BY <1>1 DEF IInv, JobAccounts, ReportsAccount

-----------------------------------------------------------------------------
(* Search                                                                  *)

\* What a search finds opens and is the newest: rules.search.
LEMMA HitsOpenAll == ASSUME ReadingTypeOK PROVE HitsOpen
  <1> SUFFICES ASSUME NEW a \in Actors
               PROVE  LET found == Search(a)
                          hits == Range(found.hits)
                      IN  /\ \A m \in hits : m \in VisibleTurns(m, a) /\ ~objects[m].retracted
                          /\ Matches(a) = hits \/ found.truncated
                          /\ \A m \in hits, n \in Matches(a) \ hits : objects[n].at <= objects[m].at
    BY DEF HitsOpen
  <1> DEFINE M == Matches(a)
             line == Line(M)
             newest == Reverse(line)
             count == Cardinality(M)
             k == IF Len(newest) < Limit THEN Len(newest) ELSE Limit
             hits == Range(SubSeq(newest, 1, k))
  <1>0. M \in SUBSET DOMAIN objects /\ Lined
    BY StoreIsLined DEF Matches
  <1>1. /\ count \in Nat /\ line \in Seq(M) /\ Len(line) = count
        /\ \A i, j \in 1..count : i < j => Before(line[i], line[j])
        /\ \A m \in M : \E i \in 1..count : line[i] = m
    BY <1>0, InLine, LineIsSeq
  <1>2. /\ newest \in Seq(M) /\ Len(newest) = count
        /\ \A i \in 1..count : newest[i] = line[(count - i) + 1] /\ newest[i] \in M
    <2> HIDE DEF line, count, M
    <2> QED  BY <1>1 DEF Reverse
  <1>3. k \in 0..count /\ (k = count \/ count > Limit)
    <2> HIDE DEF newest, count
    <2> QED  BY <1>1, <1>2, ReadingConstants
  <1>4. SubSeq(newest, 1, k) = [i \in 1..k |-> newest[i]]
    <2> HIDE DEF newest, count, k, M
    <2> QED  BY <1>1, <1>2, <1>3
  <1>5. hits = {newest[i] : i \in 1..k}
    <2> HIDE DEF newest, k
    <2> QED  BY <1>4 DEF Range
  <1>6. Search(a).hits = SubSeq(newest, 1, k) /\ Search(a).truncated = (Len(newest) > Limit)
    BY DEF Search
  <1>7. ASSUME NEW m \in hits PROVE m \in VisibleTurns(m, a) /\ ~objects[m].retracted
    <2>1. m \in M
      <3> HIDE DEF newest, count, k, hits, M
      <3> QED  BY <1>1, <1>2, <1>3, <1>5
    <2> QED  BY <2>1 DEF Matches, VisibleTurns, ThreadMembers
  <1>8. M \subseteq {newest[i] : i \in 1..count}
    <2> SUFFICES ASSUME NEW m \in M PROVE \E i \in 1..count : newest[i] = m
      OBVIOUS
    <2>1. PICK i \in 1..count : line[i] = m
      BY <1>1
    <2>2. (count - i) + 1 \in 1..count /\ (count - ((count - i) + 1)) + 1 = i
      BY <1>1
    <2> HIDE DEF newest, count, line, M
    <2> QED  BY <1>2, <2>1, <2>2
  <1>9. M = hits \/ Len(newest) > Limit
    <2> HIDE DEF newest, count, line, M, k, hits
    <2> QED  BY <1>2, <1>3, <1>5, <1>8
  <1>10. ASSUME NEW m \in hits, NEW n \in M \ hits PROVE objects[n].at <= objects[m].at
    <2> HIDE DEF newest, count, line, M, k, hits
    <2>1. PICK i \in 1..k : newest[i] = m
      BY <1>5
    <2>2. PICK j \in 1..count : newest[j] = n
      BY <1>8
    <2>3. i \in 1..count /\ i < j
      BY <1>1, <1>3, <1>5, <2>2
    <2>4. /\ (count - j) + 1 \in 1..count /\ (count - i) + 1 \in 1..count
          /\ (count - j) + 1 < (count - i) + 1
      BY <1>1, <2>3
    <2>5. Before(n, m)
      BY <1>1, <1>2, <2>1, <2>2, <2>3, <2>4
    <2>6. m \in DOMAIN objects /\ n \in DOMAIN objects
      BY <1>0, <1>2, <2>1, <2>2, <2>3
    <2> QED  BY <1>0, <2>5, <2>6, BeforeOrders
  <1> HIDE DEF hits, newest, k, M
  <1>11. Range(Search(a).hits) = hits
    BY <1>6 DEF hits
  <1>12. Matches(a) = M
    BY DEF M
  <1> QED  BY <1>6, <1>7, <1>9, <1>10, <1>11, <1>12

-----------------------------------------------------------------------------
(* The roots of a whole store                                              *)

\* Where thread_roots climbs: not past a message whose root is known.
Climbs(roots) ==
    [m \in DOMAIN objects |-> IF m \in DOMAIN roots THEN m ELSE Up(objects, m)]

\* Roots that are known are right.
Right(roots) ==
    /\ DOMAIN roots \subseteq DOMAIN objects
    /\ \A m \in DOMAIN roots : roots[m] = ThreadRoot(objects, m)

LEMMA ClimbIsWalk ==
    ASSUME IsFiniteSet(DOMAIN objects), NEW roots, NEW m \in DOMAIN objects
    PROVE  IsWalk(Climbs(roots), m, Cardinality(DOMAIN objects), Climb(roots, m))
  <1> DEFINE n == Cardinality(DOMAIN objects)
             Is(c) == c = [k \in 0 .. n |-> IF k = 0 THEN m
                                            ELSE IF c[k - 1] \in DOMAIN roots THEN c[k - 1]
                                            ELSE Up(objects, c[k - 1])]
  <1>1. n \in Nat
    BY FS_CardinalityType
  <1>2. PICK f : IsWalk(Climbs(roots), m, n, f)
    BY <1>1, WalkExists
  <1>3. StaysIn(Climbs(roots), DOMAIN objects)
    BY DEF StaysIn, Climbs, Up
  <1>4. /\ f[0] = m /\ f \in [0 .. n -> DOMAIN objects]
        /\ \A i \in 0 .. n - 1 : f[i + 1] = Climbs(roots)[f[i]]
    BY <1>1, <1>2, <1>3, WalkStays
  <1>5. Is(f)
    <2>1. ASSUME NEW k \in 0 .. n
          PROVE  f[k] = IF k = 0 THEN m ELSE IF f[k - 1] \in DOMAIN roots THEN f[k - 1]
                                             ELSE Up(objects, f[k - 1])
      <3>1. k # 0 => f[(k - 1) + 1] = Climbs(roots)[f[k - 1]] /\ f[k - 1] \in DOMAIN objects
        BY <1>1, <1>4
      <3> QED  BY <1>4, <3>1 DEF Climbs
    <2>2. f = [k \in 0 .. n |-> f[k]]
      BY <1>4
    <2> QED  BY <2>1, <2>2
  <1>6. Is(Climb(roots, m))
    <2>1. Climb(roots, m) = CHOOSE c : Is(c)
      BY DEF Climb
    <2> HIDE DEF Is
    <2> QED  BY <1>5, <2>1
  <1> DEFINE c == Climb(roots, m)
             T == {k \in 0 .. n : c[k] = f[k]}
  <1> HIDE DEF c
  <1>7. c[0] = m /\ DOMAIN c = 0 .. n
    BY <1>1, <1>6 DEF c
  <1>8. ASSUME NEW k \in 0 .. n - 1, k \in T PROVE k + 1 \in T
    <2>1. k + 1 \in 0 .. n /\ k + 1 # 0 /\ (k + 1) - 1 = k
      BY <1>1
    <2>2. c[k + 1] = IF c[k] \in DOMAIN roots THEN c[k] ELSE Up(objects, c[k])
      BY <1>6, <2>1 DEF c
    <2>3. f[k + 1] = IF f[k] \in DOMAIN roots THEN f[k] ELSE Up(objects, f[k])
      <3>1. f[k] \in DOMAIN objects /\ f[k + 1] = Climbs(roots)[f[k]]
        BY <1>1, <1>4
      <3> QED  BY <3>1 DEF Climbs
    <2>4. c[k] = f[k]
      BY <1>8
    <2> QED  BY <2>1, <2>2, <2>3, <2>4
  <1>9. 0 .. n \subseteq T
    <2>1. T \in SUBSET Nat /\ 0 \in T
      BY <1>1, <1>4, <1>7
    <2> HIDE DEF T, n
    <2> QED  BY <1>1, <1>8, <2>1, Climbing
  <1>10. c = f
    <2>1. DOMAIN f = 0 .. n /\ \A k \in 0 .. n : c[k] = f[k]
      BY <1>4, <1>9
    <2>2. c = [k \in 0 .. n |-> c[k]] /\ f = [k \in 0 .. n |-> f[k]]
      BY <1>4, <1>6 DEF c
    <2> QED  BY <2>1, <2>2
  <1> QED  BY <1>2, <1>10 DEF c

\* What one climb remembers is right, and m is part of it.
LEMMA RememberedRight ==
    ASSUME IsFiniteSet(DOMAIN objects), NEW rank, Falls(objects, rank),
           NEW roots, Right(roots), NEW m \in DOMAIN objects
    PROVE  /\ Right(Remembered(roots, m))
           /\ DOMAIN roots \cup {m} \subseteq DOMAIN Remembered(roots, m)
  <1> DEFINE n == Cardinality(DOMAIN objects)
             next == Climbs(roots)
             climb == Climb(roots, m)
             S == {k \in DOMAIN objects : ThreadRoot(objects, k) = ThreadRoot(objects, m)}
  <1>1. n \in Nat
    BY FS_CardinalityType
  <1>2. IsWalk(next, m, n, climb)
    BY ClimbIsWalk
  <1>3. StaysIn(next, S)
    <2> SUFFICES ASSUME NEW k \in S PROVE next[k] \in S
      BY DEF StaysIn
    <2>1. CASE k \in DOMAIN roots \/ objects[k].parent \notin DOMAIN objects
      BY <2>1 DEF Climbs, Up
    <2>2. CASE k \notin DOMAIN roots /\ objects[k].parent \in DOMAIN objects
      <3>1. next[k] = objects[k].parent
        BY <2>2 DEF Climbs, Up
      <3>2. ThreadRoot(objects, k) = ThreadRoot(objects, objects[k].parent)
        BY <2>2, ParentsThread
      <3> QED  BY <2>2, <3>1, <3>2
    <2> QED  BY <2>1, <2>2
  <1>4. climb[0] = m /\ climb \in [0 .. n -> S]
    <2>1. m \in S
      OBVIOUS
    <2> HIDE DEF S, n, next, climb
    <2> QED  BY <1>1, <1>2, <1>3, <2>1, WalkStays
  <1>5. Descends(next, DOMAIN objects, rank)
    BY DEF Falls, Descends, Climbs, Up
  <1>6. climb[n] \in DOMAIN objects /\ next[climb[n]] = climb[n]
    <2> HIDE DEF next, climb
    <2> QED  BY <1>2, <1>5, WalkEnds
  <1>7. climb[n] \in S
    BY <1>1, <1>4
  <1>8. CASE climb[n] \in DOMAIN roots
    <2> DEFINE known == Remembered(roots, m)
    <2>1. known = [k \in DOMAIN roots \cup Range(climb) |->
                      IF k \in DOMAIN roots THEN roots[k] ELSE roots[climb[n]]]
      BY <1>8 DEF Remembered
    <2>2. roots[climb[n]] = ThreadRoot(objects, m)
      BY <1>7, <1>8 DEF Right
    <2>3. Range(climb) \subseteq S /\ m \in Range(climb)
      BY <1>1, <1>4 DEF Range
    <2> HIDE DEF known, climb
    <2>4. \A k \in DOMAIN known : k \in DOMAIN objects /\ known[k] = ThreadRoot(objects, k)
      BY <2>1, <2>2, <2>3 DEF Right
    <2> QED  BY <2>1, <2>3, <2>4 DEF Right, known
  <1>9. CASE climb[n] \notin DOMAIN roots
    <2> DEFINE known == Remembered(roots, m)
    <2>1. known = [k \in DOMAIN roots \cup Range(climb) |->
                      IF k \in DOMAIN roots THEN roots[k] ELSE climb[n]]
      BY <1>9 DEF Remembered
    <2>2. Up(objects, climb[n]) = climb[n]
      BY <1>6, <1>9 DEF Climbs
    <2>3. objects[climb[n]].parent \notin DOMAIN objects
      BY <1>6, <2>2 DEF Up, Falls
    <2>4. climb[n] = ThreadRoot(objects, m)
      BY <1>6, <1>7, <2>3, TopIsRoot
    <2>5. Range(climb) \subseteq S /\ m \in Range(climb)
      BY <1>1, <1>4 DEF Range
    <2> HIDE DEF known, climb
    <2>6. \A k \in DOMAIN known : k \in DOMAIN objects /\ known[k] = ThreadRoot(objects, k)
      BY <2>1, <2>4, <2>5 DEF Right
    <2> QED  BY <2>1, <2>5, <2>6 DEF Right, known
  <1> QED  BY <1>8, <1>9

\* The pass over the store: thread_roots finds for every message the root that
\* a walk of its own would find.
LEMMA RootsAgreeAll == ASSUME ReadingTypeOK, RepliesLater PROVE RootsAgree
  <1> DEFINE ms == DOMAIN objects
             n == Cardinality(ms)
             line == Line(ms)
             Pass(k, r) == r = [i \in 0 .. k |->
                                  IF i = 0 THEN [m \in {} |-> None]
                                  ELSE Remembered(r[i - 1], line[i])]
  <1>1. IsFiniteSet(ms) /\ Falls(objects, Places) /\ Lined
    BY StoreFalls, StoreIsLined
  <1>2. /\ n \in Nat /\ Len(line) = n /\ line \in [1 .. n -> ms]
        /\ \A m \in ms : \E i \in 1 .. n : line[i] = m
    BY <1>1, InLine, LineIsSeq
  <1> HIDE DEF line, n
  <1>3. \E r : Pass(n, r)
    <2> DEFINE T == {k \in Nat : \E r : Pass(k, r)}
    <2>1. 0 \in T
      <3> DEFINE r == [i \in 0 .. 0 |-> [m \in {} |-> None]]
      <3>1. Pass(0, r)
        OBVIOUS
      <3> HIDE DEF Pass, r
      <3> QED  BY <3>1
    <2>2. ASSUME NEW k \in 0 .. n - 1, k \in T PROVE k + 1 \in T
      <3>1. PICK r : Pass(k, r)
        BY <2>2
      <3> DEFINE q == [i \in 0 .. k + 1 |->
                         IF i = k + 1 THEN Remembered(r[k], line[k + 1]) ELSE r[i]]
      <3>2. ASSUME NEW i \in 0 .. k + 1
            PROVE  q[i] = IF i = 0 THEN [m \in {} |-> None] ELSE Remembered(q[i - 1], line[i])
        <4>1. \A j \in 0 .. k : q[j] = r[j]
          OBVIOUS
        <4>2. CASE i = k + 1
          BY <4>1, <4>2
        <4>3. CASE i \in 0 .. k
          <5>1. r[i] = IF i = 0 THEN [m \in {} |-> None] ELSE Remembered(r[i - 1], line[i])
            BY <3>1, <4>3
          <5>2. i # 0 => i - 1 \in 0 .. k
            BY <4>3
          <5> QED  BY <4>1, <4>3, <5>1, <5>2
        <4> QED  BY <4>2, <4>3
      <3>3. q = [i \in 0 .. k + 1 |-> q[i]]
        OBVIOUS
      <3>4. Pass(k + 1, q)
        <4> HIDE DEF q
        <4> QED  BY <3>2, <3>3
      <3> HIDE DEF Pass, q
      <3> QED  BY <3>4
    <2>3. T \in SUBSET Nat
      OBVIOUS
    <2>4. 0 .. n \subseteq T
      <3> HIDE DEF T
      <3> QED  BY <1>2, <2>1, <2>2, <2>3, Climbing
    <2>5. n \in T
      <3> HIDE DEF T
      <3> QED  BY <1>2, <2>4
    <2> HIDE DEF Pass
    <2> QED  BY <2>5
  <1> DEFINE roots == CHOOSE r : Pass(n, r)
  <1>4. Pass(n, roots)
    <2> HIDE DEF Pass
    <2> QED  BY <1>3
  <1>5. ThreadRoots = roots[n]
    BY <1>2 DEF ThreadRoots, line
  <1> HIDE DEF roots
  <1> DEFINE Passed(i) == {line[j] : j \in 1 .. i}
             T == {i \in 0 .. n : Right(roots[i]) /\ Passed(i) \subseteq DOMAIN roots[i]}
  <1>6. 0 \in T
    <2>1. roots[0] = [m \in {} |-> None]
      BY <1>2, <1>4
    <2> QED  BY <1>2, <2>1 DEF Right
  <1>7. ASSUME NEW i \in 0 .. n - 1, i \in T PROVE i + 1 \in T
    <2>1. i + 1 \in 0 .. n /\ i + 1 # 0 /\ (i + 1) - 1 = i /\ i + 1 \in 1 .. n
      BY <1>2
    <2>2. roots[i + 1] = Remembered(roots[i], line[i + 1])
      <3>1. roots[i + 1] = Remembered(roots[(i + 1) - 1], line[i + 1])
        BY <1>4, <2>1
      <3> QED  BY <2>1, <3>1
    <2>3. line[i + 1] \in DOMAIN objects
      BY <1>2, <2>1
    <2>4. Right(roots[i])
      BY <1>7
    <2>5. /\ Right(roots[i + 1])
          /\ DOMAIN roots[i] \cup {line[i + 1]} \subseteq DOMAIN roots[i + 1]
      BY <1>1, <2>2, <2>3, <2>4, RememberedRight
    <2>6. Passed(i + 1) = Passed(i) \cup {line[i + 1]}
      <3>1. 1 .. i + 1 = (1 .. i) \cup {i + 1}
        BY <1>2
      <3> QED  BY <3>1
    <2>7. Passed(i) \subseteq DOMAIN roots[i]
      BY <1>7
    <2> QED  BY <2>1, <2>5, <2>6, <2>7
  <1>8. 0 .. n \subseteq T
    <2>1. T \in SUBSET Nat
      BY <1>2
    <2> HIDE DEF T
    <2> QED  BY <1>2, <1>6, <1>7, <2>1, Climbing
  <1>9. Right(roots[n]) /\ ms \subseteq DOMAIN roots[n]
    <2>1. n \in T
      BY <1>2, <1>8
    <2>2. ms \subseteq Passed(n)
      BY <1>2
    <2> QED  BY <2>1, <2>2
  <1>10. roots[n] = [m \in DOMAIN roots[n] |-> roots[n][m]]
    <2>1. CASE n = 0
      <3>1. roots[n] = [m \in {} |-> None]
        BY <1>2, <1>4, <2>1
      <3> QED  BY <3>1
    <2>2. CASE n # 0
      <3>1. n \in 0 .. n
        BY <1>2
      <3>2. roots[n] = Remembered(roots[n - 1], line[n])
        BY <1>4, <2>2, <3>1
      <3> QED  BY <3>2 DEF Remembered
    <2> QED  BY <2>1, <2>2
  <1>11. DOMAIN roots[n] = ms /\ \A m \in ms : roots[n][m] = ThreadRoot(objects, m)
    BY <1>9 DEF Right
  <1> QED  BY <1>5, <1>10, <1>11 DEF RootsAgree

-----------------------------------------------------------------------------
(* An inbox by conversation                                                *)

\* One step up an inbox: to the parent, when that waits too.
WaitingUps(a) ==
    [m \in Waiting(a) |-> IF objects[m].parent \in Waiting(a) THEN objects[m].parent ELSE m]

\* Whoever waits for a parent is shown it.
LEMMA WaitingIsShown ==
    ASSUME ReadingTypeOK, NEW a, NEW m \in Waiting(a)
    PROVE  LET shown == ShownParent(objects, objects[m], a, Directory) IN
           IF shown \in Waiting(a) THEN shown = WaitingUps(a)[m] ELSE WaitingUps(a)[m] = m
  <1>1. Waiting(a) \subseteq DOMAIN objects /\ None \notin DOMAIN objects
    BY StoreIsLined, NoneIsNoId DEF Waiting
  <1>2. \A k \in Waiting(a) : MayAttachTo(objects, a, k, Directory)
    BY DEF Waiting, MayAttachTo, IsPartyTo
  <1>3. CASE objects[m].parent \in Waiting(a)
    BY <1>2, <1>3 DEF ShownParent, WaitingUps
  <1>4. CASE objects[m].parent \notin Waiting(a)
    BY <1>1, <1>4 DEF ShownParent, WaitingUps
  <1> QED  BY <1>3, <1>4

\* A conversation's first waiting turn is where a walk over those that wait ends.
LEMMA RootAmongIsWalked ==
    ASSUME ReadingTypeOK, NEW a, NEW m \in Waiting(a), NEW n, n = Cardinality(Waiting(a)),
           n \in Nat, NEW f, IsWalk(WaitingUps(a), m, n, f)
    PROVE  RootAmong(Waiting(a), a, m) = f[n]
  <1> DEFINE W == Waiting(a)
             shown(k) == ShownParent(objects, objects[k], a, Directory)
             Is(c) == c = [k \in 0 .. n |-> IF k = 0 THEN m
                                            ELSE IF shown(c[k - 1]) \in W THEN shown(c[k - 1])
                                            ELSE c[k - 1]]
  <1>1. StaysIn(WaitingUps(a), W)
    BY DEF StaysIn, WaitingUps
  <1>2. /\ f[0] = m /\ f \in [0 .. n -> W]
        /\ \A i \in 0 .. n - 1 : f[i + 1] = WaitingUps(a)[f[i]]
    BY <1>1, WalkStays
  <1>3. \A k \in W : WaitingUps(a)[k] = IF shown(k) \in W THEN shown(k) ELSE k
    BY WaitingIsShown
  <1> HIDE DEF W, shown
  <1>4. Is(f)
    <2>1. ASSUME NEW k \in 0 .. n
          PROVE  f[k] = IF k = 0 THEN m ELSE IF shown(f[k - 1]) \in W THEN shown(f[k - 1])
                                             ELSE f[k - 1]
      <3>1. k # 0 => f[(k - 1) + 1] = WaitingUps(a)[f[k - 1]] /\ f[k - 1] \in W
        BY <1>2
      <3> QED  BY <1>2, <1>3, <3>1
    <2>2. f = [k \in 0 .. n |-> f[k]]
      BY <1>2
    <2> QED  BY <2>1, <2>2
  <1> DEFINE c == CHOOSE c : Is(c)
  <1>5. Is(c)
    <2> HIDE DEF Is
    <2> QED  BY <1>4
  <1>6. RootAmong(Waiting(a), a, m) = c[n]
    BY DEF RootAmong, W, shown
  <1> HIDE DEF c
  <1> DEFINE T == {k \in 0 .. n : c[k] = f[k]}
  <1>7. 0 \in T
    BY <1>2, <1>5
  <1>8. ASSUME NEW k \in 0 .. n - 1, k \in T PROVE k + 1 \in T
    <2>1. k + 1 \in 0 .. n /\ k + 1 # 0 /\ (k + 1) - 1 = k
      OBVIOUS
    <2>2. c[k + 1] = IF shown(c[k]) \in W THEN shown(c[k]) ELSE c[k]
      BY <1>5, <2>1
    <2>3. f[k + 1] = IF shown(f[k]) \in W THEN shown(f[k]) ELSE f[k]
      <3>1. f[k] \in W /\ f[k + 1] = WaitingUps(a)[f[k]]
        BY <1>2
      <3> QED  BY <1>3, <3>1
    <2>4. c[k] = f[k]
      BY <1>8
    <2> QED  BY <2>1, <2>2, <2>3, <2>4
  <1>9. 0 .. n \subseteq T
    <2>1. T \in SUBSET Nat
      OBVIOUS
    <2> HIDE DEF T
    <2> QED  BY <1>7, <1>8, <2>1, Climbing
  <1>10. n \in T
    BY <1>9
  <1> QED  BY <1>6, <1>10

\* Where a conversation begins: with a turn that waits, that is in the same
\* thread and the beginning of what its own replies are in.
LEMMA RootWaits ==
    ASSUME ReadingTypeOK, RepliesLater, NEW a, NEW m \in Waiting(a)
    PROVE  LET root == RootAmong(Waiting(a), a, m) IN
           /\ root \in Waiting(a)
           /\ ThreadRoot(objects, root) = ThreadRoot(objects, m)
           /\ RootAmong(Waiting(a), a, root) = root
           /\ objects[m].parent \in Waiting(a) =>
                  RootAmong(Waiting(a), a, objects[m].parent) = root
  <1> DEFINE W == Waiting(a)
             n == Cardinality(W)
             next == WaitingUps(a)
             root == RootAmong(W, a, m)
  <1>1. /\ W \in SUBSET DOMAIN objects /\ IsFiniteSet(DOMAIN objects)
        /\ Falls(objects, Places)
    BY StoreFalls DEF Waiting
  <1>2. IsFiniteSet(W) /\ n \in Nat
    <2> HIDE DEF W
    <2> QED  BY <1>1, FS_Subset, FS_CardinalityType
  <1> DEFINE rank == [k \in W |-> Places[k]]
  <1>3. Descends(next, W, rank)
    <2>1. next \in [W -> W]
      BY DEF WaitingUps
    <2>2. rank \in [W -> Nat]
      BY <1>1 DEF Falls
    <2>3. ASSUME NEW k \in W, next[k] # k PROVE rank[next[k]] < rank[k]
      <3>1. next[k] = objects[k].parent /\ next[k] \in W
        BY <2>3 DEF WaitingUps
      <3>2. Places[objects[k].parent] < Places[k]
        BY <1>1, <3>1 DEF Falls
      <3> QED  BY <3>1, <3>2
    <2> HIDE DEF W, next, rank
    <2> QED  BY <2>1, <2>2, <2>3 DEF Descends
  <1>4. PICK f : IsWalk(next, m, n, f)
    BY <1>2, WalkExists
  <1>5. root = f[n]
    BY <1>2, <1>4, RootAmongIsWalked
  <1>6. root \in W /\ next[root] = root
    <2> HIDE DEF W, next, root, rank
    <2>1. m \in W
      BY DEF W
    <2> QED  BY <1>2, <1>3, <1>4, <1>5, <2>1, WalkEnds
  <1>7. RootAmong(W, a, root) = root
    <2>1. PICK g : IsWalk(next, root, n, g)
      BY <1>2, WalkExists
    <2>2. g[n] = root
      <3> HIDE DEF next, root, n
      <3> QED  BY <1>2, <1>6, <2>1, WalkAtEnd
    <2>3. RootAmong(W, a, root) = g[n]
      <3> HIDE DEF root
      <3> QED  BY <1>2, <1>6, <2>1, RootAmongIsWalked
    <2> QED  BY <2>2, <2>3
  <1>8. ASSUME objects[m].parent \in W PROVE RootAmong(W, a, objects[m].parent) = root
    <2>1. next[m] = objects[m].parent
      BY <1>8 DEF WaitingUps
    <2>2. PICK g : IsWalk(next, next[m], n, g)
      BY <1>2, WalkExists
    <2>3. g[n] = f[n]
      <3> HIDE DEF W, next, rank, n
      <3>1. m \in W /\ n = Cardinality(W)
        BY DEF W, n
      <3> QED  BY <1>2, <1>3, <1>4, <2>2, <3>1, WalkFromNext
    <2>4. RootAmong(W, a, objects[m].parent) = g[n]
      BY <1>2, <1>8, <2>1, <2>2, RootAmongIsWalked
    <2> QED  BY <1>5, <2>3, <2>4
  <1>9. ThreadRoot(objects, root) = ThreadRoot(objects, m)
    <2> DEFINE S == {k \in W : ThreadRoot(objects, k) = ThreadRoot(objects, m)}
    <2>1. StaysIn(next, S)
      <3> SUFFICES ASSUME NEW k \in S PROVE next[k] \in S
        BY DEF StaysIn
      <3>1. CASE objects[k].parent \notin W
        BY <3>1 DEF WaitingUps
      <3>2. CASE objects[k].parent \in W
        <4>1. next[k] = objects[k].parent /\ next[k] \in W
          BY <3>2 DEF WaitingUps
        <4>2. objects[k].parent \in DOMAIN objects /\ k \in DOMAIN objects
          BY <1>1, <3>2
        <4>3. ThreadRoot(objects, k) = ThreadRoot(objects, objects[k].parent)
          BY <1>1, <4>2, ParentsThread
        <4> QED  BY <4>1, <4>3
      <3> QED  BY <3>1, <3>2
    <2>2. m \in S
      OBVIOUS
    <2>3. f \in [0 .. n -> S]
      <3> HIDE DEF S, next, n
      <3> QED  BY <1>2, <1>4, <2>1, <2>2, WalkStays
    <2>4. f[n] \in S
      BY <1>2, <2>3
    <2> QED  BY <1>5, <2>4
  <1> QED  BY <1>6, <1>7, <1>8, <1>9

\* An inbox by conversation has every waiting turn once, with its parent:
\* api._threads over what peek returns.
LEMMA GroupsPartitionAll == ASSUME ReadingTypeOK, RepliesLater PROVE GroupsPartition
  <1> SUFFICES ASSUME NEW a \in Actors
               PROVE  /\ UNION {g.unread : g \in Threads(a)} = Waiting(a)
                      /\ \A g, h \in Threads(a) : g # h => g.unread \cap h.unread = {}
                      /\ \A g \in Threads(a) :
                            /\ g.root \in g.unread
                            /\ \A m \in g.unread :
                                  /\ ThreadRoot(objects, m) = ThreadRoot(objects, g.root)
                                  /\ objects[m].parent \in Waiting(a) => objects[m].parent \in g.unread
    BY DEF GroupsPartition
  <1> DEFINE W == Waiting(a)
             Root(m) == RootAmong(W, a, m)
             group(root) == {m \in W : Root(m) = root}
             Begun(root) == [root |-> root, unread |-> group(root), last |-> Last(Line(group(root)))]
  <1>1. Threads(a) = {Begun(root) : root \in {Root(m) : m \in W}}
    BY DEF Threads
  <1>2. \A m \in W : /\ Root(m) \in W /\ Root(Root(m)) = Root(m)
                     /\ ThreadRoot(objects, Root(m)) = ThreadRoot(objects, m)
                     /\ objects[m].parent \in W => Root(objects[m].parent) = Root(m)
    BY RootWaits
  <1>3. ASSUME NEW g \in Threads(a)
        PROVE  /\ g.root \in W /\ g = Begun(g.root) /\ g.unread = group(g.root)
               /\ Root(g.root) = g.root
    <2>1. PICK m \in W : g = Begun(Root(m))
      BY <1>1
    <2>2. g.root = Root(m)
      BY <2>1
    <2> HIDE DEF Root, W
    <2> QED  BY <1>2, <2>1, <2>2
  <1>4. ASSUME NEW m \in W PROVE Begun(Root(m)) \in Threads(a) /\ m \in Begun(Root(m)).unread
    BY <1>1
  <1> HIDE DEF W, Root, Begun
  <1>5. UNION {g.unread : g \in Threads(a)} = W
    BY <1>3, <1>4
  <1>6. ASSUME NEW g \in Threads(a), NEW h \in Threads(a), g # h
        PROVE  g.unread \cap h.unread = {}
    BY <1>3, <1>6
  <1>7. ASSUME NEW g \in Threads(a)
        PROVE  /\ g.root \in g.unread
               /\ \A m \in g.unread :
                     /\ ThreadRoot(objects, m) = ThreadRoot(objects, g.root)
                     /\ objects[m].parent \in W => objects[m].parent \in g.unread
    BY <1>2, <1>3
  <1> QED  BY <1>5, <1>6, <1>7 DEF W

-----------------------------------------------------------------------------
(* A thread as a tree                                                      *)

LEMMA Element ==
    ASSUME NEW S, NEW s \in Seq(S), NEW i \in 1 .. Len(s)
    PROVE  s[i] \in S
OBVIOUS

LEMMA SeqWidens ==
    ASSUME NEW S, NEW T, S \subseteq T, NEW s \in Seq(S)
    PROVE  s \in Seq(T)
OBVIOUS

LEMMA Joined ==
    ASSUME NEW S, NEW s \in Seq(S), NEW t \in Seq(S), Once(s), Once(t),
           Range(s) \cap Range(t) = {}
    PROVE  s \o t \in Seq(S) /\ Once(s \o t) /\ Range(s \o t) = Range(s) \cup Range(t)
  <1>1. /\ Len(s) \in Nat /\ Len(t) \in Nat /\ DOMAIN s = 1 .. Len(s) /\ DOMAIN t = 1 .. Len(t)
        /\ s \o t \in Seq(S) /\ DOMAIN (s \o t) = 1 .. Len(s) + Len(t)
        /\ \A i \in DOMAIN s : (s \o t)[i] = s[i]
        /\ \A i \in DOMAIN t : (s \o t)[Len(s) + i] = t[i]
    OBVIOUS
  <1> DEFINE st == s \o t
  <1> HIDE DEF st
  <1>2. ASSUME NEW i \in DOMAIN st
        PROVE  \/ i \in DOMAIN s /\ st[i] = s[i]
               \/ i - Len(s) \in DOMAIN t /\ st[i] = t[i - Len(s)]
    <2>1. CASE i <= Len(s)
      BY <1>1, <2>1 DEF st
    <2>2. CASE i > Len(s)
      <3>1. i - Len(s) \in DOMAIN t /\ Len(s) + (i - Len(s)) = i
        BY <1>1, <2>2 DEF st
      <3>2. (s \o t)[Len(s) + (i - Len(s))] = t[i - Len(s)]
        BY <1>1, <3>1
      <3> QED  BY <3>1, <3>2 DEF st
    <2> QED  BY <1>1, <2>1, <2>2 DEF st
  <1>3. Range(st) = Range(s) \cup Range(t)
    <2>1. Range(st) \subseteq Range(s) \cup Range(t)
      BY <1>2 DEF Range
    <2>2. ASSUME NEW i \in DOMAIN s PROVE s[i] \in Range(st)
      <3>1. i \in DOMAIN st /\ st[i] = s[i]
        BY <1>1 DEF st
      <3> QED  BY <3>1 DEF Range
    <2>3. ASSUME NEW i \in DOMAIN t PROVE t[i] \in Range(st)
      <3>1. Len(s) + i \in DOMAIN st /\ st[Len(s) + i] = t[i]
        BY <1>1 DEF st
      <3> QED  BY <3>1 DEF Range
    <2> QED  BY <2>1, <2>2, <2>3 DEF Range
  <1>4. ASSUME NEW i \in DOMAIN st, NEW j \in DOMAIN st, st[i] = st[j] PROVE i = j
    <2>1. CASE i \in DOMAIN s /\ st[i] = s[i] /\ j \in DOMAIN s /\ st[j] = s[j]
      BY <1>4, <2>1 DEF Once
    <2>2. CASE /\ i - Len(s) \in DOMAIN t /\ st[i] = t[i - Len(s)]
               /\ j - Len(s) \in DOMAIN t /\ st[j] = t[j - Len(s)]
      <3>1. i - Len(s) = j - Len(s)
        BY <1>4, <2>2 DEF Once
      <3> QED  BY <1>1, <3>1 DEF st
    <2>3. \A k \in DOMAIN s, l \in DOMAIN t : s[k] # t[l]
      BY DEF Range
    <2> QED  BY <1>2, <1>4, <2>1, <2>2, <2>3
  <1> QED  BY <1>1, <1>3, <1>4 DEF Once, st

\* The calls of one depth: one for each turn.
LEMMA CallsOnce ==
    ASSUME Lined, NEW turns \in SUBSET DOMAIN objects, NEW depth \in Nat
    PROVE  /\ Calls(turns, depth) \in Seq([turn : turns, depth : Nat])
           /\ Once(Calls(turns, depth))
           /\ Range(Calls(turns, depth)) = {[turn |-> m, depth |-> depth] : m \in turns}
  <1> DEFINE n == Cardinality(turns)
             line == Line(turns)
  <1>1. /\ n \in Nat /\ line \in [1 .. n -> turns] /\ DOMAIN line = 1 .. n
        /\ \A i, j \in 1 .. n : line[i] = line[j] => i = j
        /\ \A m \in turns : \E i \in 1 .. n : line[i] = m
    BY InLine
  <1>2. Calls(turns, depth) = [i \in 1 .. n |-> [turn |-> line[i], depth |-> depth]]
    BY <1>1 DEF Calls
  <1> HIDE DEF n, line
  <1> DEFINE calls == Calls(turns, depth)
  <1> HIDE DEF calls
  <1>3. calls = [i \in 1 .. n |-> [turn |-> line[i], depth |-> depth]]
    BY <1>2 DEF calls
  <1>4. calls \in Seq([turn : turns, depth : Nat])
    BY <1>1, <1>3
  <1>5. Once(calls)
    BY <1>1, <1>3 DEF Once
  <1>6. Range(calls) = {[turn |-> m, depth |-> depth] : m \in turns}
    BY <1>1, <1>3 DEF Range
  <1> QED  BY <1>4, <1>5, <1>6 DEF calls

Nested(depth) == IF depth < MaxNest THEN depth ELSE MaxNest

\* Walks over a thread, part of the way.
Walks(turns) ==
    [rows : Seq([turn : turns, depth : Nat, orphan : BOOLEAN]),
     calls : Seq([turn : turns, depth : Nat])]

\* A row after the row of what its turn answers, and one deeper; or at the top.
Placed(turns, rows) ==
    \A j \in DOMAIN rows :
        LET parent == objects[rows[j].turn].parent IN
        IF parent \in turns
        THEN ~rows[j].orphan /\ \E i \in DOMAIN rows :
                /\ i < j /\ rows[i].turn = parent
                /\ rows[j].depth \in {rows[i].depth + 1, MaxNest}
        ELSE rows[j].depth = 0 /\ rows[j].orphan = (parent # None)

\* A call for a reply to a row, one deeper; or for a top.
Called(turns, rows, calls) ==
    \A call \in Range(calls) :
        LET parent == objects[call.turn].parent IN
        IF parent \in turns
        THEN \E i \in DOMAIN rows :
                rows[i].turn = parent /\ call.depth > 0 /\ rows[i].depth = Nested(call.depth - 1)
        ELSE call.depth = 0

\* No turn comes twice, as a row or as a call.
Apart(rows, calls) ==
    /\ \A i, j \in DOMAIN rows : rows[i].turn = rows[j].turn => i = j
    /\ Once(calls)
    /\ \A c, d \in Range(calls) : c.turn = d.turn => c = d
    /\ \A i \in DOMAIN rows, c \in Range(calls) : rows[i].turn # c.turn

Met(rows, calls) ==
    {rows[i].turn : i \in DOMAIN rows} \cup {c.turn : c \in Range(calls)}

\* Every top is met, and every reply to a row.
Complete(turns, rows, calls) ==
    \A m \in turns :
        objects[m].parent \notin turns \/ (\E i \in DOMAIN rows : objects[m].parent = rows[i].turn)
            => m \in Met(rows, calls)

Walking(turns, walk) ==
    /\ walk \in Walks(turns)
    /\ Placed(turns, walk.rows) /\ Called(turns, walk.rows, walk.calls)
    /\ Apart(walk.rows, walk.calls) /\ Complete(turns, walk.rows, walk.calls)

LEMMA WalkingStarts ==
    ASSUME Lined, NEW turns \in SUBSET DOMAIN objects, NEW walk,
           walk = [rows |-> <<>>,
                   calls |-> Calls({m \in turns : objects[m].parent \notin turns}, 0)]
    PROVE  Walking(turns, walk)
  <1> DEFINE tops == {m \in turns : objects[m].parent \notin turns}
             calls == Calls(tops, 0)
  <1>1. tops \in SUBSET DOMAIN objects /\ tops \subseteq turns
    OBVIOUS
  <1>2. calls \in Seq([turn : tops, depth : Nat]) /\ Once(calls)
        /\ Range(calls) = {[turn |-> m, depth |-> 0] : m \in tops}
    <2> HIDE DEF tops
    <2> QED  BY <1>1, CallsOnce
  <1>3. walk.rows = <<>> /\ walk.calls = calls /\ DOMAIN walk.rows = {}
    <2>1. walk.rows = <<>> /\ walk.calls = calls
      OBVIOUS
    <2>2. DOMAIN <<>> = {}
      OBVIOUS
    <2> QED  BY <2>1, <2>2
  <1>4. walk \in Walks(turns)
    <2>1. [turn : tops, depth : Nat] \subseteq [turn : turns, depth : Nat]
      OBVIOUS
    <2>2. calls \in Seq([turn : turns, depth : Nat])
      <3> HIDE DEF calls, tops
      <3> QED  BY <1>2, <2>1, SeqWidens
    <2>3. <<>> \in Seq([turn : turns, depth : Nat, orphan : BOOLEAN])
      OBVIOUS
    <2>4. walk = [rows |-> <<>>, calls |-> calls]
      OBVIOUS
    <2> HIDE DEF calls
    <2> QED  BY <2>2, <2>3, <2>4 DEF Walks
  <1> HIDE DEF calls
  <1>5. Placed(turns, walk.rows)
    BY <1>3 DEF Placed
  <1>6. Called(turns, walk.rows, walk.calls)
    BY <1>2, <1>3 DEF Called
  <1>7. Apart(walk.rows, walk.calls)
    <2>1. \A c, d \in Range(calls) : c.turn = d.turn => c = d
      BY <1>2
    <2> QED  BY <1>2, <1>3, <2>1 DEF Apart
  <1>8. Complete(turns, walk.rows, walk.calls)
    <2>1. ASSUME NEW m \in tops PROVE m \in Met(walk.rows, walk.calls)
      <3>1. [turn |-> m, depth |-> 0] \in Range(calls)
        BY <1>2
      <3>2. [turn |-> m, depth |-> 0].turn = m
        OBVIOUS
      <3> QED  BY <1>3, <3>1, <3>2 DEF Met
    <2>2. \A m \in turns : objects[m].parent \notin turns => m \in tops
      OBVIOUS
    <2> HIDE DEF tops
    <2> QED  BY <1>3, <2>1, <2>2 DEF Complete
  <1> QED  BY <1>4, <1>5, <1>6, <1>7, <1>8 DEF Walking

LEMMA WalkingGoesOn ==
    ASSUME Lined, NEW turns \in SUBSET DOMAIN objects, NEW walk,
           Walking(turns, walk), walk.calls # <<>>
    PROVE  /\ Walking(turns, Walked(turns, walk))
           /\ Len(Walked(turns, walk).rows) = Len(walk.rows) + 1
  <1> DEFINE rows == walk.rows
             call == Head(walk.calls)
             top == call.turn
             replies == {m \in turns : objects[m].parent = top}
             new == Calls(replies, call.depth + 1)
             rest == Tail(walk.calls)
             row == Row(turns, top, call.depth)
             more == Append(rows, row)
             calls == new \o rest
             k == Len(rows) + 1
  <1>1. /\ rows \in Seq([turn : turns, depth : Nat, orphan : BOOLEAN])
        /\ walk.calls \in Seq([turn : turns, depth : Nat])
        /\ Placed(turns, rows) /\ Called(turns, rows, walk.calls)
        /\ Apart(rows, walk.calls) /\ Complete(turns, rows, walk.calls)
    BY DEF Walking, Walks
  <1>2. /\ call \in Range(walk.calls) /\ call \in [turn : turns, depth : Nat]
        /\ rest \in Seq([turn : turns, depth : Nat]) /\ Once(rest)
        /\ Range(rest) = Range(walk.calls) \ {call}
    <2>1. Once(walk.calls)
      BY <1>1 DEF Apart
    <2> QED  BY <1>1, <2>1, OneLess
  <1>3. top \in turns /\ call.depth \in Nat /\ call.depth + 1 \in Nat
    BY <1>2
  <1>4. /\ new \in Seq([turn : turns, depth : Nat]) /\ Once(new)
        /\ Range(new) = {[turn |-> m, depth |-> call.depth + 1] : m \in replies}
    <2>1. replies \in SUBSET DOMAIN objects /\ replies \subseteq turns
      OBVIOUS
    <2> HIDE DEF replies, call
    <2>2. /\ new \in Seq([turn : replies, depth : Nat]) /\ Once(new)
          /\ Range(new) = {[turn |-> m, depth |-> call.depth + 1] : m \in replies}
      BY <1>3, <2>1, CallsOnce
    <2>3. [turn : replies, depth : Nat] \subseteq [turn : turns, depth : Nat]
      BY <2>1
    <2> HIDE DEF new
    <2>4. new \in Seq([turn : turns, depth : Nat])
      BY <2>2, <2>3, SeqWidens
    <2> QED  BY <2>2, <2>4
  <1>5. /\ k \in Nat /\ k > 0 /\ DOMAIN rows = 1 .. k - 1 /\ DOMAIN more = 1 .. k /\ k \notin DOMAIN rows
        /\ Len(more) = k /\ more[k] = row /\ \A i \in DOMAIN rows : more[i] = rows[i]
    <2> HIDE DEF row, rows
    <2> QED  BY <1>1
  <1>6. /\ row.turn = top /\ row.depth = Nested(call.depth)
        /\ row.orphan = (objects[top].parent # None /\ objects[top].parent \notin turns)
        /\ row \in [turn : turns, depth : Nat, orphan : BOOLEAN]
    BY <1>3, ReadingConstants DEF Row, Nested
  <1>7. /\ Walked(turns, walk).rows = more /\ Walked(turns, walk).calls = calls
        /\ Walked(turns, walk) = [rows |-> more, calls |-> calls]
    BY DEF Walked
  <1> HIDE DEF rows, call, top, new, rest, row, more, k
  \* A reply of this turn has not been met: its parent has no row.
  <1>8. ASSUME NEW m \in replies
        PROVE  /\ \A i \in DOMAIN rows : rows[i].turn # m
               /\ \A c \in Range(walk.calls) : c.turn # m
    <2>1. objects[m].parent = top /\ top \in turns
      BY <1>3
    <2>2. \A i \in DOMAIN rows : rows[i].turn # top
      BY <1>1, <1>2 DEF Apart, top
    <2>3. ASSUME NEW i \in DOMAIN rows, rows[i].turn = m PROVE FALSE
      BY <1>1, <2>1, <2>2, <2>3 DEF Placed
    <2>4. ASSUME NEW c \in Range(walk.calls), c.turn = m PROVE FALSE
      BY <1>1, <2>1, <2>2, <2>4 DEF Called
    <2> QED  BY <2>3, <2>4
  <1>9. top \notin replies
    BY <1>2, <1>8 DEF top
  <1>10. /\ calls \in Seq([turn : turns, depth : Nat]) /\ Once(calls)
         /\ Range(calls) = Range(new) \cup Range(rest)
    <2>1. Range(new) \cap Range(rest) = {}
      <3> SUFFICES ASSUME NEW c \in Range(new), c \in Range(rest) PROVE FALSE
        OBVIOUS
      <3>1. c.turn \in replies /\ c \in Range(walk.calls)
        BY <1>2, <1>4
      <3> QED  BY <1>8, <3>1
    <2> QED  BY <1>2, <1>4, <2>1, Joined
  <1> HIDE DEF calls
  <1>11. \A c \in Range(calls) :
             \/ c.turn \in replies /\ c.depth = call.depth + 1
             \/ c \in Range(walk.calls) /\ c # call
    BY <1>2, <1>4, <1>10
  <1>12. Placed(turns, more)
    <2> SUFFICES ASSUME NEW j \in DOMAIN more
                 PROVE  LET parent == objects[more[j].turn].parent IN
                        IF parent \in turns
                        THEN ~more[j].orphan /\ \E i \in DOMAIN more :
                                /\ i < j /\ more[i].turn = parent
                                /\ more[j].depth \in {more[i].depth + 1, MaxNest}
                        ELSE more[j].depth = 0 /\ more[j].orphan = (parent # None)
      BY DEF Placed
    <2>1. CASE j \in DOMAIN rows
      <3>1. more[j] = rows[j] /\ \A i \in DOMAIN rows : i \in DOMAIN more /\ more[i] = rows[i]
        BY <1>5, <2>1
      <3> QED  BY <1>1, <2>1, <3>1 DEF Placed
    <2>2. CASE j = k
      <3>1. more[j] = row
        BY <1>5, <2>2
      <3>2. CASE objects[top].parent \in turns
        <4>1. PICK i \in DOMAIN rows : /\ rows[i].turn = objects[top].parent /\ call.depth > 0
                                       /\ rows[i].depth = Nested(call.depth - 1)
          BY <1>1, <1>2, <3>2 DEF Called, top
        <4>2. row.depth \in {rows[i].depth + 1, MaxNest}
          BY <1>3, <1>6, <4>1, ReadingConstants DEF Nested
        <4>3. i < j /\ i \in DOMAIN more /\ more[i] = rows[i]
          BY <1>5, <2>2
        <4> QED  BY <1>6, <3>1, <3>2, <4>1, <4>2, <4>3
      <3>3. CASE objects[top].parent \notin turns
        <4>1. call.depth = 0
          BY <1>1, <1>2, <3>3 DEF Called, top
        <4>2. row.depth = 0
          BY <1>6, <4>1, ReadingConstants DEF Nested
        <4> QED  BY <1>6, <3>1, <3>3, <4>2
      <3> QED  BY <3>2, <3>3
    <2> QED  BY <1>5, <2>1, <2>2
  <1>13. Called(turns, more, calls)
    <2> SUFFICES ASSUME NEW c \in Range(calls)
                 PROVE  LET parent == objects[c.turn].parent IN
                        IF parent \in turns
                        THEN \E i \in DOMAIN more :
                                /\ more[i].turn = parent /\ c.depth > 0
                                /\ more[i].depth = Nested(c.depth - 1)
                        ELSE c.depth = 0
      BY DEF Called
    <2>1. CASE c.turn \in replies /\ c.depth = call.depth + 1
      <3>1. objects[c.turn].parent = top /\ c.depth > 0 /\ c.depth - 1 = call.depth
        BY <1>3, <2>1
      <3>2. k \in DOMAIN more /\ more[k].turn = top /\ more[k].depth = Nested(call.depth)
        BY <1>5, <1>6
      <3> QED  BY <1>3, <3>1, <3>2
    <2>2. CASE c \in Range(walk.calls)
      <3>1. \A i \in DOMAIN rows : i \in DOMAIN more /\ more[i] = rows[i]
        BY <1>5
      <3> QED  BY <1>1, <2>2, <3>1 DEF Called
    <2> QED  BY <1>11, <2>1, <2>2
  <1>14. Apart(more, calls)
    <2>1. ASSUME NEW i \in DOMAIN more, NEW j \in DOMAIN more, more[i].turn = more[j].turn
          PROVE  i = j
      <3>1. \A l \in DOMAIN rows : rows[l].turn # top
        BY <1>1, <1>2 DEF Apart, top
      <3>2. \A l \in DOMAIN more : l = k \/ (l \in DOMAIN rows /\ more[l] = rows[l])
        BY <1>5
      <3>3. more[k].turn = top
        BY <1>5, <1>6
      <3> QED  BY <1>1, <2>1, <3>1, <3>2, <3>3 DEF Apart
    <2>2. ASSUME NEW c \in Range(calls), NEW d \in Range(calls), c.turn = d.turn PROVE c = d
      <3>1. c \in Range(new) => c = [turn |-> c.turn, depth |-> call.depth + 1]
        BY <1>4
      <3>2. d \in Range(new) => d = [turn |-> d.turn, depth |-> call.depth + 1]
        BY <1>4
      <3>3. c \in Range(rest) => c \in Range(walk.calls) /\ c.turn \notin replies
        BY <1>2, <1>8
      <3>4. d \in Range(rest) => d \in Range(walk.calls) /\ d.turn \notin replies
        BY <1>2, <1>8
      <3>5. \A e \in Range(new) : e.turn \in replies
        BY <1>4
      <3>6. \A e, f \in Range(walk.calls) : e.turn = f.turn => e = f
        BY <1>1 DEF Apart
      <3> QED  BY <1>10, <2>2, <3>1, <3>2, <3>3, <3>4, <3>5, <3>6
    <2>3. ASSUME NEW i \in DOMAIN more, NEW c \in Range(calls) PROVE more[i].turn # c.turn
      <3>1. c.turn # top
        <4>1. \A e \in Range(walk.calls) : e.turn = call.turn => e = call
          BY <1>1, <1>2 DEF Apart
        <4> QED  BY <1>9, <1>11, <4>1 DEF top
      <3>2. \A l \in DOMAIN rows : rows[l].turn # c.turn
        BY <1>1, <1>8, <1>11 DEF Apart
      <3>3. i = k \/ (i \in DOMAIN rows /\ more[i] = rows[i])
        BY <1>5
      <3> QED  BY <1>5, <1>6, <3>1, <3>2, <3>3
    <2> QED  BY <1>10, <2>1, <2>2, <2>3 DEF Apart
  <1>15. Complete(turns, more, calls)
    <2>1. Met(rows, walk.calls) \subseteq Met(more, calls)
      <3>1. ASSUME NEW i \in DOMAIN rows PROVE rows[i].turn \in Met(more, calls)
        <4>1. i \in DOMAIN more /\ more[i] = rows[i]
          BY <1>5
        <4> QED  BY <4>1 DEF Met
      <3>2. ASSUME NEW c \in Range(walk.calls) PROVE c.turn \in Met(more, calls)
        <4>1. CASE c = call
          <5>1. k \in DOMAIN more /\ more[k].turn = c.turn
            BY <1>5, <1>6, <4>1 DEF top
          <5> QED  BY <5>1 DEF Met
        <4>2. CASE c # call
          BY <1>2, <1>10, <4>2 DEF Met
        <4> QED  BY <4>1, <4>2
      <3> QED  BY <3>1, <3>2 DEF Met
    <2>2. ASSUME NEW m \in replies PROVE m \in Met(more, calls)
      <3>1. [turn |-> m, depth |-> call.depth + 1] \in Range(calls)
        BY <1>4, <1>10
      <3>2. [turn |-> m, depth |-> call.depth + 1].turn = m
        OBVIOUS
      <3> QED  BY <3>1, <3>2 DEF Met
    <2>3. ASSUME NEW m \in turns,
                 \/ objects[m].parent \notin turns
                 \/ \E i \in DOMAIN more : objects[m].parent = more[i].turn
          PROVE  m \in Met(more, calls)
      <3>1. \A i \in DOMAIN more : more[i].turn = top \/ (i \in DOMAIN rows /\ more[i] = rows[i])
        BY <1>5, <1>6
      <3>2. CASE objects[m].parent = top
        BY <2>2, <3>2
      <3>3. CASE objects[m].parent # top
        <4>1. m \in Met(rows, walk.calls)
          BY <1>1, <2>3, <3>1, <3>3 DEF Complete
        <4> QED  BY <2>1, <4>1
      <3> QED  BY <3>2, <3>3
    <2> QED  BY <2>3 DEF Complete
  <1>16. Walked(turns, walk) \in Walks(turns)
    <2>1. more \in Seq([turn : turns, depth : Nat, orphan : BOOLEAN])
      BY <1>1, <1>6 DEF more
    <2> QED  BY <1>7, <1>10, <2>1 DEF Walks
  <1>17. Walking(turns, Walked(turns, walk))
    BY <1>7, <1>12, <1>13, <1>14, <1>15, <1>16 DEF Walking
  <1>18. Len(Walked(turns, walk).rows) = Len(walk.rows) + 1
    BY <1>5, <1>7 DEF k, rows
  <1> QED  BY <1>17, <1>18

\* A walk that has as many rows as there are turns, or no call left, has a row
\* for every turn, once.
LEMMA WalkingCovers ==
    ASSUME IsFiniteSet(DOMAIN objects), NEW rank, Falls(objects, rank),
           NEW turns \in SUBSET DOMAIN objects, NEW walk, Walking(turns, walk),
           walk.calls = <<>> \/ Len(walk.rows) = Cardinality(turns)
    PROVE  /\ {walk.rows[i].turn : i \in DOMAIN walk.rows} = turns
           /\ Len(walk.rows) = Cardinality(turns)
  <1> DEFINE rows == walk.rows
             k == Len(rows)
             turnOf == [i \in 1 .. k |-> rows[i].turn]
             covered == {rows[i].turn : i \in DOMAIN rows}
  <1>0. rows \in Seq([turn : turns, depth : Nat, orphan : BOOLEAN])
    BY DEF Walking, Walks
  <1>1. /\ \A i, j \in DOMAIN rows : rows[i].turn = rows[j].turn => i = j
        /\ Complete(turns, rows, walk.calls)
    BY DEF Walking, Apart
  <1> HIDE DEF rows
  <1>2. k \in Nat /\ DOMAIN rows = 1 .. k /\ \A i \in 1 .. k : rows[i].turn \in turns
    <2>1. k \in Nat /\ DOMAIN rows = 1 .. k
      BY <1>0
    <2>2. ASSUME NEW i \in 1 .. k PROVE rows[i].turn \in turns
      <3>1. rows[i] \in [turn : turns, depth : Nat, orphan : BOOLEAN]
        BY <1>0, Element
      <3> QED  BY <3>1
    <2> QED  BY <2>1, <2>2
  <1>3. IsFiniteSet(turns) /\ Cardinality(turns) \in Nat
    BY FS_Subset, FS_CardinalityType
  <1>4. IsFiniteSet(1 .. k) /\ Cardinality(1 .. k) = k
    <2>1. k \in Int
      BY <1>2
    <2> HIDE DEF k
    <2> QED  BY <1>2, <2>1, FS_Interval
  <1>5. turnOf \in Injection(1 .. k, turns)
    <2>1. turnOf \in [1 .. k -> turns]
      BY <1>2
    <2>2. \A i, j \in 1 .. k : turnOf[i] = turnOf[j] => i = j
      BY <1>1, <1>2
    <2> HIDE DEF turnOf, k
    <2> QED  BY <2>1, <2>2 DEF Injection, IsInjective
  <1>6. covered = turns
    <2>1. CASE k = Cardinality(turns)
      <3>1. turnOf \in Surjection(1 .. k, turns)
        <4> HIDE DEF turnOf, k
        <4> QED  BY <1>3, <1>4, <1>5, <2>1, FS_Injection
      <3>2. \A m \in turns : \E i \in 1 .. k : turnOf[i] = m
        <4> HIDE DEF turnOf, k
        <4> QED  BY <3>1 DEF Surjection
      <3> QED  BY <1>2, <3>2
    <2>2. CASE walk.calls = <<>>
      <3> DEFINE height == [m \in turns |-> rank[m]]
      <3>1. height \in [turns -> Nat] /\ covered \in SUBSET turns
        BY <1>2 DEF Falls
      <3>2. ASSUME NEW m \in turns, \A l \in turns : height[l] < height[m] => l \in covered
            PROVE  m \in covered
        <4>1. Range(walk.calls) = {}
          BY <2>2 DEF Range
        <4>2. m \in Met(rows, walk.calls)
          <5>1. CASE objects[m].parent \notin turns
            BY <1>1, <5>1 DEF Complete
          <5>2. CASE objects[m].parent \in turns
            <6>1. rank[objects[m].parent] < rank[m]
              BY <5>2 DEF Falls
            <6>2. objects[m].parent \in covered
              BY <3>2, <5>2, <6>1
            <6> QED  BY <1>1, <6>2 DEF Complete
          <5> QED  BY <5>1, <5>2
        <4> QED  BY <4>1, <4>2 DEF Met
      <3> HIDE DEF height, covered
      <3> QED  BY <3>1, <3>2, Descending
    <2> QED  BY <2>1, <2>2 DEF rows
  <1>7. k = Cardinality(turns)
    <2>1. turnOf \in Surjection(1 .. k, turns)
      <3>1. \A m \in turns : \E i \in 1 .. k : turnOf[i] = m
        BY <1>2, <1>6
      <3> HIDE DEF turnOf, k
      <3> QED  BY <1>5, <3>1 DEF Injection, Surjection
    <2> HIDE DEF turnOf, k
    <2> QED  BY <1>3, <1>4, <1>5, <2>1, FS_Injection
  <1> QED  BY <1>6, <1>7 DEF rows

\* The tree of turns that are with their stored parents: thread_tree.
LEMMA TreeOfTurns ==
    ASSUME Lined, NEW rank, Falls(objects, rank), NEW turns \in SUBSET DOMAIN objects
    PROVE  /\ Len(ThreadTree(turns)) = Cardinality(turns)
           /\ {ThreadTree(turns)[i].turn : i \in DOMAIN ThreadTree(turns)} = turns
           /\ Placed(turns, ThreadTree(turns))
  <1> DEFINE n == Cardinality(turns)
             start == [rows |-> <<>>,
                       calls |-> Calls({m \in turns : objects[m].parent \notin turns}, 0)]
             After(w) == IF w.calls = <<>> THEN w ELSE Walked(turns, w)
             S == {w \in Walks(turns) : Walking(turns, w)}
             next == [w \in S |-> After(w)]
             Is(f) == f = [k \in 0 .. n |-> IF k = 0 THEN start
                                            ELSE IF f[k - 1].calls = <<>> THEN f[k - 1]
                                            ELSE Walked(turns, f[k - 1])]
             walk == CHOOSE f : Is(f)
  <1>1. IsFiniteSet(turns) /\ n \in Nat
    BY FS_Subset, FS_CardinalityType DEF Lined
  <1>2. start \in S
    <2>1. Walking(turns, start)
      BY WalkingStarts
    <2> HIDE DEF start
    <2> QED  BY <2>1 DEF Walking
  <1> HIDE DEF start
  <1>3. ASSUME NEW w \in S PROVE After(w) \in S
    <2>1. CASE w.calls = <<>>
      BY <2>1
    <2>2. CASE w.calls # <<>>
      <3>1. Walking(turns, Walked(turns, w))
        BY <2>2, WalkingGoesOn
      <3> QED  BY <2>2, <3>1 DEF Walking
    <2> QED  BY <2>1, <2>2
  <1>4. StaysIn(next, S)
    <2> HIDE DEF After, S
    <2> QED  BY <1>3 DEF StaysIn
  <1>5. PICK f : IsWalk(next, start, n, f)
    BY <1>1, WalkExists
  <1>6. /\ f[0] = start /\ f \in [0 .. n -> S]
        /\ \A i \in 0 .. n - 1 : f[i + 1] = next[f[i]]
    <2> HIDE DEF S, next, n
    <2> QED  BY <1>1, <1>2, <1>4, <1>5, WalkStays
  <1>7. \E g : Is(g)
    <2> HIDE DEF S, n
    <2>1. ASSUME NEW k \in 0 .. n
          PROVE  f[k] = IF k = 0 THEN start ELSE IF f[k - 1].calls = <<>> THEN f[k - 1]
                                                 ELSE Walked(turns, f[k - 1])
      <3>1. k # 0 => f[(k - 1) + 1] = next[f[k - 1]] /\ f[k - 1] \in S
        BY <1>1, <1>6
      <3> QED  BY <1>6, <3>1
    <2>2. f = [k \in 0 .. n |-> f[k]]
      BY <1>6
    <2>3. Is(f)
      BY <2>1, <2>2
    <2> QED  BY <2>3
  <1>8. Is(walk)
    <2> HIDE DEF Is
    <2> QED  BY <1>7
  <1> DEFINE ordered == walk[n].rows
             missed == Line(turns \ {ordered[i].turn : i \in DOMAIN ordered})
  <1>9. ThreadTree(turns) = ordered \o [i \in DOMAIN missed |->
                                          [turn |-> missed[i], depth |-> 0, orphan |-> TRUE]]
    BY DEF ThreadTree, start
  <1> HIDE DEF walk
  <1> DEFINE T == {k \in 0 .. n : /\ walk[k] \in S
                                  /\ walk[k].calls = <<>> \/ Len(walk[k].rows) = k}
  <1>10. 0 \in T
    <2>1. walk[0] = start
      BY <1>1, <1>8
    <2>2. Len(start.rows) = 0
      BY DEF start
    <2> HIDE DEF S
    <2> QED  BY <1>1, <1>2, <2>1, <2>2
  <1>11. ASSUME NEW k \in 0 .. n - 1, k \in T PROVE k + 1 \in T
    <2>1. k + 1 \in 0 .. n /\ k + 1 # 0 /\ (k + 1) - 1 = k /\ k \in Nat
      BY <1>1
    <2>2. walk[k + 1] = After(walk[k])
      <3>1. walk[k + 1] = IF walk[(k + 1) - 1].calls = <<>> THEN walk[(k + 1) - 1]
                          ELSE Walked(turns, walk[(k + 1) - 1])
        BY <1>8, <2>1
      <3> QED  BY <2>1, <3>1
    <2>3. walk[k] \in S /\ (walk[k].calls = <<>> \/ Len(walk[k].rows) = k)
      BY <1>11
    <2>4. walk[k + 1] \in S
      <3> HIDE DEF After, S
      <3> QED  BY <1>3, <2>2, <2>3
    <2>5. walk[k + 1].calls = <<>> \/ Len(walk[k + 1].rows) = k + 1
      <3>1. CASE walk[k].calls = <<>>
        BY <2>2, <3>1
      <3>2. CASE walk[k].calls # <<>>
        <4>1. Len(Walked(turns, walk[k]).rows) = Len(walk[k].rows) + 1
          BY <2>3, <3>2, WalkingGoesOn
        <4> QED  BY <2>2, <2>3, <3>2, <4>1
      <3> QED  BY <3>1, <3>2
    <2> HIDE DEF S
    <2> QED  BY <2>1, <2>4, <2>5
  <1>12. 0 .. n \subseteq T
    <2>1. T \in SUBSET Nat
      BY <1>1
    <2> HIDE DEF T
    <2> QED  BY <1>1, <1>10, <1>11, <2>1, Climbing
  <1>13. Walking(turns, walk[n]) /\ (walk[n].calls = <<>> \/ Len(ordered) = n)
    <2>1. n \in T
      BY <1>1, <1>12
    <2> QED  BY <2>1
  <1>14. {ordered[i].turn : i \in DOMAIN ordered} = turns /\ Len(ordered) = n
    <2> HIDE DEF S, T, next, Is
    <2> QED  BY <1>13, WalkingCovers DEF Lined
  <1>15. /\ Placed(turns, ordered)
         /\ ordered \in Seq([turn : turns, depth : Nat, orphan : BOOLEAN])
    BY <1>13 DEF Walking, Walks
  <1>16. ThreadTree(turns) = ordered
    <2>1. missed = Line({})
      BY <1>14
    <2>2. DOMAIN Line({}) = {}
      <3>1. Cardinality({}) = 0
        BY FS_EmptySet
      <3>2. DOMAIN Line({}) = 1 .. Cardinality({})
        BY LineIsSeq
      <3> QED  BY <3>1, <3>2
    <2> HIDE DEF ordered, missed
    <2>3. [i \in DOMAIN missed |-> [turn |-> missed[i], depth |-> 0, orphan |-> TRUE]] = <<>>
      BY <2>1, <2>2
    <2>4. ordered \o <<>> = ordered
      BY <1>15
    <2> QED  BY <1>9, <2>3, <2>4
  <1> HIDE DEF ordered
  <1> QED  BY <1>14, <1>15, <1>16

\* The page of a thread, for who watches the hub.
LEMMA TreeIsWholeAlways == ASSUME ReadingTypeOK, RepliesLater PROVE TreeIsWhole
  <1> SUFFICES ASSUME NEW m \in DOMAIN objects
               PROVE  LET turns == ObserveThread(m)
                          rows == ThreadTree(turns)
                          below(i, j) == i < j /\ rows[j].depth \in {rows[i].depth + 1, MaxNest}
                      IN  /\ Len(rows) = Cardinality(turns)
                          /\ {rows[i].turn : i \in DOMAIN rows} = turns
                          /\ \A j \in DOMAIN rows :
                                LET parent == objects[rows[j].turn].parent IN
                                IF parent \in DOMAIN objects
                                THEN ~rows[j].orphan /\ \E i \in DOMAIN rows :
                                        rows[i].turn = parent /\ below(i, j)
                                ELSE rows[j].depth = 0 /\ rows[j].orphan = (parent # None)
    BY DEF TreeIsWhole
  <1> DEFINE turns == ObserveThread(m)
             rows == ThreadTree(turns)
  <1>1. Lined /\ IsFiniteSet(DOMAIN objects) /\ Falls(objects, Places)
    BY StoreIsLined, StoreFalls
  <1>2. /\ turns = {k \in DOMAIN objects : ThreadRoot(objects, k) = ThreadRoot(objects, m)}
        /\ turns \in SUBSET DOMAIN objects
    BY DEF ObserveThread, ThreadMembers
  <1>3. ASSUME NEW k \in turns, objects[k].parent \in DOMAIN objects
        PROVE  objects[k].parent \in turns
    <2>1. ThreadRoot(objects, k) = ThreadRoot(objects, objects[k].parent)
      BY <1>1, <1>2, <1>3, ParentsThread
    <2> QED  BY <1>2, <1>3, <2>1
  <1> HIDE DEF turns
  <1>4. /\ Len(rows) = Cardinality(turns) /\ {rows[i].turn : i \in DOMAIN rows} = turns
        /\ Placed(turns, rows)
    BY <1>1, <1>2, TreeOfTurns
  <1> HIDE DEF rows
  <1>5. ASSUME NEW j \in DOMAIN rows
        PROVE  LET parent == objects[rows[j].turn].parent IN
               IF parent \in DOMAIN objects
               THEN ~rows[j].orphan /\ \E i \in DOMAIN rows :
                       rows[i].turn = parent /\ i < j /\ rows[j].depth \in {rows[i].depth + 1, MaxNest}
               ELSE rows[j].depth = 0 /\ rows[j].orphan = (parent # None)
    <2>1. rows[j].turn \in turns
      BY <1>4
    <2>2. objects[rows[j].turn].parent \in DOMAIN objects <=> objects[rows[j].turn].parent \in turns
      BY <1>2, <1>3, <2>1
    <2> QED  BY <1>4, <2>2 DEF Placed
  <1> QED  BY <1>4, <1>5 DEF rows, turns

-----------------------------------------------------------------------------
\* What readers are shown of one store agrees with it and with each other,
\* whatever is sent, read, withdrawn and purged between two looks: the roots of
\* thread_roots, the page of thread_tree, the conversations of api._threads,
\* the hits of rules.search and the report of retract_thread_route.
THEOREM TheViewsAgree == ReadingSpec => []ViewsAgree
  <1>1. IInv => ViewsAgree
    BY RootsAgreeAll, TreeIsWholeAlways, GroupsPartitionAll, HitsOpenAll, ReportsAccountFor
       DEF IInv, ViewsAgree
  <1> QED  BY <1>1, StoreInvariant, PTL
=============================================================================
