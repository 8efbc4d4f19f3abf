------------------------ MODULE DatabaseMutex_proofs ------------------------
(***************************************************************************)
(* The gate of DatabaseMutex keeps its counters and its queue, lets nobody  *)
(* overtake, and implements DatabaseGate: for any clients and any caps.      *)
(***************************************************************************)
EXTENDS DatabaseMutex, FiniteSetTheorems, NaturalsInduction, SequenceTheorems, TLAPS

\* MutexInv alone is not inductive: with two exclusive holders the counters
\* would agree until one of them leaves.
GateInv == MutexInv /\ Gate!Lawful(side)

Matching(queue, mode) == {i \in 1 .. Len(queue) : queue[i].mode = mode}
-----------------------------------------------------------------------------
(* Queues.                                                                 *)

\* A nonempty set of natural numbers has a least element.
LEMMA LeastNatural ==
  ASSUME NEW T \in SUBSET Nat, T # {}
  PROVE  \E x \in T : \A y \in T : x <= y
<1> DEFINE R == OpToRel(<, Nat)
<1>1. IsWellFoundedOn(R, Nat)
  BY NatLessThanWellFounded
<1>2. PICK x \in T : \A y \in T : ~(<<y, x>> \in R)
  BY <1>1, WFMin
<1>3. ASSUME NEW y \in T, y < x PROVE FALSE
  <2>1. <<y, x>> \in R
    BY <1>3, y \in Nat, x \in Nat DEF OpToRel
  <2> QED BY <2>1, <1>2
<1> QED BY <1>3

\* A set that another one is mapped onto, one to one, has its size.
LEMMA SameSize ==
  ASSUME NEW S, NEW T, IsFiniteSet(S), NEW f \in [S -> T],
         \A a, b \in S : f[a] = f[b] => a = b,
         \A t \in T : \E s \in S : f[s] = t
  PROVE  IsFiniteSet(T) /\ Cardinality(T) = Cardinality(S)
<1>1. f \in Injection(S, T)
  BY DEF Injection, IsInjective
<1>2. f \in Surjection(S, T)
  BY DEF Surjection
<1>3. ExistsBijection(S, T)
  BY <1>1, <1>2 DEF Bijection, ExistsBijection
<1> QED BY <1>3, FS_Bijection

\* The elements of a queue are waiters.
LEMMA WaiterAt ==
  ASSUME NEW queue \in Seq(Waiter), NEW i \in 1 .. Len(queue)
  PROVE  queue[i] \in Waiter /\ queue[i].mode \in Modes /\ queue[i].client \in Clients
<1>1. queue[i] \in Waiter
  BY ElementOfSeq
<1> QED BY <1>1 DEF Waiter

\* What release() lets in: an exclusive head alone and only when nobody is
\* left inside, or the shared waiters up to the next exclusive one.
LEMMA GrantedType ==
  ASSUME waiters \in Seq(Waiter), NEW readers \in Nat
  PROVE  /\ Granted(readers) \in 0 .. Len(waiters)
         /\ IF waiters # <<>> /\ waiters[1].mode = "exclusive"
              THEN Granted(readers) = IF readers = 0 THEN 1 ELSE 0
              ELSE /\ \A i \in 1 .. Granted(readers) : waiters[i].mode = "shared"
                   /\ Granted(readers) < Len(waiters) =>
                        waiters[Granted(readers) + 1].mode = "exclusive"
<1> DEFINE Fits(k) ==
      IF waiters # <<>> /\ waiters[1].mode = "exclusive"
        THEN k = IF readers = 0 THEN 1 ELSE 0
        ELSE /\ \A i \in 1 .. k : waiters[i].mode = "shared"
             /\ k < Len(waiters) => waiters[k + 1].mode = "exclusive"
<1>1. Len(waiters) \in Nat /\ (waiters # <<>> => Len(waiters) > 0)
  BY EmptySeq, LenProperties
<1>2. \A i \in 1 .. Len(waiters) : waiters[i] \in Waiter /\ waiters[i].mode \in Modes
  BY WaiterAt
<1>3. \E k \in 0 .. Len(waiters) : Fits(k)
  <2>1. CASE waiters # <<>> /\ waiters[1].mode = "exclusive"
    BY <1>1, <2>1
  <2>2. CASE ~(waiters # <<>> /\ waiters[1].mode = "exclusive")
    <3> DEFINE T == {k \in 0 .. (Len(waiters) - 1) : waiters[k + 1].mode = "exclusive"}
    <3>1. CASE T = {}
      <4>1. \A i \in 1 .. Len(waiters) : waiters[i].mode = "shared"
        <5>1. SUFFICES ASSUME NEW i \in 1 .. Len(waiters), waiters[i].mode = "exclusive"
                       PROVE  FALSE
          BY <1>2 DEF Modes
        <5>2. i - 1 \in 0 .. (Len(waiters) - 1) /\ (i - 1) + 1 = i
          BY <1>1
        <5> QED BY <3>1, <5>1, <5>2
      <4>2. Fits(Len(waiters))
        BY <2>2, <4>1, <1>1
      <4> QED BY <4>2, <1>1
    <3>2. CASE T # {}
      <4>1. T \in SUBSET Nat
        BY <1>1
      <4>2. PICK k \in T : \A y \in T : k <= y
        <5> HIDE DEF T
        <5> QED BY <4>1, <3>2, LeastNatural
      <4>3. k \in Nat /\ k <= Len(waiters) - 1 /\ waiters[k + 1].mode = "exclusive"
        BY <1>1
      <4>4. ASSUME NEW i \in 1 .. k PROVE waiters[i].mode = "shared"
        <5>1. i \in 1 .. Len(waiters) /\ i - 1 \in 0 .. (Len(waiters) - 1)
              /\ (i - 1) + 1 = i /\ i - 1 < k
          BY <4>3, <1>1
        <5>2. i - 1 \notin T
          <6> HIDE DEF T
          <6>1. i - 1 \in T => k <= i - 1
            BY <4>2
          <6> QED BY <6>1, <5>1, <4>3
        <5>3. waiters[i].mode # "exclusive"
          BY <5>1, <5>2
        <5> QED BY <5>3, <5>1, <1>2 DEF Modes
      <4>5. Fits(k) /\ k \in 0 .. Len(waiters)
        BY <2>2, <4>3, <4>4, <1>1
      <4> QED BY <4>5
    <3> QED BY <3>1, <3>2
  <2> QED BY <2>1, <2>2
<1>4. Granted(readers) = CHOOSE k \in 0 .. Len(waiters) : Fits(k)
  BY DEF Granted
<1> HIDE DEF Fits
<1>5. Granted(readers) \in 0 .. Len(waiters) /\ Fits(Granted(readers))
  BY <1>3, <1>4
<1> QED BY <1>5 DEF Fits

\* What release() leaves queued.
LEMMA RestOfQueue ==
  ASSUME NEW queue \in Seq(Waiter), NEW k \in 0 .. Len(queue)
  PROVE  LET rest == SubSeq(queue, k + 1, Len(queue)) IN
         /\ Len(rest) = Len(queue) - k
         /\ \A i \in 1 .. Len(rest) : rest[i] = queue[i + k] /\ i + k \in 1 .. Len(queue)
         /\ rest \in Seq(Waiter)
<1> DEFINE rest == SubSeq(queue, k + 1, Len(queue))
<1>1. Len(queue) \in Nat /\ k \in Nat /\ k <= Len(queue)
  BY LenProperties
<1>2. k + 1 \in 1 .. Len(queue) + 1 /\ Len(queue) \in 0 .. Len(queue)
  BY <1>1
<1>3. /\ rest \in Seq(Waiter)
      /\ Len(rest) = IF k + 1 <= Len(queue) THEN Len(queue) - (k + 1) + 1 ELSE 0
      /\ \A i \in 1 .. Len(queue) - (k + 1) + 1 : rest[i] = queue[k + 1 + i - 1]
  BY SubSeqProperties, <1>1, <1>2
<1> HIDE DEF rest
<1>4. /\ Len(rest) = Len(queue) - k
      /\ \A i \in 1 .. Len(rest) : rest[i] = queue[i + k] /\ i + k \in 1 .. Len(queue)
  BY <1>3, <1>1
<1> QED BY <1>3, <1>4 DEF rest

\* The waiters of a mode are finitely many.
LEMMA MatchingFinite ==
  ASSUME NEW queue \in Seq(Waiter), NEW mode
  PROVE  IsFiniteSet(Matching(queue, mode)) /\ Cardinality(Matching(queue, mode)) \in Nat
<1>1. IsFiniteSet(1 .. Len(queue))
  BY FS_Interval, LenProperties
<1>2. Matching(queue, mode) \in SUBSET (1 .. Len(queue))
  BY DEF Matching
<1> QED BY <1>1, <1>2, FS_Subset, FS_CardinalityType

\* A call that queues adds one to the waiters of its mode.
LEMMA MatchingAppend ==
  ASSUME NEW queue \in Seq(Waiter), NEW w \in Waiter, NEW mode
  PROVE  Cardinality(Matching(Append(queue, w), mode)) =
           Cardinality(Matching(queue, mode)) + (IF w.mode = mode THEN 1 ELSE 0)
<1> DEFINE n == Len(queue) + 1
<1>1. /\ Len(Append(queue, w)) = n
      /\ Append(queue, w)[n] = w
      /\ \A i \in 1 .. Len(queue) : Append(queue, w)[i] = queue[i]
      /\ Len(queue) \in Nat
  BY AppendProperties, LenProperties
<1>2. n \notin Matching(queue, mode)
  BY <1>1 DEF Matching
<1>3. Matching(Append(queue, w), mode) =
        IF w.mode = mode THEN Matching(queue, mode) \cup {n} ELSE Matching(queue, mode)
  <2>1. 1 .. n = (1 .. Len(queue)) \cup {n}
    BY <1>1
  <2> QED BY <1>1, <2>1 DEF Matching
<1>4. IsFiniteSet(Matching(queue, mode)) /\ Cardinality(Matching(queue, mode)) \in Nat
  BY MatchingFinite
<1>5. Cardinality(Matching(queue, mode) \cup {n}) = Cardinality(Matching(queue, mode)) + 1
  BY <1>2, <1>4, FS_AddElement
<1> QED BY <1>3, <1>4, <1>5

\* Those let in leave the rest of their mode waiting.
LEMMA MatchingSubSeq ==
  ASSUME NEW queue \in Seq(Waiter), NEW k \in 0 .. Len(queue), NEW mode
  PROVE  Cardinality(Matching(SubSeq(queue, k + 1, Len(queue)), mode)) =
           Cardinality(Matching(queue, mode)) - Cardinality({i \in 1 .. k : queue[i].mode = mode})
<1> DEFINE rest == SubSeq(queue, k + 1, Len(queue))
           S == Matching(queue, mode)
           K == {i \in 1 .. k : queue[i].mode = mode}
           T == Matching(rest, mode)
           f == [i \in T |-> i + k]
<1>1. Len(queue) \in Nat /\ k \in Nat /\ k <= Len(queue)
  BY LenProperties
<1>2. Len(rest) = Len(queue) - k /\ \A i \in 1 .. Len(rest) : rest[i] = queue[i + k]
  BY RestOfQueue
<1> HIDE DEF rest
<1>3. S \cap K = K /\ IsFiniteSet(S) /\ Cardinality(S) \in Nat
  <2>1. S \cap K = K
    BY <1>1 DEF Matching
  <2> QED BY <2>1, MatchingFinite
<1>4. \A i \in T : i \in Nat /\ i + k \in S \ K
  BY <1>1, <1>2 DEF Matching
<1>5. \A j \in S \ K : j - k \in T /\ (j - k) + k = j
  BY <1>1, <1>2 DEF Matching
<1>6. IsFiniteSet(T)
  <2>1. IsFiniteSet(1 .. Len(rest))
    BY FS_Interval, <1>1, <1>2
  <2>2. T \in SUBSET (1 .. Len(rest))
    BY DEF Matching
  <2> QED BY <2>1, <2>2, FS_Subset
<1>7. /\ f \in [T -> S \ K]
      /\ \A a, b \in T : f[a] = f[b] => a = b
      /\ \A j \in S \ K : \E i \in T : f[i] = j
  <2>1. f \in [T -> S \ K]
    BY <1>4
  <2>2. \A a, b \in T : f[a] = f[b] => a = b
    BY <1>4, <1>1
  <2>3. \A j \in S \ K : \E i \in T : f[i] = j
    BY <1>5
  <2> QED BY <2>1, <2>2, <2>3
<1> HIDE DEF T, S, K, f
<1>8. Cardinality(T) = Cardinality(S \ K)
  BY <1>6, <1>7, SameSize
<1>9. Cardinality(S \ K) = Cardinality(S) - Cardinality(S \cap K)
  BY <1>3, FS_Difference
<1>10. Cardinality(T) = Cardinality(S) - Cardinality(K)
  BY <1>8, <1>9, <1>3
<1> QED BY <1>10 DEF T, S, K, rest
-----------------------------------------------------------------------------
(* The invariant.                                                          *)

\* The holders of a side are finitely many.
LEMMA HoldingFinite ==
  ASSUME NEW mode
  PROVE  IsFiniteSet(Holding(mode)) /\ Cardinality(Holding(mode)) \in Nat
<1>1. Holding(mode) \in SUBSET Clients
  BY DEF Holding
<1> QED BY <1>1, ClientsAssumption, FS_Subset, FS_CardinalityType

\* What the invariant says in the terms of the lemmas above.
LEMMA WaitingMatches ==
  \A mode : Waiting(mode) = Matching(waiters, mode)
BY DEF Waiting, Matching

LEMMA InitGateInv == Init => GateInv
<1> SUFFICES ASSUME Init PROVE GateInv
  OBVIOUS
<1>1. waiters = <<>> /\ Len(waiters) = 0 /\ waiters \in Seq(Waiter)
  BY EmptySeq DEF Init
<1>2. \A mode \in {"exclusive", "shared"} : Holding(mode) = {} /\ Waiting(mode) = {}
  BY <1>1 DEF Init, Holding, Waiting
<1>3. TypeOK
  <2>1. 0 \in 0 .. MaxDepth /\ 0 \in 0 .. MaxSharedDepth /\ 0 \in Nat
    BY MaxDepthAssumption, MaxSharedDepthAssumption
  <2>2. exclusive \in BOOLEAN
    BY Zenon DEF Init
  <2> QED BY <1>1, <2>1, <2>2 DEF Init, TypeOK
<1>4. CountersAgree
  BY <1>2, FS_EmptySet DEF Init, CountersAgree
<1>5. HeadIsBlocked /\ WaitsOutside
  BY <1>1 DEF HeadIsBlocked, WaitsOutside
<1>6. Gate!Lawful(side)
  BY DEF Init, Gate!Lawful
<1> QED BY <1>3, <1>4, <1>5, <1>6 DEF GateInv, MutexInv

\* Somebody enters a gate that is free for the mode, nobody being queued.
LEMMA EntersGateInv ==
  ASSUME GateInv, NEW c \in Clients, NEW mode \in Modes, Enters(c, mode)
  PROVE  GateInv'
<1> USE DEF Modes
<1>1. TypeOK /\ CountersAgree /\ HeadIsBlocked /\ WaitsOutside /\ Gate!Lawful(side)
  BY DEF GateInv, MutexInv
<1>2. /\ side[c] = "none" /\ waiters = <<>> /\ Admits(mode) /\ Take(mode)
      /\ side' = [side EXCEPT ![c] = mode]
      /\ waiters' = waiters /\ exclusiveWaiting' = exclusiveWaiting /\ sharedWaiting' = sharedWaiting
  BY DEF Enters, Out
<1>3. side \in [Clients -> {"none", "shared", "exclusive"}] /\ shared \in Nat /\ exclusive \in BOOLEAN
  BY <1>1 DEF TypeOK
<1>4. Holding("exclusive") = {}
  BY <1>1, <1>2 DEF CountersAgree, Admits
<1>5. Len(waiters) = 0
  BY <1>2, EmptySeq
<1>6. TypeOK'
  <2>1. side' \in [Clients -> {"none", "shared", "exclusive"}]
    BY <1>2, <1>3
  <2>2. shared' \in Nat /\ exclusive' \in BOOLEAN
    <3>1. CASE mode = "exclusive"
      BY <1>2, <1>3, <3>1, Zenon DEF Take
    <3>2. CASE mode = "shared"
      <4>1. shared' = shared + 1 /\ exclusive' = exclusive
        BY <1>2, <3>2 DEF Take
      <4>2. shared' \in Nat
        BY <1>3, <4>1
      <4>3. exclusive' \in BOOLEAN
        BY <1>3, <4>1, Zenon
      <4> QED BY <4>2, <4>3
    <3> QED BY <3>1, <3>2
  <2> QED BY <1>1, <1>2, <2>1, <2>2 DEF TypeOK
<1>7. CountersAgree' /\ Gate!Lawful(side')
  <2>1. \A m : Waiting(m)' = Waiting(m)
    BY <1>2 DEF Waiting
  <2>2. CASE mode = "exclusive"
    <3>1. shared = 0 /\ exclusive' = TRUE /\ shared' = shared
      BY <1>2, <2>2 DEF Admits, Take
    <3>2. Holding("shared") = {}
      BY <3>1, <1>1, HoldingFinite, FS_EmptySet DEF CountersAgree
    <3>3. \A d \in Clients : side[d] = "none"
      BY <1>3, <1>4, <3>2 DEF Holding
    <3>4. Holding("exclusive")' = {c} /\ Holding("shared")' = {}
      BY <1>2, <1>3, <2>2, <3>3 DEF Holding
    <3>5. CountersAgree'
      BY <1>1, <1>2, <2>1, <3>1, <3>4, FS_EmptySet DEF CountersAgree
    <3>6. Gate!Lawful(side')
      BY <1>2, <1>3, <3>3, <2>2 DEF Gate!Lawful
    <3> QED BY <3>5, <3>6
  <2>3. CASE mode = "shared"
    <3>1. exclusive = FALSE /\ exclusive' = FALSE /\ shared' = shared + 1
      BY <1>2, <1>3, <2>3 DEF Admits, Take
    <3>2. Holding("exclusive")' = {}
      BY <1>2, <1>3, <1>4, <2>3 DEF Holding
    <3>3. Holding("shared")' = Holding("shared") \cup {c} /\ c \notin Holding("shared")
      BY <1>2, <1>3, <2>3 DEF Holding
    <3>4. Cardinality(Holding("shared") \cup {c}) = Cardinality(Holding("shared")) + 1
      BY <3>3, HoldingFinite, FS_AddElement
    <3>5. CountersAgree'
      BY <1>1, <1>2, <2>1, <3>1, <3>2, <3>3, <3>4 DEF CountersAgree
    <3>6. Gate!Lawful(side')
      BY <1>2, <1>3, <1>4, <2>3 DEF Gate!Lawful, Holding
    <3> QED BY <3>5, <3>6
  <2> QED BY <2>2, <2>3
<1>8. HeadIsBlocked' /\ WaitsOutside'
  BY <1>2, <1>5 DEF HeadIsBlocked, WaitsOutside
<1> QED BY <1>6, <1>7, <1>8 DEF GateInv, MutexInv

\* Somebody queues behind those inside or those queued.
LEMMA QueuesGateInv ==
  ASSUME GateInv, NEW c \in Clients, NEW mode \in Modes, Queues(c, mode)
  PROVE  GateInv'
<1> USE DEF Modes
<1> DEFINE w == [mode |-> mode, client |-> c]
<1>1. TypeOK /\ CountersAgree /\ HeadIsBlocked /\ WaitsOutside /\ Gate!Lawful(side)
  BY DEF GateInv, MutexInv
<1>2. /\ side[c] = "none" /\ ~Queued(c) /\ HasDepth(mode)
      /\ ~(waiters = <<>> /\ Admits(mode))
      /\ waiters' = Append(waiters, w)
      /\ exclusiveWaiting' = exclusiveWaiting + (IF mode = "exclusive" THEN 1 ELSE 0)
      /\ sharedWaiting' = sharedWaiting + (IF mode = "shared" THEN 1 ELSE 0)
      /\ exclusive' = exclusive /\ shared' = shared /\ side' = side
  BY DEF Queues, Out
<1>3. waiters \in Seq(Waiter) /\ w \in Waiter /\ w.mode = mode /\ w.client = c
  BY <1>1 DEF TypeOK, Waiter
<1> HIDE DEF w
<1>4. /\ waiters' \in Seq(Waiter)
      /\ Len(waiters') = Len(waiters) + 1
      /\ waiters'[Len(waiters) + 1] = w
      /\ \A i \in 1 .. Len(waiters) : waiters'[i] = waiters[i]
      /\ Len(waiters) \in Nat
  BY <1>2, <1>3, AppendProperties, LenProperties
<1>5. TypeOK'
  <2>1. exclusiveWaiting' \in 0 .. MaxDepth /\ sharedWaiting' \in 0 .. MaxSharedDepth
    BY <1>1, <1>2, MaxDepthAssumption, MaxSharedDepthAssumption DEF TypeOK, HasDepth
  <2> QED BY <1>1, <1>2, <1>4, <2>1 DEF TypeOK
<1>6. CountersAgree'
  <2>1. \A m : Holding(m)' = Holding(m)
    BY <1>2 DEF Holding
  <2>2. \A m : Waiting(m)' = Matching(waiters', m)
    BY DEF Waiting, Matching
  <2>3. \A m : Cardinality(Matching(waiters', m)) =
                 Cardinality(Matching(waiters, m)) + (IF mode = m THEN 1 ELSE 0)
    BY <1>2, <1>3, MatchingAppend
  <2> QED BY <1>1, <1>2, <2>1, <2>2, <2>3, WaitingMatches DEF CountersAgree
<1>7. HeadIsBlocked'
  <2>1. waiters'[1].mode = IF waiters = <<>> THEN mode ELSE waiters[1].mode
    <3>1. CASE waiters = <<>>
      BY <3>1, <1>3, <1>4, EmptySeq
    <3>2. CASE waiters # <<>>
      BY <3>2, <1>3, <1>4, EmptySeq
    <3> QED BY <3>1, <3>2
  <2>2. \A m : Admits(m)' <=> Admits(m)
    BY <1>2 DEF Admits
  <2> QED BY <1>1, <1>2, <2>1, <2>2 DEF HeadIsBlocked
<1>8. WaitsOutside'
  BY <1>1, <1>2, <1>3, <1>4 DEF WaitsOutside, Queued
<1> QED BY <1>1, <1>2, <1>5, <1>6, <1>7, <1>8 DEF GateInv, MutexInv

\* release() leaves a number of readers that is one, and counts who stays.
LEMMA ReadersLeft ==
  ASSUME GateInv, NEW c \in Clients, side[c] # "none"
  PROVE  LET readers == IF side[c] = "shared" THEN shared - 1 ELSE shared
             stay == Holding("shared") \ {c}
         IN  readers \in Nat /\ IsFiniteSet(stay) /\ Cardinality(stay) = readers
<1> DEFINE readers == IF side[c] = "shared" THEN shared - 1 ELSE shared
           stay == Holding("shared") \ {c}
<1>1. IsFiniteSet(Holding("shared")) /\ Cardinality(Holding("shared")) = shared
  BY HoldingFinite DEF GateInv, MutexInv, CountersAgree
<1>2. c \in Holding("shared") <=> side[c] = "shared"
  BY DEF Holding
<1>3. /\ IsFiniteSet(stay)
      /\ Cardinality(stay) = IF c \in Holding("shared") THEN shared - 1 ELSE shared
  BY <1>1, FS_RemoveElement
<1>4. Cardinality(stay) \in Nat
  BY <1>3, FS_CardinalityType
<1> HIDE DEF stay
<1>5. readers \in Nat /\ Cardinality(stay) = readers
  BY <1>2, <1>3, <1>4
<1> QED BY <1>3, <1>5 DEF stay

\* The holder leaves and release() lets in whom the queue's head allows.
LEMMA ReleasesGateInv ==
  ASSUME GateInv, NEW c \in Clients, Releases(c)
  PROVE  GateInv'
<1> DEFINE readers == IF side[c] = "shared" THEN shared - 1 ELSE shared
           k == Granted(readers)
           let == {waiters[i].client : i \in 1 .. k}
           alone == k > 0 /\ waiters[1].mode = "exclusive"
           stay == Holding("shared") \ {c}
<1>1. TypeOK /\ CountersAgree /\ HeadIsBlocked /\ WaitsOutside /\ Gate!Lawful(side)
  BY DEF GateInv, MutexInv
<1>2. /\ side[c] # "none"
      /\ exclusive' = alone
      /\ shared' = IF alone THEN readers ELSE readers + k
      /\ waiters' = SubSeq(waiters, k + 1, Len(waiters))
      /\ exclusiveWaiting' = IF alone THEN exclusiveWaiting - 1 ELSE exclusiveWaiting
      /\ sharedWaiting' = IF alone THEN sharedWaiting ELSE sharedWaiting - k
      /\ side' = [d \in Clients |->
                    IF d \in let THEN (IF alone THEN "exclusive" ELSE "shared")
                    ELSE IF d = c THEN "none" ELSE side[d]]
  BY DEF Releases
<1>3. /\ side \in [Clients -> {"none", "shared", "exclusive"}]
      /\ waiters \in Seq(Waiter) /\ Len(waiters) \in Nat /\ shared \in Nat
  BY <1>1, LenProperties DEF TypeOK
<1>4. readers \in Nat /\ IsFiniteSet(stay) /\ Cardinality(stay) = readers
  BY <1>2, ReadersLeft
<1>5. \A d \in Clients : side[d] = "exclusive" => d = c
  BY <1>1, <1>2, <1>3 DEF Gate!Lawful
<1>6. /\ k \in 0 .. Len(waiters)
      /\ IF waiters # <<>> /\ waiters[1].mode = "exclusive"
           THEN k = IF readers = 0 THEN 1 ELSE 0
           ELSE /\ \A i \in 1 .. k : waiters[i].mode = "shared"
                /\ k < Len(waiters) => waiters[k + 1].mode = "exclusive"
  BY <1>3, <1>4, GrantedType
<1> HIDE DEF readers, k, stay
<1>7. \A i \in 1 .. k : /\ i \in 1 .. Len(waiters)
                        /\ waiters[i].client \in Clients
                        /\ side[waiters[i].client] = "none"
  BY <1>1, <1>3, <1>6, WaiterAt DEF WaitsOutside
<1>8. let \in SUBSET Clients /\ c \notin let /\ \A d \in let : side[d] = "none"
  BY <1>2, <1>7
<1>9. IsFiniteSet(let) /\ Cardinality(let) = k
  <2> DEFINE f == [i \in 1 .. k |-> waiters[i].client]
  <2>1. IsFiniteSet(1 .. k) /\ Cardinality(1 .. k) = k
    BY <1>3, <1>6, FS_Interval
  <2>2. /\ f \in [1 .. k -> let]
        /\ \A a, b \in 1 .. k : f[a] = f[b] => a = b
        /\ \A t \in let : \E s \in 1 .. k : f[s] = t
    BY <1>1, <1>7 DEF WaitsOutside
  <2> HIDE DEF f, let
  <2> QED BY <2>1, <2>2, SameSize
<1>10. /\ Len(waiters') = Len(waiters) - k
       /\ \A i \in 1 .. Len(waiters') : waiters'[i] = waiters[i + k] /\ i + k \in 1 .. Len(waiters)
       /\ waiters' \in Seq(Waiter)
  BY <1>2, <1>3, <1>6, RestOfQueue
<1>11. alone => k = 1 /\ readers = 0 /\ let = {waiters[1].client} /\ waiters # <<>>
  BY <1>3, <1>6, EmptySeq
<1>12. ~alone => \A i \in 1 .. k : waiters[i].mode = "shared"
  BY <1>3, <1>6, EmptySeq
<1>13. /\ side' \in [Clients -> {"none", "shared", "exclusive"}]
       /\ \A d \in Clients : side'[d] = IF d \in let THEN (IF alone THEN "exclusive" ELSE "shared")
                                        ELSE IF d = c THEN "none" ELSE side[d]
  BY <1>2, <1>3
<1>14. /\ Holding("exclusive")' = IF alone THEN let ELSE {}
       /\ Holding("shared")' = IF alone THEN stay ELSE stay \cup let
  BY <1>5, <1>8, <1>13 DEF Holding, stay
<1>15. \A m : Cardinality(Waiting(m)') =
                Cardinality(Waiting(m)) - Cardinality({i \in 1 .. k : waiters[i].mode = m})
  <2>1. \A m : Waiting(m)' = Matching(waiters', m)
    BY DEF Waiting, Matching
  <2> QED BY <1>2, <1>3, <1>6, <2>1, WaitingMatches, MatchingSubSeq
<1>16. \A m : Cardinality(Waiting(m)') \in Nat /\ Cardinality(Waiting(m)) \in Nat
  <2>1. \A m : Waiting(m)' = Matching(waiters', m)
    BY DEF Waiting, Matching
  <2> QED BY <1>3, <1>10, <2>1, WaitingMatches, MatchingFinite
<1>17. /\ exclusiveWaiting' = Cardinality(Waiting("exclusive")')
       /\ sharedWaiting' = Cardinality(Waiting("shared")')
  <2>1. CASE alone
    <3>1. /\ {i \in 1 .. k : waiters[i].mode = "exclusive"} = {1}
          /\ {i \in 1 .. k : waiters[i].mode = "shared"} = {}
      BY <2>1, <1>11
    <3>2. /\ Cardinality(Waiting("exclusive")') = Cardinality(Waiting("exclusive")) - 1
          /\ Cardinality(Waiting("shared")') = Cardinality(Waiting("shared")) - 0
      <4>1. Cardinality({1}) = 1 /\ Cardinality({}) = 0
        BY FS_Singleton, FS_EmptySet
      <4>2. /\ Cardinality({i \in 1 .. k : waiters[i].mode = "exclusive"}) = 1
            /\ Cardinality({i \in 1 .. k : waiters[i].mode = "shared"}) = 0
        BY <3>1, <4>1
      <4> QED BY <1>15, <4>2
    <3>3. exclusiveWaiting' = exclusiveWaiting - 1 /\ sharedWaiting' = sharedWaiting
      BY <1>2, <2>1
    <3> QED BY <1>1, <1>16, <3>2, <3>3 DEF CountersAgree
  <2>2. CASE ~alone
    <3>1. /\ {i \in 1 .. k : waiters[i].mode = "exclusive"} = {}
          /\ {i \in 1 .. k : waiters[i].mode = "shared"} = 1 .. k
      BY <2>2, <1>12
    <3>2. Cardinality(1 .. k) = k
      BY <1>3, <1>6, FS_Interval
    <3>3. /\ Cardinality(Waiting("exclusive")') = Cardinality(Waiting("exclusive")) - 0
          /\ Cardinality(Waiting("shared")') = Cardinality(Waiting("shared")) - k
      BY <1>15, <3>1, <3>2, FS_EmptySet
    <3>4. exclusiveWaiting' = exclusiveWaiting /\ sharedWaiting' = sharedWaiting - k
      BY <1>2, <2>2
    <3> QED BY <1>1, <1>16, <3>3, <3>4 DEF CountersAgree
  <2> QED BY <2>1, <2>2
<1>18. TypeOK'
  <2>1. exclusive' \in BOOLEAN
    BY <1>2, Zenon
  <2>2. shared' \in Nat
    BY <1>2, <1>3, <1>4, <1>6
  <2>3. exclusiveWaiting' \in 0 .. MaxDepth /\ sharedWaiting' \in 0 .. MaxSharedDepth
    BY <1>1, <1>2, <1>3, <1>6, <1>16, <1>17, MaxDepthAssumption, MaxSharedDepthAssumption DEF TypeOK
  <2> QED BY <1>10, <1>13, <2>1, <2>2, <2>3 DEF TypeOK
<1>19. CountersAgree'
  <2>1. exclusive' <=> Holding("exclusive")' # {}
    BY <1>2, <1>11, <1>14
  <2>2. shared' = Cardinality(Holding("shared")')
    <3>1. stay \cap let = {}
      BY <1>8 DEF stay, Holding
    <3>2. Cardinality(stay \cup let) = readers + k - 0
      BY <1>4, <1>9, <3>1, FS_Union, FS_EmptySet
    <3>3. Cardinality(stay \cup let) = readers + k
      BY <1>3, <1>4, <1>6, <3>2
    <3>4. shared' = IF alone THEN readers ELSE readers + k
      BY <1>2
    <3> HIDE DEF alone, let
    <3>5. CASE alone
      BY <3>5, <1>4, <1>14, <3>4
    <3>6. CASE ~alone
      BY <3>6, <1>14, <3>3, <3>4
    <3> QED BY <3>5, <3>6
  <2> QED BY <1>17, <2>1, <2>2 DEF CountersAgree
<1>20. HeadIsBlocked'
  <2>1. SUFFICES ASSUME waiters' # <<>>, ~exclusive' PROVE waiters'[1].mode = "exclusive" /\ shared' # 0
    BY DEF HeadIsBlocked, Admits
  <2>2. Len(waiters') > 0 /\ 1 \in 1 .. Len(waiters') /\ k < Len(waiters) /\ ~alone
    <3>1. Len(waiters') \in Nat /\ Len(waiters') # 0
      BY <2>1, <1>10, LenProperties, EmptySeq
    <3>2. ~alone
      BY <2>1, <1>2
    <3> HIDE DEF alone
    <3> QED BY <3>1, <3>2, <1>3, <1>6, <1>10
  <2>3. waiters'[1] = waiters[k + 1] /\ waiters # <<>>
    BY <2>2, <1>10, <1>3, <1>6, EmptySeq
  <2>4. CASE waiters[1].mode = "exclusive"
    <3>1. k = 0 /\ readers # 0
      BY <2>2, <2>3, <2>4, <1>3, <1>6
    <3> QED BY <3>1, <2>2, <2>3, <2>4, <1>2, <1>4
  <2>5. CASE waiters[1].mode # "exclusive"
    <3>1. waiters[k + 1].mode = "exclusive" /\ k # 0
      BY <2>2, <2>3, <2>5, <1>3, <1>6
    <3> QED BY <3>1, <2>2, <2>3, <1>2, <1>3, <1>4, <1>6
  <2> QED BY <2>4, <2>5
<1>21. WaitsOutside'
  <2>1. ASSUME NEW i \in 1 .. Len(waiters'), NEW j \in 1 .. Len(waiters'),
               waiters'[i].client = waiters'[j].client
        PROVE  i = j
    BY <2>1, <1>1, <1>3, <1>6, <1>10 DEF WaitsOutside
  <2>2. ASSUME NEW i \in 1 .. Len(waiters') PROVE side'[waiters'[i].client] = "none"
    <3>1. /\ waiters'[i] = waiters[i + k] /\ i + k \in 1 .. Len(waiters)
          /\ \A j \in 1 .. k : j # i + k
      BY <1>3, <1>6, <1>10
    <3>2. waiters[i + k].client \notin let
      BY <3>1, <1>1, <1>7 DEF WaitsOutside
    <3>3. waiters[i + k].client \in Clients /\ side[waiters[i + k].client] = "none"
      BY <3>1, <1>1, <1>3, WaiterAt DEF WaitsOutside
    <3> QED BY <3>1, <3>2, <3>3, <1>13
  <2> QED BY <2>1, <2>2 DEF WaitsOutside
<1>22. Gate!Lawful(side')
  <2>1. CASE alone
    <3>1. Holding("shared")' = {}
      BY <2>1, <1>4, <1>11, <1>14, FS_EmptySet
    <3> QED BY <2>1, <3>1, <1>5, <1>11, <1>13 DEF Gate!Lawful, Holding
  <2>2. CASE ~alone
    BY <2>2, <1>5, <1>13 DEF Gate!Lawful
  <2> QED BY <2>1, <2>2
<1> QED BY <1>18, <1>19, <1>20, <1>21, <1>22 DEF GateInv, MutexInv

\* The invariant is inductive.
LEMMA NextGateInv == GateInv /\ [Next]_mutexVars => GateInv'
<1> SUFFICES ASSUME GateInv, [Next]_mutexVars PROVE GateInv'
  OBVIOUS
<1>1. CASE UNCHANGED mutexVars
  BY <1>1 DEF mutexVars, GateInv, MutexInv, TypeOK, CountersAgree, HeadIsBlocked, WaitsOutside,
              Waiting, Holding, Admits, Gate!Lawful
<1>2. ASSUME NEW c \in Clients, NEW mode \in Modes, Enters(c, mode) PROVE GateInv'
  BY <1>2, EntersGateInv
<1>3. ASSUME NEW c \in Clients, NEW mode \in Modes, Queues(c, mode) PROVE GateInv'
  BY <1>3, QueuesGateInv
<1>4. ASSUME NEW c \in Clients, Releases(c) PROVE GateInv'
  BY <1>4, ReleasesGateInv
<1> QED BY <1>1, <1>2, <1>3, <1>4 DEF Next

LEMMA GateInvHolds == Spec => []GateInv
<1> QED BY InitGateInv, NextGateInv, PTL DEF Spec

\* The counters of the gate agree with who is inside and who waits, the head
\* of the queue is kept out by somebody inside, and nobody waits twice.
THEOREM MutexKeepsItsBooks == Spec => []MutexInv
<1>1. GateInv => MutexInv
  BY DEF GateInv
<1> QED BY <1>1, GateInvHolds, PTL
-----------------------------------------------------------------------------
(* Steps.                                                                  *)

\* Whoever gets in was queued before everybody who stays queued.
LEMMA StepKeepsOrder ==
  ASSUME GateInv, [Next]_mutexVars,
         NEW d \in Clients, side[d] = "none", side'[d] # "none",
         NEW i \in 1 .. Len(waiters')
  PROVE  \E j \in 1 .. Len(waiters) :
           /\ waiters[j] = waiters'[i]
           /\ \A n \in 1 .. Len(waiters) : waiters[n].client = d => n < j
           /\ Queued(d)
<1>1. /\ side \in [Clients -> {"none", "shared", "exclusive"}]
      /\ waiters \in Seq(Waiter) /\ Len(waiters) \in Nat /\ shared \in Nat
      /\ WaitsOutside
  BY LenProperties DEF GateInv, MutexInv, TypeOK
<1>2. CASE UNCHANGED mutexVars
  BY <1>2 DEF mutexVars
<1>3. ASSUME NEW c \in Clients, NEW mode \in Modes, Enters(c, mode) PROVE FALSE
  BY <1>3, EmptySeq DEF Enters
<1>4. ASSUME NEW c \in Clients, NEW mode \in Modes, Queues(c, mode) PROVE FALSE
  BY <1>4 DEF Queues
<1>5. ASSUME NEW c \in Clients, Releases(c)
      PROVE  \E j \in 1 .. Len(waiters) :
               /\ waiters[j] = waiters'[i]
               /\ \A n \in 1 .. Len(waiters) : waiters[n].client = d => n < j
               /\ Queued(d)
  <2> DEFINE readers == IF side[c] = "shared" THEN shared - 1 ELSE shared
             k == Granted(readers)
             let == {waiters[n].client : n \in 1 .. k}
  <2>1. readers \in Nat
    BY <1>5, ReadersLeft DEF Releases
  <2>2. k \in 0 .. Len(waiters)
    BY <2>1, <1>1, GrantedType
  <2>3. /\ waiters' = SubSeq(waiters, k + 1, Len(waiters))
        /\ d \notin let => side'[d] = IF d = c THEN "none" ELSE side[d]
    BY <1>5 DEF Releases
  <2> HIDE DEF readers, k
  <2>4. PICK n \in 1 .. k : d = waiters[n].client
    BY <2>3
  <2>5. waiters'[i] = waiters[i + k] /\ i + k \in 1 .. Len(waiters) /\ i + k > k
    BY <2>2, <2>3, <1>1, RestOfQueue
  <2>6. n \in 1 .. Len(waiters) /\ Queued(d)
    BY <2>2, <2>4, <1>1 DEF Queued
  <2>7. \A m \in 1 .. Len(waiters) : waiters[m].client = d => m < i + k
    BY <2>2, <2>4, <2>5, <2>6, <1>1 DEF WaitsOutside
  <2> QED BY <2>5, <2>6, <2>7
<1> QED BY <1>2, <1>3, <1>4, <1>5 DEF Next

\* Arrival order: nobody gets in while somebody who came earlier stays queued.
THEOREM NobodyOvertakes == Spec => NoOvertaking
<1>1. GateInv /\ [Next]_mutexVars =>
        [\A c \in Clients : side[c] = "none" /\ side'[c] # "none" =>
           \A i \in 1 .. Len(waiters') : \E j \in 1 .. Len(waiters) :
             /\ waiters[j] = waiters'[i]
             /\ \A k \in 1 .. Len(waiters) : waiters[k].client = c => k < j
             /\ Queued(c)]_mutexVars
  BY StepKeepsOrder
<1> QED BY <1>1, GateInvHolds, PTL DEF Spec, NoOvertaking

\* A step of the code's gate is a step of the abstract one, or none.
LEMMA StepImplementsGate ==
  ASSUME GateInv, GateInv', [Next]_mutexVars
  PROVE  [Gate!GateStep]_side
<1>1. /\ side \in [Clients -> {"none", "shared", "exclusive"}]
      /\ side' \in [Clients -> {"none", "shared", "exclusive"}]
      /\ waiters \in Seq(Waiter) /\ Len(waiters) \in Nat /\ shared \in Nat
      /\ Gate!Lawful(side')
      /\ WaitsOutside
  BY LenProperties DEF GateInv, MutexInv, TypeOK
<1>2. CASE UNCHANGED mutexVars
  BY <1>2 DEF mutexVars
<1>3. ASSUME NEW c \in Clients, NEW mode \in Modes, Enters(c, mode) PROVE Gate!GateStep
  BY <1>1, <1>3 DEF Enters, Out, Gate!GateStep, Gate!Sides
<1>4. ASSUME NEW c \in Clients, NEW mode \in Modes, Queues(c, mode) PROVE UNCHANGED side
  BY <1>4 DEF Queues
<1>5. ASSUME NEW c \in Clients, Releases(c) PROVE Gate!GateStep
  <2> DEFINE readers == IF side[c] = "shared" THEN shared - 1 ELSE shared
             k == Granted(readers)
             let == {waiters[n].client : n \in 1 .. k}
  <2>1. k \in 0 .. Len(waiters)
    BY <1>1, <1>5, ReadersLeft, GrantedType DEF Releases
  <2>2. \A d \in Clients : d \notin let => side'[d] = IF d = c THEN "none" ELSE side[d]
    BY <1>5 DEF Releases
  <2> HIDE DEF readers, k
  <2>3. \A d \in let : side[d] = "none"
    BY <2>1, <1>1 DEF WaitsOutside
  <2> HIDE DEF let
  <2>4. \A d \in Clients : side'[d] # side[d] => "none" \in {side[d], side'[d]}
    BY <1>1, <2>2, <2>3
  <2>5. \A d \in Clients : side[d] # "none" /\ side'[d] = "none" => d = c
    BY <1>1, <2>2, <2>3
  <2> QED BY <1>1, <2>4, <2>5 DEF Gate!GateStep, Gate!Sides
<1> QED BY <1>2, <1>3, <1>4, <1>5 DEF Next

\* The waiter queue implements the abstract gate: exclusive holding is
\* exclusive, and nobody changes sides without leaving.
THEOREM MutexImplementsGate == Spec => ImplementsGate
<1>1. Init => Gate!GateInit
  BY DEF Init, Gate!GateInit
<1>2. GateInv /\ GateInv' /\ [Next]_mutexVars => [Gate!GateStep]_side
  BY StepImplementsGate
<1> QED BY <1>1, <1>2, GateInvHolds, PTL DEF Spec, ImplementsGate, Gate!GateSpec
=============================================================================
