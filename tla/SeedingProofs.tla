--------------------------- MODULE SeedingProofs ---------------------------
(***************************************************************************)
(* Theorems about Seeding.                                                 *)
(***************************************************************************)
EXTENDS Seeding, FiniteSetTheorems, SumTheorems, TLAPS

(* A task that has acquired the semaphore holds it, has been refused, or   *)
(* has left its key in the cache or in failed.                             *)
Outcome ==
  \A i \in 0..(acquired - 1) : i \in inflight \cup refused \/ Key(i) \in cache \cup failed

(* A limit that is not below the semaphore is never reached.               *)
NoneRefused == SeedConcurrency <= inflightLimit => refused = {}

(* Nor is any limit reached by the first keys.                             *)
FirstAccepted == \A i \in refused : ~(i < NumClients * inflightLimit)

(* A batch is over when the next one is created.                           *)
BatchesComplete == seeding # "gather" => inflight = {} /\ acquired = created

SeedInv ==
  /\ TypeOK
  /\ BatchesComplete
  /\ Outcome
  /\ NoneRefused
  /\ FirstAccepted
  /\ seeding = "done" => created = KeySpaceSize

LEMMA ConstantsType ==
  /\ KeySpaceSize \in Nat \ {0}
  /\ NumClients \in Nat \ {0} /\ InflightLimits \subseteq Nat \ {0}
  /\ SeedConcurrency \in Nat \ {0} /\ BatchSize \in Nat \ {0}
BY KeyAssumption, SeedingAssumption

LEMMA MinOfTwo ==
  ASSUME NEW a \in Nat, NEW b \in Nat
  PROVE  /\ Min({a, b}) \in {a, b}
         /\ Min({a, b}) <= a /\ Min({a, b}) <= b
<1>1. \E x \in {a, b} : \A y \in {a, b} : x <= y
  <2>1. CASE a <= b BY <2>1
  <2>2. CASE b <= a BY <2>2
  <2> QED BY <2>1, <2>2
<1> QED BY <1>1 DEF Min

LEMMA SeedInit == Init => SeedInv
BY ConstantsType DEF Init, SeedInv, TypeOK, BatchesComplete, Outcome, NoneRefused, FirstAccepted

LEMMA CreateBatchKeeps == SeedInv /\ CreateBatch => SeedInv'
<1> SUFFICES ASSUME SeedInv, CreateBatch PROVE SeedInv'
  OBVIOUS
<1>1. created' \in Nat /\ created <= created' /\ created' <= KeySpaceSize
  <2>1. created \in Nat /\ created <= KeySpaceSize
    BY ConstantsType DEF SeedInv, TypeOK
  <2> DEFINE m == Min({created + BatchSize, KeySpaceSize})
  <2>2. m \in {created + BatchSize, KeySpaceSize} /\ m <= KeySpaceSize
    BY <2>1, ConstantsType, MinOfTwo
  <2>3. created' = m
    BY DEF CreateBatch
  <2> QED BY <2>1, <2>2, <2>3, ConstantsType
<1>2. acquired \in Nat /\ acquired <= created
  BY ConstantsType DEF SeedInv, TypeOK
<1> QED
  BY <1>1, <1>2, ConstantsType
  DEF SeedInv, TypeOK, BatchesComplete, Outcome, NoneRefused, FirstAccepted, CreateBatch

(* A client is full only if it has more commands than the semaphore has    *)
(* permits.                                                                *)
LEMMA ClientHasRoom ==
  ASSUME TypeOK, StartWrite, SeedConcurrency <= inflightLimit, NEW c \in Nat
  PROVE  ~(CommandsAt(c) >= inflightLimit)
<1> DEFINE mine == {i \in inflight \ refused : ClientOf(i) = c}
<1>1. IsFiniteSet(inflight)
  <2>1. acquired - 1 \in Int /\ inflight \in SUBSET (0..(acquired - 1))
    BY ConstantsType DEF TypeOK
  <2>2. IsFiniteSet(0..(acquired - 1))
    BY <2>1, FS_Interval
  <2> QED BY <2>1, <2>2, FS_Subset
<1>2. Cardinality(mine) <= Cardinality(inflight) /\ IsFiniteSet(mine)
  BY <1>1, FS_Subset
<1>3. Cardinality(mine) \in Nat /\ Cardinality(inflight) \in Nat
  BY <1>1, <1>2, FS_CardinalityType
<1>4. Cardinality(inflight) < SeedConcurrency
  BY DEF StartWrite, HasPermit
<1> HIDE DEF mine
<1>5. Cardinality(mine) < inflightLimit /\ inflightLimit \in Nat
  BY <1>2, <1>3, <1>4, ConstantsType DEF TypeOK
<1> QED BY <1>3, <1>5 DEF CommandsAt, mine

LEMMA Division ==
  ASSUME NEW n \in Nat \ {0}
  PROVE  \A a \in Nat : a \div n \in Nat /\ a = n * (a \div n) + (a % n) /\ a % n \in 0..(n - 1)
BY Z3

LEMMA ProductGrows ==
  ASSUME NEW n \in Nat, NEW a \in Nat, NEW b \in Nat, a <= b
  PROVE  n * a <= n * b
BY Z3

(* The client of one of the first keys has room: the tasks before it that  *)
(* use the same client are too few to fill it.                             *)
LEMMA FirstHaveRoom ==
  ASSUME TypeOK, acquired < NumClients * inflightLimit
  PROVE  ~(CommandsAt(ClientOf(acquired)) >= inflightLimit)
<1> DEFINE n == NumClients
           q == acquired \div n
           mine == {i \in inflight \ refused : ClientOf(i) = ClientOf(acquired)}
           f == [i \in mine |-> i \div n]
<1>1. n \in Nat \ {0} /\ acquired \in Nat /\ inflightLimit \in Nat
  BY ConstantsType DEF TypeOK
<1>2. \A a \in Nat : a \div n \in Nat /\ a = n * (a \div n) + (a % n) /\ a % n \in 0..(n - 1)
  BY <1>1, Division
<1>3. q < inflightLimit
  <2>1. q \in Nat /\ acquired = n * q + (acquired % n) /\ acquired % n \in Nat
    BY <1>1, <1>2
  <2> HIDE DEF q, n
  <2>2. CASE inflightLimit <= q
    <3>1. n * inflightLimit <= n * q
      BY <1>1, <2>1, <2>2, ProductGrows
    <3>2. n * inflightLimit \in Nat /\ n * q \in Nat
      BY <1>1, <2>1
    <3>3. acquired < n * inflightLimit
      BY DEF n
    <3> QED BY <1>1, <2>1, <3>1, <3>2, <3>3
  <2> QED BY <1>1, <2>1, <2>2
<1>4. \A i \in mine : i \in Nat /\ i < acquired /\ i % n = acquired % n
  BY <1>1 DEF TypeOK, ClientOf
<1>5. f \in Injection(mine, 0..(q - 1))
  <2>1. ASSUME NEW i \in mine PROVE i \div n \in 0..(q - 1)
    <3> DEFINE d == i \div n
    <3>1. d \in Nat /\ q \in Nat /\ i = n * d + (i % n) /\ acquired = n * q + (acquired % n)
          /\ i \in Nat /\ i < acquired /\ i % n = acquired % n /\ i % n \in Nat
      BY <1>1, <1>2, <1>4
    <3> HIDE DEF d, q, n, mine
    <3>2. d < q
      <4>1. CASE q <= d
        <5>1. n * q <= n * d /\ n * q \in Nat /\ n * d \in Nat
          BY <1>1, <3>1, <4>1, ProductGrows
        <5> QED BY <3>1, <5>1
      <4> QED BY <3>1, <4>1
    <3>3. d \in 0..(q - 1)
      BY <3>1, <3>2
    <3> QED BY <3>3 DEF d
  <2>2. ASSUME NEW i \in mine, NEW j \in mine, i \div n = j \div n PROVE i = j
    <3>1. i = n * (i \div n) + (i % n) /\ j = n * (j \div n) + (j % n) /\ i % n = j % n
      BY <1>2, <1>4
    <3> QED BY <2>2, <3>1
  <2> HIDE DEF mine, q, n
  <2>3. f \in [mine -> 0..(q - 1)]
    BY <2>1
  <2>4. IsInjective(f)
    BY <2>2 DEF IsInjective
  <2> QED BY <2>3, <2>4 DEF Injection
<1>6. IsFiniteSet(0..(q - 1)) /\ Cardinality(0..(q - 1)) = q
  <2>1. q \in Nat
    BY <1>1, <1>2
  <2> HIDE DEF q
  <2>2. q - 1 \in Int
    BY <2>1
  <2> QED BY <2>1, <2>2, FS_Interval
<1> HIDE DEF mine, f
<1>7. Cardinality(mine) <= q /\ Cardinality(mine) \in Nat
  BY <1>5, <1>6, FS_Injection, FS_CardinalityType
<1>8. q \in Nat
  BY <1>1, <1>2
<1> HIDE DEF q
<1>9. ~(Cardinality(mine) >= inflightLimit)
  BY <1>1, <1>3, <1>7, <1>8
<1> QED BY <1>9 DEF CommandsAt, mine

LEMMA StartWriteKeeps == SeedInv /\ StartWrite => SeedInv'
<1> SUFFICES ASSUME SeedInv, StartWrite PROVE SeedInv'
  OBVIOUS
<1>1. acquired \in Nat /\ created \in Nat /\ acquired < created /\ created <= KeySpaceSize
  BY ConstantsType DEF SeedInv, TypeOK, StartWrite
<1>2. acquired' = acquired + 1 /\ inflight' = inflight \cup {acquired}
  BY DEF StartWrite
<1>3. refused' \in {refused, refused \cup {acquired}}
  BY DEF StartWrite
<1>4. TypeOK'
  BY <1>1, <1>2, <1>3 DEF SeedInv, TypeOK, StartWrite
<1>5. BatchesComplete'
  BY <1>1 DEF SeedInv, BatchesComplete, StartWrite
<1>6. Outcome'
  BY <1>1, <1>2, <1>3 DEF SeedInv, Outcome, StartWrite
<1>7. NoneRefused'
  <2> SUFFICES ASSUME SeedConcurrency <= inflightLimit PROVE refused' = {}
    BY DEF NoneRefused, StartWrite
  <2>1. ClientOf(acquired) \in Nat
    BY <1>1, ConstantsType DEF ClientOf
  <2>2. ~(CommandsAt(ClientOf(acquired)) >= inflightLimit)
    BY <2>1, ClientHasRoom DEF SeedInv
  <2> QED BY <2>2 DEF SeedInv, NoneRefused, StartWrite
<1>8. FirstAccepted'
  <2>1. CASE acquired < NumClients * inflightLimit
    <3>1. ~(CommandsAt(ClientOf(acquired)) >= inflightLimit)
      BY <2>1, FirstHaveRoom DEF SeedInv
    <3> QED BY <3>1 DEF SeedInv, FirstAccepted, StartWrite
  <2>2. CASE ~(acquired < NumClients * inflightLimit)
    BY <1>3, <2>2 DEF SeedInv, FirstAccepted, StartWrite
  <2> QED BY <2>1, <2>2
<1> QED BY <1>4, <1>5, <1>6, <1>7, <1>8 DEF SeedInv, StartWrite

LEMMA FinishWriteKeeps ==
  ASSUME SeedInv, NEW i \in Indices, FinishWrite(i)
  PROVE  SeedInv'
<1>1. acquired \in Nat /\ created \in Nat /\ acquired <= created
  BY ConstantsType DEF SeedInv, TypeOK
<1>2. /\ i \in inflight /\ inflight' = inflight \ {i}
      /\ UNCHANGED <<inflightLimit, seeding, created, acquired, refused>>
  BY DEF FinishWrite
<1>3. /\ cache' \in {cache, cache \cup {Key(i)}}
      /\ failed' \in {failed, failed \cup {Key(i)}}
      /\ i \in refused \/ Key(i) \in cache' \cup failed'
  BY DEF FinishWrite
<1>4. TypeOK'
  <2>1. Key(i) \in {Key(j) : j \in Indices}
    OBVIOUS
  <2>2. cache' \subseteq {Key(j) : j \in Indices} /\ failed' \subseteq {Key(j) : j \in Indices}
    BY <1>3, <2>1 DEF SeedInv, TypeOK
  <2> QED BY <1>2, <2>2 DEF SeedInv, TypeOK
<1>5. BatchesComplete'
  BY <1>2 DEF SeedInv, BatchesComplete
<1>6. Outcome'
  BY <1>2, <1>3 DEF SeedInv, Outcome
<1> QED BY <1>2, <1>4, <1>5, <1>6 DEF SeedInv, NoneRefused, FirstAccepted

LEMMA ExecutedLateKeeps ==
  ASSUME SeedInv, NEW i \in Indices, ExecutedLate(i)
  PROVE  SeedInv'
<1>1. Key(i) \in {Key(j) : j \in Indices}
  OBVIOUS
<1> QED
  BY <1>1
  DEF SeedInv, TypeOK, BatchesComplete, Outcome, NoneRefused, FirstAccepted, ExecutedLate

LEMMA GatheredKeeps == SeedInv /\ Gathered => SeedInv'
<1> SUFFICES ASSUME SeedInv, Gathered PROVE SeedInv'
  OBVIOUS
<1>1. created \in Nat /\ created <= KeySpaceSize /\ acquired \in Nat
  BY ConstantsType DEF SeedInv, TypeOK
<1> QED
  BY <1>1, ConstantsType
  DEF SeedInv, TypeOK, BatchesComplete, Outcome, NoneRefused, FirstAccepted, Gathered, BatchDone

LEMMA SeedStep == SeedInv /\ [Next]_vars => SeedInv'
<1> SUFFICES ASSUME SeedInv, [Next]_vars PROVE SeedInv'
  OBVIOUS
<1>1. CASE CreateBatch BY <1>1, CreateBatchKeeps
<1>2. CASE StartWrite BY <1>2, StartWriteKeeps
<1>3. ASSUME NEW i \in Indices, FinishWrite(i) PROVE SeedInv'
  BY <1>3, FinishWriteKeeps
<1>4. CASE Gathered BY <1>4, GatheredKeeps
<1>5. ASSUME NEW i \in Indices, ExecutedLate(i) PROVE SeedInv'
  BY <1>5, ExecutedLateKeeps
<1>6. CASE UNCHANGED vars
  BY <1>6 DEF vars, SeedInv, TypeOK, BatchesComplete, Outcome, NoneRefused, FirstAccepted
<1> QED BY <1>1, <1>2, <1>3, <1>4, <1>5, <1>6 DEF Next

LEMMA SeedInvariant == Spec => []SeedInv
BY SeedInit, SeedStep, PTL DEF Spec

(* The variables of pre_populate have their types.                         *)
THEOREM TypeCorrect == Spec => []TypeOK
<1>1. SeedInv => TypeOK BY DEF SeedInv
<1> QED BY <1>1, SeedInvariant, PTL

(* When pre_populate returns, every key is in the cache or its write       *)
(* failed in the cache, for every number of keys and clients, if the       *)
(* clients' limit is not below the semaphore.                              *)
THEOREM SeedsStay == Spec => []SeedsAreThere
<1>1. SeedInv => SeedsAreThere
  <2> SUFFICES ASSUME SeedInv, seeding = "done", SeedConcurrency <= inflightLimit,
                      NEW i \in Indices
               PROVE  Key(i) \in cache \cup failed
    BY DEF SeedsAreThere
  <2>1. inflight = {} /\ refused = {} /\ acquired = KeySpaceSize
    BY DEF SeedInv, BatchesComplete, NoneRefused
  <2> QED BY <2>1 DEF SeedInv, Outcome, Indices
<1> QED BY <1>1, SeedInvariant, PTL

(* Whatever the limit of the clients, the first NumClients * limit keys,   *)
(* the hottest of a Zipfian test, are never among the seeds that a client  *)
(* has refused: for every number of keys and clients, and every semaphore. *)
THEOREM HotKeysStay == Spec => []HotKeysAreSeeded
<1>1. SeedInv => HotKeysAreSeeded
  <2> SUFFICES ASSUME SeedInv, seeding = "done", NEW i \in Indices, i < NumClients * inflightLimit
               PROVE  Key(i) \in cache \cup failed
    BY DEF HotKeysAreSeeded
  <2>1. inflight = {} /\ i \notin refused /\ acquired = KeySpaceSize
    BY DEF SeedInv, BatchesComplete, FirstAccepted
  <2> QED BY <2>1 DEF SeedInv, Outcome, Indices
<1> QED BY <1>1, SeedInvariant, PTL

-----------------------------------------------------------------------------
(* The Zipfian generator.                                                  *)

Weights == [j \in Nat |-> Weight(j)]
Shares == [j \in Nat |-> (Weight(j) * Precision) \div TotalWeight]

LEMMA TotalIsSum == TotalWeight = SumFunctionOnSet(Weights, Indices)
<1>0. IsFiniteSet(Indices) /\ Indices \subseteq Nat
  BY FS_Interval, KeyAssumption DEF Indices
<1> DEFINE Fits(g) == g = [s \in SUBSET Indices |->
                             IF s = {} THEN 0 ELSE Weight(Chosen(s)) + g[s \ {Chosen(s)}]]
           h == CHOOSE g : Fits(g)
<1>1. ASSUME NEW g PROVE Fits(g) <=> IsFold(g, Weights, Indices)
  <2>1. ASSUME NEW s \in SUBSET Indices, s # {} PROVE Weight(Chosen(s)) = Weights[Chosen(s)]
    <3>1. Chosen(s) \in s
      BY <2>1 DEF Chosen
    <3> QED BY <1>0, <3>1 DEF Weights
  <2> QED BY <2>1 DEF IsFold
<1>2. \E g : Fits(g)
  BY <1>0, <1>1, FoldExists
<1>3. IsFold(h, Weights, Indices)
  BY <1>1, <1>2
<1>4. TotalWeight = h[Indices]
  BY DEF TotalWeight, MapThenSumSet, MapThenFoldSet, Chosen
<1> QED BY <1>0, <1>3, <1>4, SumIsFold

LEMMA WeightFacts ==
  /\ \A j \in Nat : Weight(j) \in Nat
  /\ Weight(0) = Precision
  /\ TotalWeight \in Nat \ {0}
<1>1. ASSUME NEW j \in Nat PROVE Weight(j) \in Nat
  <2>1. Precision \in Nat /\ j + 1 \in Nat \ {0}
    BY KeyAssumption
  <2>2. Precision \div (j + 1) \in Nat
    BY <2>1, Z3
  <2> QED BY <2>2 DEF Weight
<1>2. Weight(0) = Precision
  BY KeyAssumption, Z3 DEF Weight
<1>3. 0 \in Indices /\ IsFiniteSet(Indices) /\ Indices \subseteq Nat
  BY FS_Interval, KeyAssumption DEF Indices
<1>4. \A j \in Indices : Weights[j] \in Nat
  BY <1>1, <1>3 DEF Weights
<1>5. TotalWeight = Weights[0] + SumFunctionOnSet(Weights, Indices \ {0})
  BY <1>3, <1>4, SumTakesAny, TotalIsSum
<1>6. IsFiniteSet(Indices \ {0}) /\ \A j \in Indices \ {0} : Weights[j] \in Nat
  BY <1>3, <1>4, FS_Subset
<1>7. SumFunctionOnSet(Weights, Indices \ {0}) \in Nat
  BY <1>6, SumType
<1>8. Weights[0] = Precision
  BY <1>2 DEF Weights
<1> QED BY <1>1, <1>2, <1>5, <1>7, <1>8, KeyAssumption

LEMMA ShareType ==
  ASSUME NEW j \in Nat PROVE Shares[j] \in Nat
<1>1. Weight(j) * Precision \in Nat /\ TotalWeight \in Nat \ {0}
  BY WeightFacts, KeyAssumption
<1>2. \A a \in Nat, b \in Nat \ {0} : a \div b \in Nat
  BY Z3
<1> QED BY <1>1, <1>2 DEF Shares

LEMMA CumulativeIsSum ==
  ASSUME NEW i \in Nat
  PROVE  Cumulative(i) = SumFunctionOnSet(Shares, 0..i)
<1> DEFINE S == 0..i
           Fits(g) == g = [s \in SUBSET S |->
                             IF s = {} THEN 0
                             ELSE ((Weight(Chosen(s)) * Precision) \div TotalWeight) + g[s \ {Chosen(s)}]]
           h == CHOOSE g : Fits(g)
<1>0. IsFiniteSet(S) /\ S \subseteq Nat
  BY FS_Interval
<1>1. ASSUME NEW g PROVE Fits(g) <=> IsFold(g, Shares, S)
  <2>1. ASSUME NEW s \in SUBSET S, s # {}
        PROVE  (Weight(Chosen(s)) * Precision) \div TotalWeight = Shares[Chosen(s)]
    <3>1. Chosen(s) \in s
      BY <2>1 DEF Chosen
    <3>2. Chosen(s) \in Nat
      BY <1>0, <3>1
    <3> QED BY <3>2 DEF Shares
  <2> QED BY <2>1 DEF IsFold
<1>2. \E g : Fits(g)
  BY <1>0, <1>1, FoldExists
<1>3. IsFold(h, Shares, S)
  BY <1>1, <1>2
<1>4. Cumulative(i) = h[S]
  BY DEF Cumulative, MapThenSumSet, MapThenFoldSet, Chosen
<1> QED BY <1>0, <1>3, <1>4, SumIsFold

(* The cumulative distribution grows with the rank.                        *)
LEMMA CumulativeGrows ==
  /\ \A i \in Nat : Cumulative(i) \in Nat /\ Cumulative(i) <= Cumulative(i + 1)
  /\ \A i \in Nat : \A j \in 0..i : Cumulative(j) <= Cumulative(i)
<1>1. ASSUME NEW i \in Nat
      PROVE  Cumulative(i) \in Nat /\ Cumulative(i) <= Cumulative(i + 1)
  <2>1. IsFiniteSet(0..i) /\ IsFiniteSet(0..(i + 1)) /\ i + 1 \in 0..(i + 1)
    BY FS_Interval
  <2>2. \A j \in 0..(i + 1) : Shares[j] \in Nat
    BY ShareType
  <2>3. (0..(i + 1)) \ {i + 1} = 0..i
    OBVIOUS
  <2>4. SumFunctionOnSet(Shares, 0..(i + 1)) = Shares[i + 1] + SumFunctionOnSet(Shares, 0..i)
    <3>1. SumFunctionOnSet(Shares, 0..(i + 1)) =
            Shares[i + 1] + SumFunctionOnSet(Shares, (0..(i + 1)) \ {i + 1})
      BY <2>1, <2>2, SumTakesAny
    <3> QED BY <2>3, <3>1
  <2>5. SumFunctionOnSet(Shares, 0..i) \in Nat /\ Shares[i + 1] \in Nat
    BY <2>1, <2>2, SumType
  <2>6. Cumulative(i) = SumFunctionOnSet(Shares, 0..i)
    BY CumulativeIsSum
  <2>7. Cumulative(i + 1) = SumFunctionOnSet(Shares, 0..(i + 1))
    BY CumulativeIsSum
  <2> QED BY <2>4, <2>5, <2>6, <2>7
<1> DEFINE good == {i \in Nat : \A j \in 0..i : Cumulative(j) <= Cumulative(i)}
<1>2. 0 \in good
  BY <1>1
<1>3. ASSUME NEW i \in good PROVE i + 1 \in good
  <2> SUFFICES ASSUME NEW j \in 0..(i + 1) PROVE Cumulative(j) <= Cumulative(i + 1)
    OBVIOUS
  <2>1. i \in Nat /\ Cumulative(i) \in Nat /\ Cumulative(i + 1) \in Nat /\ Cumulative(j) \in Nat
        /\ Cumulative(i) <= Cumulative(i + 1)
    BY <1>1
  <2>2. CASE j = i + 1
    BY <2>1, <2>2
  <2>3. CASE j # i + 1
    <3>1. Cumulative(j) <= Cumulative(i)
      BY <2>1, <2>3
    <3> QED BY <2>1, <3>1
  <2> QED BY <2>2, <2>3
<1>4. good = Nat
  <2>1. good \in SUBSET Nat
    OBVIOUS
  <2> HIDE DEF good
  <2> QED BY <1>2, <1>3, <2>1, InductionOverNat
<1> QED BY <1>1, <1>4

-----------------------------------------------------------------------------
(* The binary search.                                                      *)

Middle(lo, hi) == (lo + hi) \div 2

LEMMA MiddleBetween ==
  ASSUME NEW lo \in Nat, NEW hi \in Nat, lo < hi
  PROVE  Middle(lo, hi) \in Nat /\ lo <= Middle(lo, hi) /\ Middle(lo, hi) < hi
BY Z3 DEF Middle

(* What the search in `range` yields when it yields g[...] further on.     *)
Searched(g, r, range) ==
  IF range[1] >= range[2] THEN range[1]
  ELSE IF Cumulative(Middle(range[1], range[2])) < r
    THEN g[<<Middle(range[1], range[2]) + 1, range[2]>>]
    ELSE g[<<range[1], Middle(range[1], range[2])>>]

IsSearch(g, r) == g = [range \in Indices \X Indices |-> Searched(g, r, range)]

LEMMA ZipfIndexIsSearch ==
  ASSUME NEW r, \E g : IsSearch(g, r)
  PROVE  \E g : IsSearch(g, r) /\ ZipfIndex(r) = g[<<0, KeySpaceSize - 1>>]
<1> DEFINE g == CHOOSE g : IsSearch(g, r)
<1>1. IsSearch(g, r)
  OBVIOUS
<1>2. ZipfIndex(r) = g[<<0, KeySpaceSize - 1>>]
  BY DEF ZipfIndex, LowerHalf, IsSearch, Searched, Middle
<1> QED BY <1>1, <1>2

(* Each step narrows the range, so the search is well defined.             *)
LEMMA SearchExists ==
  ASSUME NEW r PROVE \E g : IsSearch(g, r)
<1> DEFINE ranges == Indices \X Indices
           narrow(n) == {range \in ranges : range[2] - range[1] <= n}
           Fits(g, n) == g = [range \in narrow(n) |-> Searched(g, r, range)]
           done == {n \in Nat : \E g : Fits(g, n)}
<1>0. \A i \in Indices : i \in Nat /\ i <= KeySpaceSize - 1 /\ KeySpaceSize - 1 \in Nat
  BY KeyAssumption DEF Indices
<1>1. 0 \in done
  <2> DEFINE g == [range \in narrow(0) |-> range[1]]
  <2>1. ASSUME NEW range \in narrow(0) PROVE Searched(g, r, range) = range[1]
    <3>1. range[1] \in Nat /\ range[2] \in Nat /\ range[2] - range[1] <= 0
      BY <1>0
    <3>2. range[1] >= range[2]
      BY <3>1
    <3> QED BY <3>2 DEF Searched
  <2>2. Fits(g, 0)
    BY <2>1
  <2> HIDE DEF g, Fits
  <2> QED BY <2>2
<1>2. ASSUME NEW n \in done PROVE n + 1 \in done
  <2>1. PICK g : Fits(g, n)
    OBVIOUS
  <2> DEFINE h == [range \in narrow(n + 1) |-> Searched(g, r, range)]
  <2>2. ASSUME NEW range \in narrow(n) PROVE range \in narrow(n + 1) /\ h[range] = g[range]
    <3>1. range[1] \in Nat /\ range[2] \in Nat /\ range[2] - range[1] <= n /\ n \in Nat
      BY <1>0
    <3>2. range \in narrow(n + 1)
      BY <3>1
    <3> QED BY <2>1, <3>2
  <2>3. ASSUME NEW range \in narrow(n + 1) PROVE Searched(h, r, range) = Searched(g, r, range)
    <3> DEFINE lo == range[1]  hi == range[2]  mid == Middle(lo, hi)
    <3>1. /\ lo \in Indices /\ hi \in Indices /\ lo \in Nat /\ hi \in Nat
          /\ hi - lo <= n + 1 /\ n \in Nat
      BY <1>0
    <3>2. CASE lo >= hi
      BY <3>2 DEF Searched
    <3>3. CASE ~(lo >= hi)
      <4>1. lo < hi
        BY <3>1, <3>3
      <4> HIDE DEF lo, hi
      <4>2. mid \in Nat /\ lo <= mid /\ mid < hi
        BY <3>1, <4>1, MiddleBetween
      <4>3. mid \in Indices /\ mid + 1 \in Indices
        BY <1>0, <3>1, <4>2, KeyAssumption DEF Indices
      <4> HIDE DEF mid
      <4>4. hi - (mid + 1) <= n /\ mid - lo <= n
        BY <3>1, <4>2
      <4>5. <<mid + 1, hi>> \in narrow(n) /\ <<lo, mid>> \in narrow(n)
        BY <3>1, <4>3, <4>4
      <4>6. h[<<mid + 1, hi>>] = g[<<mid + 1, hi>>] /\ h[<<lo, mid>>] = g[<<lo, mid>>]
        BY <2>2, <4>5
      <4> HIDE DEF h
      <4> QED BY <4>6 DEF Searched, lo, hi, mid
    <3> QED BY <3>2, <3>3
  <2>4. Fits(h, n + 1)
    BY <2>3
  <2> HIDE DEF h, Fits
  <2> QED BY <2>4
<1>3. done = Nat
  <2>1. done \in SUBSET Nat
    OBVIOUS
  <2> HIDE DEF done
  <2> QED BY <1>1, <1>2, <2>1, InductionOverNat
<1>4. narrow(KeySpaceSize) = ranges /\ KeySpaceSize \in Nat
  <2>1. ASSUME NEW range \in ranges PROVE range[2] - range[1] <= KeySpaceSize
    <3>1. range[1] \in Nat /\ range[2] \in Nat /\ range[2] <= KeySpaceSize - 1 /\ KeySpaceSize \in Nat
      BY <1>0, KeyAssumption
    <3> QED BY <3>1
  <2> QED BY <2>1, KeyAssumption
<1>5. PICK g : Fits(g, KeySpaceSize)
  BY <1>3, <1>4
<1> QED BY <1>4, <1>5 DEF IsSearch

(* The search in lo..hi has found i: what is below it is below r, and it   *)
(* reaches r itself unless it is the last.                                 *)
Found(i, r, lo, hi) ==
  /\ i \in lo..hi
  /\ \A j \in lo..(i - 1) : Cumulative(j) < r
  /\ Cumulative(i) >= r \/ i = hi

LEMMA SearchFinds ==
  ASSUME NEW r \in Nat, NEW g, IsSearch(g, r)
  PROVE  \A lo, hi \in Indices : lo <= hi => Found(g[<<lo, hi>>], r, lo, hi)
<1> DEFINE done == {n \in Nat : \A lo, hi \in Indices :
                                   lo <= hi /\ hi - lo <= n => Found(g[<<lo, hi>>], r, lo, hi)}
<1>0. /\ \A i \in Indices : i \in Nat /\ i <= KeySpaceSize - 1
      /\ \A i \in Nat : i <= KeySpaceSize - 1 => i \in Indices
  BY KeyAssumption DEF Indices
<1>1. ASSUME NEW lo \in Indices, NEW hi \in Indices
      PROVE  g[<<lo, hi>>] = IF lo >= hi THEN lo
                             ELSE IF Cumulative(Middle(lo, hi)) < r
                               THEN g[<<Middle(lo, hi) + 1, hi>>]
                               ELSE g[<<lo, Middle(lo, hi)>>]
  <2>1. <<lo, hi>> \in Indices \X Indices /\ <<lo, hi>>[1] = lo /\ <<lo, hi>>[2] = hi
    OBVIOUS
  <2>2. g[<<lo, hi>>] = Searched(g, r, <<lo, hi>>)
    BY <2>1 DEF IsSearch
  <2> QED BY <2>1, <2>2 DEF Searched
<1>2. ASSUME NEW lo \in Indices, NEW hi \in Indices, lo >= hi, lo <= hi
      PROVE  Found(g[<<lo, hi>>], r, lo, hi)
  <2>1. g[<<lo, hi>>] = lo
    BY <1>1, <1>2
  <2>2. lo \in Nat /\ lo = hi
    BY <1>0, <1>2
  <2> QED BY <2>1, <2>2 DEF Found
<1>3. 0 \in done
  <2> SUFFICES ASSUME NEW lo \in Indices, NEW hi \in Indices, lo <= hi, hi - lo <= 0
               PROVE  Found(g[<<lo, hi>>], r, lo, hi)
    OBVIOUS
  <2>1. lo >= hi
    BY <1>0
  <2> QED BY <1>2, <2>1
<1>4. ASSUME NEW n \in done PROVE n + 1 \in done
  <2> SUFFICES ASSUME NEW lo \in Indices, NEW hi \in Indices, lo <= hi, hi - lo <= n + 1
               PROVE  Found(g[<<lo, hi>>], r, lo, hi)
    OBVIOUS
  <2>0. lo \in Nat /\ hi \in Nat /\ n \in Nat
    BY <1>0
  <2>1. CASE lo >= hi
    BY <1>2, <2>1
  <2>2. CASE ~(lo >= hi)
    <3> DEFINE mid == Middle(lo, hi)
    <3>1. lo < hi
      BY <2>0, <2>2
    <3>2. mid \in Nat /\ lo <= mid /\ mid < hi
      BY <2>0, <3>1, MiddleBetween
    <3>3. mid \in Indices /\ mid + 1 \in Indices /\ mid + 1 <= hi
      BY <1>0, <2>0, <3>2, KeyAssumption DEF Indices
    <3>4. hi - (mid + 1) <= n /\ mid - lo <= n
      BY <2>0, <3>2
    <3>5. CASE Cumulative(mid) < r
      <4> DEFINE i == g[<<mid + 1, hi>>]
      <4>1. g[<<lo, hi>>] = i
        BY <1>1, <2>2, <3>5
      <4>2. Found(i, r, mid + 1, hi)
        BY <3>3, <3>4
      <4> HIDE DEF mid, i
      <4>3. i \in lo..hi /\ (Cumulative(i) >= r \/ i = hi)
        BY <2>0, <3>2, <4>2 DEF Found
      <4>4. ASSUME NEW j \in lo..(i - 1) PROVE Cumulative(j) < r
        <5>1. i \in Nat /\ i >= mid + 1 /\ j \in Nat
          BY <2>0, <3>2, <4>2 DEF Found
        <5>2. CASE j <= mid
          <6>1. /\ Cumulative(j) <= Cumulative(mid)
                /\ Cumulative(j) \in Nat /\ Cumulative(mid) \in Nat
            BY <3>2, <5>1, <5>2, CumulativeGrows
          <6> QED BY <3>5, <6>1
        <5>3. CASE j > mid
          BY <2>0, <3>2, <4>2, <4>4, <5>1, <5>3 DEF Found
        <5> QED BY <3>2, <5>1, <5>2, <5>3
      <4> QED BY <4>1, <4>3, <4>4 DEF Found
    <3>6. CASE ~(Cumulative(mid) < r)
      <4> DEFINE i == g[<<lo, mid>>]
      <4>1. g[<<lo, hi>>] = i
        BY <1>1, <2>2, <3>6
      <4>2. Found(i, r, lo, mid)
        BY <3>2, <3>3, <3>4
      <4>3. Cumulative(mid) \in Nat
        BY <3>2, CumulativeGrows
      <4> HIDE DEF mid, i
      <4>4. i \in lo..hi
        BY <2>0, <3>2, <4>2 DEF Found
      <4>5. Cumulative(i) >= r
        BY <3>6, <4>2, <4>3 DEF Found
      <4> QED BY <4>1, <4>2, <4>4, <4>5 DEF Found
    <3> QED BY <3>5, <3>6
  <2> QED BY <2>1, <2>2
<1>5. done = Nat
  <2>1. done \in SUBSET Nat
    OBVIOUS
  <2> HIDE DEF done
  <2> QED BY <1>3, <1>4, <2>1, InductionOverNat
<1> SUFFICES ASSUME NEW lo \in Indices, NEW hi \in Indices, lo <= hi
             PROVE  Found(g[<<lo, hi>>], r, lo, hi)
  OBVIOUS
<1>6. hi - lo \in Nat
  BY <1>0
<1>7. hi - lo \in done
  BY <1>5, <1>6
<1> QED BY <1>0, <1>7

LEMMA ZipfFinds ==
  ASSUME NEW r \in Randoms
  PROVE  Found(ZipfIndex(r), r, 0, KeySpaceSize - 1)
<1>1. PICK g : IsSearch(g, r) /\ ZipfIndex(r) = g[<<0, KeySpaceSize - 1>>]
  BY SearchExists, ZipfIndexIsSearch
<1>2. r \in Nat /\ 0 \in Indices /\ KeySpaceSize - 1 \in Indices /\ 0 <= KeySpaceSize - 1
  BY KeyAssumption DEF Randoms, Indices
<1> QED BY <1>1, <1>2, SearchFinds

(* The search of ZipfianKeyGenerator.next_key yields the first key whose   *)
(* share of the cumulative distribution reaches the random number, and the *)
(* last key when rounding leaves none, for every key space and precision.  *)
THEOREM SearchInverts == Spec => []ZipfIsInverse
<1>1. ZipfIsInverse
  BY ZipfFinds DEF ZipfIsInverse, Found
<1> QED BY <1>1, PTL

(* Every generator but the sequential one draws keys that are seeded.      *)
LEMMA DrawnFromSeeds ==
  ASSUME NEW distribution, distribution # "sequential"
  PROVE  \A key \in Drawn(distribution) : \E i \in Indices : key = Key(i)
<1>1. \A r \in Randoms : ZipfIndex(r) \in Indices
  BY ZipfFinds DEF Found, Indices
<1> QED BY <1>1 DEF Drawn, UniformIndices

(* So once pre_populate has returned a worker finds what it reads, or its  *)
(* seed failed in the cache, whatever the distribution is called, unless   *)
(* it is "sequential": create_key_generator takes every other name but     *)
(* "zipf" for "uniform".                                                   *)
THEOREM NamesFindSeeds ==
  ASSUME NEW distribution, distribution # "sequential"
  PROVE  Spec => [](seeding = "done" /\ SeedConcurrency <= inflightLimit =>
                      Drawn(distribution) \subseteq cache \cup failed)
<1>1. SeedsAreThere =>
        (seeding = "done" /\ SeedConcurrency <= inflightLimit =>
           Drawn(distribution) \subseteq cache \cup failed)
  BY DrawnFromSeeds DEF SeedsAreThere
<1> QED BY <1>1, SeedsStay, PTL

(* The distributions that a scenario that is seeded names: each of them    *)
(* reads keys that pre_populate has set.                                   *)
THEOREM ReadsFind == Spec => []ReadsFindSeeds
<1>1. SeedsAreThere => ReadsFindSeeds
  BY DrawnFromSeeds DEF SeedsAreThere, ReadsFindSeeds
<1> QED BY <1>1, SeedsStay, PTL
=============================================================================
