-------------------------- MODULE AggregatorProofs --------------------------
(***************************************************************************)
(* Theorems about the aggregator and the live reader, for every number of  *)
(* workers and buckets, and whatever the windows hold.                     *)
(***************************************************************************)
EXTENDS ReportedSeries, SumTheorems

-----------------------------------------------------------------------------
(* Sorting.                                                                *)

IsAscending(s, S) ==
  /\ s \in [1..Cardinality(S) -> S]
  /\ \A i, j \in 1..Cardinality(S) : i < j => s[i] < s[j]
  /\ \A x \in S : \E i \in 1..Cardinality(S) : s[i] = x

(* A finite set of numbers can be sorted: its greatest element goes last.  *)
LEMMA AscendingExists ==
  ASSUME NEW S \in SUBSET Nat, IsFiniteSet(S)
  PROVE  \E s : IsAscending(s, S)
<1> DEFINE sorted == {T \in SUBSET S : \E s : IsAscending(s, T)}
<1>1. ASSUME NEW T \in SUBSET S, \A x \in T : T \ {x} \in sorted
      PROVE  T \in sorted
  <2>0. IsFiniteSet(T) /\ Cardinality(T) \in Nat
    BY FS_Subset, FS_CardinalityType
  <2>1. CASE T = {}
    <3>1. Cardinality(T) = 0 /\ 1..0 = {}
      BY <2>1, FS_EmptySet
    <3>2. IsAscending(<<>>, T)
      BY <2>1, <3>1 DEF IsAscending
    <3> QED BY <3>2
  <2>2. CASE T # {}
    <3> DEFINE x == Max(T)
               U == T \ {x}
               n == Cardinality(U)
    <3>1. x \in T /\ x \in Nat /\ \A m \in T : x >= m /\ m \in Nat
      BY <2>0, <2>2, MaxOfNaturals
    <3>2. Cardinality(T) = n + 1 /\ n \in Nat
      BY <2>0, <3>1, FS_RemoveElement, FS_Subset, FS_CardinalityType
    <3>3. PICK s : IsAscending(s, U)
      BY <1>1, <3>1
    <3> DEFINE t == [i \in 1..(n + 1) |-> IF i = n + 1 THEN x ELSE s[i]]
    <3>4. \A i \in 1..(n + 1) : i # n + 1 => i \in 1..n
      BY <3>2
    <3>5. s \in [1..n -> U]
      BY <3>3 DEF IsAscending
    <3>6. \A i \in 1..n : s[i] \in T /\ s[i] \in Nat /\ s[i] < x
      <4> TAKE i \in 1..n
      <4>1. s[i] \in T /\ s[i] # x
        BY <3>5
      <4> HIDE DEF x, n, sorted
      <4>2. x >= s[i] /\ s[i] \in Nat /\ x \in Nat
        BY <3>1, <4>1
      <4> QED BY <4>1, <4>2
    <3>7. \A i, j \in 1..n : i < j => s[i] < s[j]
      BY <3>3 DEF IsAscending
    <3>8. \A y \in U : \E i \in 1..n : s[i] = y
      BY <3>3 DEF IsAscending
    <3> HIDE DEF n, x
    <3>9. t \in [1..(n + 1) -> T]
      BY <3>1, <3>4, <3>6
    <3>10. ASSUME NEW i \in 1..(n + 1), NEW j \in 1..(n + 1), i < j PROVE t[i] < t[j]
      <4>1. i \in 1..n /\ t[i] = s[i]
        BY <3>2, <3>10
      <4>2. CASE j = n + 1
        BY <3>6, <4>1, <4>2
      <4>3. CASE j # n + 1
        <5>1. j \in 1..n /\ t[j] = s[j]
          BY <3>4, <4>3
        <5> QED BY <3>7, <3>10, <4>1, <5>1
      <4> QED BY <4>2, <4>3
    <3>11. ASSUME NEW y \in T PROVE \E i \in 1..(n + 1) : t[i] = y
      <4>1. CASE y = x
        <5>1. n + 1 \in 1..(n + 1) /\ t[n + 1] = x
          BY <3>2
        <5> QED BY <4>1, <5>1
      <4>2. CASE y # x
        <5>1. PICK i \in 1..n : s[i] = y
          BY <3>8, <4>2
        <5>2. i \in 1..(n + 1) /\ t[i] = s[i]
          BY <3>2
        <5> QED BY <5>1, <5>2
      <4> QED BY <4>1, <4>2
    <3> HIDE DEF t, U
    <3>12. IsAscending(t, T)
      BY <3>2, <3>9, <3>10, <3>11 DEF IsAscending
    <3> QED BY <3>12
  <2> QED BY <2>1, <2>2
<1>2. sorted = SUBSET S
  <2>1. sorted \in SUBSET (SUBSET S)
    OBVIOUS
  <2> HIDE DEF sorted
  <2> QED BY <1>1, <2>1, InductionOverSubsets
<1> QED BY <1>2

(* Ascending yields every element of the set in one place.                 *)
LEMMA AscendingSorts ==
  ASSUME NEW S \in SUBSET Nat, IsFiniteSet(S)
  PROVE  /\ Cardinality(S) \in Nat
         /\ Ascending(S) \in [1..Cardinality(S) -> S]
         /\ \A i, j \in 1..Cardinality(S) : i < j => Ascending(S)[i] < Ascending(S)[j]
         /\ \A i, j \in 1..Cardinality(S) : Ascending(S)[i] = Ascending(S)[j] => i = j
         /\ \A x \in S : \E i \in 1..Cardinality(S) : Ascending(S)[i] = x
<1> DEFINE n == Cardinality(S)
           t == Ascending(S)
<1>0. n \in Nat
  BY FS_CardinalityType
<1>1. PICK s : IsAscending(s, S)
  BY AscendingExists
<1>2. t \in [1..n -> S] /\ \A i, j \in 1..n : i < j => t[i] < t[j]
  BY <1>1 DEF Ascending, IsAscending
<1> HIDE DEF t, n
<1>3. \A i, j \in 1..n : t[i] = t[j] => i = j
  <2> SUFFICES ASSUME NEW i \in 1..n, NEW j \in 1..n, t[i] = t[j], i < j PROVE FALSE
    BY <1>0
  <2>1. t[i] \in Nat /\ t[j] \in Nat /\ t[i] < t[j]
    BY <1>2
  <2> QED BY <2>1
<1>4. \A x \in S : \E i \in 1..n : t[i] = x
  <2>1. IsFiniteSet(1..n) /\ Cardinality(1..n) = n
    BY <1>0, FS_Interval
  <2>2. t \in Injection(1..n, S)
    BY <1>2, <1>3 DEF Injection, IsInjective
  <2>3. t \in Surjection(1..n, S)
    BY <2>1, <2>2, FS_Injection DEF n
  <2> QED BY <1>2, <2>3 DEF Surjection
<1> QED BY <1>0, <1>2, <1>3, <1>4 DEF t, n

-----------------------------------------------------------------------------
(* Types.                                                                  *)

(* A snapshot as Flush appends it: it counts as successes what its         *)
(* histogram holds.                                                        *)
Reported ==
  {s \in [timestamp : Nat, rps : Nat, histogram : [Buckets -> Nat],
          success : Nat, throttle : Nat, error : Nat] :
     s.success = Samples(s.histogram)}

TypeOK ==
  /\ results \in [Workers -> Seq(Reported)]
  /\ closed \subseteq Workers

Counters == {"rps", "success", "throttle", "error"}

LEMMA BucketFacts ==
  /\ IsFiniteSet(Buckets) /\ NumBuckets \in Buckets /\ NumBuckets \in Nat
  /\ \A b \in Nat : IsFiniteSet(1..b)
  /\ \A b \in Nat : b <= NumBuckets => 1..b \in SUBSET Buckets
  /\ 1..NumBuckets = Buckets
BY HistogramAssumption, FS_Interval DEF Buckets

LEMMA SamplesType ==
  ASSUME NEW h \in [Buckets -> Nat]
  PROVE  /\ Samples(h) \in Nat
         /\ Samples(h) = Cumulative(h, NumBuckets)
         /\ \A b \in 0..NumBuckets : Cumulative(h, b) \in Nat
<1>1. DOMAIN h = Buckets /\ \A b \in Buckets : h[b] \in Nat
  OBVIOUS
<1>2. \A b \in 0..NumBuckets : Cumulative(h, b) \in Nat
  <2> TAKE b \in 0..NumBuckets
  <2>1. IsFiniteSet(1..b) /\ \A x \in 1..b : h[x] \in Nat
    BY <1>1, BucketFacts
  <2> QED BY <2>1, SumType DEF Cumulative
<1>3. Samples(h) = Cumulative(h, NumBuckets)
  BY <1>1, BucketFacts DEF Samples, Cumulative, SumFunction
<1> QED BY <1>2, <1>3, BucketFacts

LEMMA TypeInit == Init => TypeOK
BY DEF Init, TypeOK

LEMMA FlushType ==
  ASSUME TypeOK, NEW w \in Workers, NEW x \in Windows, NEW late \in {0, 1},
         Flush(w, LastTimestamp(w) + late, x)
  PROVE  results' \in [Workers -> Seq(Reported)]
<1> DEFINE s == [timestamp |-> LastTimestamp(w) + late, rps |-> Samples(x.histogram),
                 histogram |-> x.histogram, success |-> Samples(x.histogram),
                 throttle |-> x.throttle, error |-> x.error]
<1>1. x.histogram \in [Buckets -> Nat] /\ x.throttle \in Nat /\ x.error \in Nat
  BY SeriesAssumption
<1>2. LastTimestamp(w) \in Nat
  <2>1. results[w] \in Seq(Reported)
    BY DEF TypeOK
  <2>2. CASE results[w] # <<>>
    <3>1. Last(results[w]) \in Reported
      BY <2>1, <2>2 DEF Last
    <3> QED BY <2>2, <3>1 DEF LastTimestamp, Reported
  <2> QED BY <2>2 DEF LastTimestamp
<1>3. s \in Reported
  BY <1>1, <1>2, SamplesType DEF Reported
<1>4. results' = [results EXCEPT ![w] = Append(@, s)]
  BY DEF Flush
<1> HIDE DEF s
<1> QED BY <1>3, <1>4 DEF TypeOK

LEMMA TypeStep == TypeOK /\ [Next]_vars => TypeOK'
<1> SUFFICES ASSUME TypeOK, [Next]_vars PROVE TypeOK'
  OBVIOUS
<1>1. ASSUME NEW w \in Workers, FullWindow(w) PROVE TypeOK'
  <2>1. results' \in [Workers -> Seq(Reported)]
    BY <1>1, FlushType DEF FullWindow
  <2> QED BY <1>1, <2>1 DEF FullWindow, TypeOK
<1>2. ASSUME NEW w \in Workers, FinalWindow(w) PROVE TypeOK'
  <2>1. results' \in [Workers -> Seq(Reported)]
    BY <1>2, FlushType DEF FinalWindow
  <2> QED BY <1>2, <2>1 DEF FinalWindow, TypeOK
<1>3. CASE UNCHANGED vars
  BY <1>3 DEF vars, TypeOK
<1> QED BY <1>1, <1>2, <1>3 DEF Next

(* Every series that the aggregator is given is one of snapshots whose     *)
(* counters are numbers and whose histogram holds the successes.           *)
THEOREM TypeCorrect == Spec => []TypeOK
BY TypeInit, TypeStep, PTL DEF Spec

-----------------------------------------------------------------------------
(* The snapshots and their timestamps.                                     *)

LEMMA PlacesFacts ==
  ASSUME TypeOK
  PROVE  /\ IsFiniteSet(Places(results))
         /\ \A p \in Places(results) : SnapshotAt(results, p) \in Reported
<1> DEFINE lengths == {Len(results[w]) : w \in Workers}
           f == [w \in Workers |-> Len(results[w])]
<1>1. \A w \in Workers : results[w] \in Seq(Reported) /\ Len(results[w]) \in Nat
  BY DEF TypeOK
<1>2. lengths \in SUBSET Nat /\ lengths # {}
  BY <1>1, AggregatorAssumption
<1>3. IsFiniteSet(lengths)
  <2>1. f \in Surjection(Workers, lengths)
    BY DEF Surjection
  <2> HIDE DEF f, lengths
  <2> QED BY <2>1, AggregatorAssumption, FS_Surjection
<1>4. Max(lengths) \in Nat
  BY <1>2, <1>3, MaxOfNaturals
<1>5. Places(results) \in SUBSET (Workers \X (1..Max(lengths)))
  BY DEF Places
<1>6. \A p \in Places(results) : p[1] \in Workers /\ p[2] \in 1..Len(results[p[1]])
  BY <1>1, <1>4 DEF Places
<1> HIDE DEF lengths
<1>7. IsFiniteSet(Workers \X (1..Max(lengths)))
  <2>1. IsFiniteSet(1..Max(lengths))
    BY <1>4, FS_Interval
  <2> QED BY <2>1, AggregatorAssumption, FS_Product
<1>8. IsFiniteSet(Places(results))
  BY <1>5, <1>7, FS_Subset
<1>9. ASSUME NEW p \in Places(results) PROVE SnapshotAt(results, p) \in Reported
  BY <1>1, <1>6 DEF SnapshotAt
<1> QED BY <1>8, <1>9

LEMMA TimestampsFacts ==
  ASSUME TypeOK
  PROVE  Timestamps(results) \in SUBSET Nat /\ IsFiniteSet(Timestamps(results))
<1> DEFINE f == [p \in Places(results) |-> SnapshotAt(results, p).timestamp]
<1>1. f \in Surjection(Places(results), Timestamps(results))
  BY DEF Surjection, Timestamps
<1>2. IsFiniteSet(Timestamps(results))
  <2> HIDE DEF f
  <2> QED BY <1>1, PlacesFacts, FS_Surjection
<1>3. Timestamps(results) \in SUBSET Nat
  BY PlacesFacts DEF Timestamps, Reported
<1> QED BY <1>2, <1>3

LEMMA GroupFacts ==
  ASSUME TypeOK, NEW t
  PROVE  /\ At(results, t) \in SUBSET Places(results)
         /\ IsFiniteSet(At(results, t))
         /\ \A p \in At(results, t) : /\ SnapshotAt(results, p) \in Reported
                                      /\ SnapshotAt(results, p).timestamp = t
<1>1. At(results, t) \in SUBSET Places(results)
  BY DEF At
<1> QED BY <1>1, PlacesFacts, FS_Subset DEF At

LEMMA TotalType ==
  ASSUME TypeOK, NEW c \in Counters, NEW S \in SUBSET Places(results)
  PROVE  Total(results, c, S) \in Nat
<1> DEFINE f == [p \in S |-> SnapshotAt(results, p)[c]]
<1>1. \A p \in S : f[p] \in Nat
  BY PlacesFacts DEF Counters, Reported
<1>2. IsFiniteSet(S) /\ DOMAIN f = S
  BY PlacesFacts, FS_Subset
<1> HIDE DEF f
<1>3. SumFunctionOnSet(f, S) \in Nat
  BY <1>1, <1>2, SumType
<1> QED BY <1>2, <1>3 DEF Total, SumFunction, f

(* The series has a point for each timestamp, in their order.              *)
LEMMA SeriesFacts ==
  ASSUME TypeOK
  PROVE  \E n \in Nat : \E ts \in [1..n -> Timestamps(results)] :
           /\ Series = [i \in 1..n |-> Point(results, ts[i])]
           /\ \A i, j \in 1..n : ts[i] = ts[j] => i = j
           /\ \A t \in Timestamps(results) : \E i \in 1..n : ts[i] = t
<1> DEFINE n == Cardinality(Timestamps(results))
           ts == Ascending(Timestamps(results))
<1>1. /\ n \in Nat /\ ts \in [1..n -> Timestamps(results)]
      /\ \A i, j \in 1..n : ts[i] = ts[j] => i = j
      /\ \A t \in Timestamps(results) : \E i \in 1..n : ts[i] = t
  BY TimestampsFacts, AscendingSorts
<1>2. Series = [i \in DOMAIN ts |-> Point(results, ts[i])]
  BY DEF Series, AggregateTimeSeries
<1> HIDE DEF n, ts
<1>3. Series = [i \in 1..n |-> Point(results, ts[i])]
  BY <1>1, <1>2
<1> QED BY <1>1, <1>3

-----------------------------------------------------------------------------
(* The summary and the series.                                             *)

(* A snapshot is in one group, so a counter's total is that of its groups. *)
LEMMA CountedInOneGroup ==
  ASSUME TypeOK, NEW c \in Counters, NEW n \in Nat,
         NEW ts \in [1..n -> Timestamps(results)],
         \A i, j \in 1..n : ts[i] = ts[j] => i = j,
         \A t \in Timestamps(results) : \E i \in 1..n : ts[i] = t
  PROVE  Total(results, c, Places(results))
           = SumFunctionOnSet([i \in 1..n |-> Total(results, c, At(results, ts[i]))], 1..n)
<1> DEFINE S == Places(results)
           f == [p \in S |-> SnapshotAt(results, p)[c]]
           part == [p \in S |-> CHOOSE i \in 1..n : ts[i] = SnapshotAt(results, p).timestamp]
           group == [i \in 1..n |-> At(results, ts[i])]
           totals == [i \in 1..n |-> Total(results, c, At(results, ts[i]))]
<1>1. IsFiniteSet(S) /\ \A p \in S : f[p] \in Nat
  BY PlacesFacts DEF Counters, Reported
<1>2. \A p \in S : part[p] \in 1..n /\ ts[part[p]] = SnapshotAt(results, p).timestamp
  <2> TAKE p \in S
  <2>1. SnapshotAt(results, p).timestamp \in Timestamps(results)
    BY DEF Timestamps
  <2>2. \E i \in 1..n : ts[i] = SnapshotAt(results, p).timestamp
    BY <2>1
  <2> QED BY <2>2
<1>3. ASSUME NEW i \in 1..n
      PROVE  /\ group[i] \in SUBSET S
             /\ \A p \in S : p \in group[i] <=> part[p] = i
             /\ totals[i] = SumFunctionOnSet(f, group[i])
  <2> DEFINE G == At(results, ts[i])
             g == [p \in G |-> SnapshotAt(results, p)[c]]
  <2>1. IsFiniteSet(G) /\ G \in SUBSET S
    BY GroupFacts
  <2>2. \A p \in S : p \in G <=> part[p] = i
    <3> HIDE DEF part
    <3> QED BY <1>2 DEF At
  <2> HIDE DEF G
  <2>3. \A p \in G : f[p] = g[p]
    BY <2>1
  <2>4. SumFunctionOnSet(f, G) = SumFunctionOnSet(g, G)
    <3> HIDE DEF f, g
    <3> QED BY <2>1, <2>3, SumsAgree
  <2>5. Total(results, c, G) = SumFunctionOnSet(g, G)
    BY DEF Total, SumFunction
  <2>6. group[i] = G /\ totals[i] = Total(results, c, G)
    BY DEF G
  <2> HIDE DEF f, g, group, totals, part
  <2> QED BY <2>1, <2>2, <2>4, <2>5, <2>6
<1>4. Total(results, c, S) = SumFunctionOnSet(f, S)
  BY DEF Total, SumFunction
<1> HIDE DEF f, part, group, totals, S
<1>5. SumFunctionOnSet(f, S) = SumFunctionOnSet(totals, 1..n)
  BY <1>1, <1>2, <1>3, SumByParts
<1> QED BY <1>4, <1>5 DEF S, totals

LEMMA PointFields ==
  ASSUME NEW t
  PROVE  /\ Point(results, t).timestamp = t
         /\ Point(results, t).rps = Total(results, "rps", At(results, t))
         /\ Point(results, t).success = Total(results, "success", At(results, t))
         /\ Point(results, t).throttled = Total(results, "throttle", At(results, t))
         /\ Point(results, t).errors = Total(results, "error", At(results, t))
         /\ Point(results, t).clients = Cardinality(At(results, t)) * ClientsPerWorker
         /\ Point(results, t).demand = Total(results, "success", At(results, t)) * EcpuPerRequest
BY DEF Point, Grouped

LEMMA SummaryFields ==
  /\ BuildSummary(results).requests = Total(results, "success", Places(results))
  /\ BuildSummary(results).throttled = Total(results, "throttle", Places(results))
  /\ BuildSummary(results).errors = Total(results, "error", Places(results))
BY DEF BuildSummary, Summed

(* The totals that the summary takes from the workers are those of the     *)
(* points of the series: aggregate_time_series neither loses a snapshot    *)
(* nor counts one twice, whatever timestamps the workers' windows carry.   *)
THEOREM SummaryAgrees == Spec => []SummaryAgreesWithSeries
<1>1. TypeOK => SummaryAgreesWithSeries
  <2> SUFFICES ASSUME TypeOK PROVE SummaryAgreesWithSeries
    OBVIOUS
  <2> DEFINE points(counter) == [i \in DOMAIN Series |-> Series[i][counter]]
  <2> PICK n \in Nat : \E ts \in [1..n -> Timestamps(results)] :
           /\ Series = [i \in 1..n |-> Point(results, ts[i])]
           /\ \A i, j \in 1..n : ts[i] = ts[j] => i = j
           /\ \A t \in Timestamps(results) : \E i \in 1..n : ts[i] = t
    BY SeriesFacts
  <2>1. PICK ts \in [1..n -> Timestamps(results)] :
           /\ Series = [i \in 1..n |-> Point(results, ts[i])]
           /\ \A i, j \in 1..n : ts[i] = ts[j] => i = j
           /\ \A t \in Timestamps(results) : \E i \in 1..n : ts[i] = t
    OBVIOUS
  <2> DEFINE totals(c) == [i \in 1..n |-> Total(results, c, At(results, ts[i]))]
  <2>2. /\ \A i \in DOMAIN Series : Series[i] = Point(results, ts[i])
        /\ DOMAIN Series = 1..n
    BY <2>1
  <2>3. /\ points("success") = totals("success")
        /\ points("throttled") = totals("throttle")
        /\ points("errors") = totals("error")
    BY <2>2, PointFields
  <2>4. /\ DOMAIN points("success") = 1..n
        /\ DOMAIN points("throttled") = 1..n
        /\ DOMAIN points("errors") = 1..n
    BY <2>2
  <2>5. /\ Total(results, "success", Places(results)) = SumFunctionOnSet(totals("success"), 1..n)
        /\ Total(results, "throttle", Places(results)) = SumFunctionOnSet(totals("throttle"), 1..n)
        /\ Total(results, "error", Places(results)) = SumFunctionOnSet(totals("error"), 1..n)
    BY <2>1, CountedInOneGroup DEF Counters
  <2>6. /\ BuildSummary(results).requests = SumFunction(points("success"))
        /\ BuildSummary(results).throttled = SumFunction(points("throttled"))
        /\ BuildSummary(results).errors = SumFunction(points("errors"))
    <3> HIDE DEF points, totals
    <3> QED BY <2>3, <2>4, <2>5, SummaryFields DEF SumFunction
  <2> QED BY <2>6 DEF SummaryAgreesWithSeries
<1> QED BY <1>1, TypeCorrect, PTL

-----------------------------------------------------------------------------
(* Percentiles.                                                            *)

(* Merging first and adding up the lower buckets then is adding up the     *)
(* lower buckets of each histogram.                                        *)
LEMMA MergedCumulative ==
  ASSUME NEW S, IsFiniteSet(S), NEW h, \A x \in S : h[x] \in [Buckets -> Nat]
  PROVE  /\ MergeHistograms(h, S) \in [Buckets -> Nat]
         /\ \A b \in 0..NumBuckets :
              Cumulative(MergeHistograms(h, S), b) = SumFunction([x \in S |-> Cumulative(h[x], b)])
<1> DEFINE merged == MergeHistograms(h, S)
           col == [c \in Buckets |-> [x \in S |-> h[x][c]]]
<1>1. \A c \in Buckets : merged[c] = SumFunctionOnSet(col[c], S)
  BY DEF MergeHistograms, SumFunction
<1>2. \A c \in Buckets : merged[c] \in Nat
  <2> TAKE c \in Buckets
  <2>1. \A x \in S : col[c][x] \in Nat
    OBVIOUS
  <2> HIDE DEF col, merged
  <2>2. SumFunctionOnSet(col[c], S) \in Nat
    BY <2>1, SumType
  <2> QED BY <1>1, <2>2
<1>3. merged \in [Buckets -> Nat]
  <2>1. merged = [c \in Buckets |-> merged[c]]
    BY DEF MergeHistograms
  <2> HIDE DEF merged
  <2> QED BY <1>2, <2>1
<1>4. ASSUME NEW b \in 0..NumBuckets
      PROVE  Cumulative(merged, b) = SumFunction([x \in S |-> Cumulative(h[x], b)])
  <2> DEFINE T == 1..b
             cut == [y \in T |-> SumFunctionOnSet([x \in S |-> h[x][y]], S)]
             rows == [x \in S |-> SumFunctionOnSet(h[x], T)]
  <2>1. IsFiniteSet(T) /\ T \in SUBSET Buckets
    BY BucketFacts
  <2>2. \A x \in S : \A y \in T : h[x][y] \in Nat
    BY <2>1
  <2>3. SumFunctionOnSet(rows, S) = SumFunctionOnSet(cut, T)
    <3> HIDE DEF T
    <3> QED BY <2>1, <2>2, SumsSwap
  <2>4. \A y \in T : merged[y] = cut[y]
    BY <1>1, <2>1
  <2>5. SumFunctionOnSet(merged, T) = SumFunctionOnSet(cut, T)
    <3> HIDE DEF T, merged, cut
    <3> QED BY <2>1, <2>4, SumsAgree
  <2>6. SumFunction([x \in S |-> Cumulative(h[x], b)]) = SumFunctionOnSet(rows, S)
    BY DEF SumFunction, Cumulative
  <2>7. Cumulative(merged, b) = SumFunctionOnSet(merged, T)
    BY DEF Cumulative
  <2> HIDE DEF merged, T, cut, rows
  <2> QED BY <2>3, <2>5, <2>6, <2>7
<1> QED BY <1>3, <1>4

(* What percentile_from_histogram yields is a rank of the samples.         *)
LEMMA PercentileIsRank ==
  ASSUME NEW h \in [Buckets -> Nat], NEW pct \in {50, 90, 99}, Samples(h) > 0
  PROVE  /\ Percentile(h, pct) \in 1..(NumBuckets - 1)
         /\ Cumulative(h, Percentile(h, pct) - 1) * 100 < Samples(h) * pct
         /\ Percentile(h, pct) < NumBuckets - 1 =>
              Cumulative(h, Percentile(h, pct)) * 100 >= Samples(h) * pct
<1> DEFINE R == {b \in Buckets : Reached(h, b, pct)}
           m == Min(R)
           below == [b \in 0..NumBuckets |-> Cumulative(h, b)]
           total == Samples(h)
<1>0. NumBuckets \in Nat /\ NumBuckets >= 2
  BY HistogramAssumption
<1>1. /\ total \in Nat /\ total > 0 /\ below \in [0..NumBuckets -> Nat]
      /\ total = below[NumBuckets]
  BY <1>0, SamplesType
<1>2. /\ total * pct \in Nat /\ total * pct > 0 /\ total * 100 >= total * pct
  <2> HIDE DEF total
  <2>1. pct = 50 \/ pct = 90 \/ pct = 99
    OBVIOUS
  <2> QED BY <1>1, <2>1
<1>3. below[0] = 0
  <2>1. 0 \in 0..NumBuckets /\ 1..0 = {}
    BY <1>0
  <2> QED BY <2>1, SumOverNothing DEF Cumulative
<1>4. \A b \in 1..NumBuckets : b \in R <=> below[b] * 100 >= total * pct
  BY DEF Reached, Buckets
<1>5. NumBuckets \in R
  <2> HIDE DEF R, below, total
  <2> QED BY <1>0, <1>1, <1>2, <1>4
<1>6. R \in SUBSET Nat /\ R \in SUBSET (1..NumBuckets)
  BY DEF Buckets
<1> HIDE DEF R
<1>7. m \in R /\ \A b \in R : m <= b
  BY <1>5, <1>6, MinOfNaturals
<1> HIDE DEF m, below, total
<1>8. m \in 1..NumBuckets /\ below[m] * 100 >= total * pct
  BY <1>4, <1>6, <1>7
<1>9. ASSUME NEW b \in 0..NumBuckets, b < m PROVE below[b] * 100 < total * pct
  <2>1. CASE b = 0
    BY <1>2, <1>3, <2>1
  <2>2. CASE b # 0
    <3>1. b \in 1..NumBuckets /\ b \notin R
      BY <1>0, <1>7, <1>8, <1>9, <2>2
    <3>2. ~(below[b] * 100 >= total * pct) /\ below[b] \in Nat
      BY <1>1, <1>4, <3>1
    <3> QED BY <1>2, <3>2
  <2> QED BY <2>1, <2>2
<1>10. Percentile(h, pct) = IF m = NumBuckets THEN NumBuckets - 1 ELSE m
  BY <1>1 DEF Percentile, BoundOf, R, m, total
<1>11. CASE m = NumBuckets
  <2>1. Percentile(h, pct) = NumBuckets - 1
    BY <1>10, <1>11
  <2>2. NumBuckets - 2 \in 0..NumBuckets /\ NumBuckets - 2 < m
    BY <1>0, <1>11
  <2>3. below[NumBuckets - 2] * 100 < total * pct
    BY <1>9, <2>2
  <2>4. below[NumBuckets - 2] = Cumulative(h, NumBuckets - 2)
    BY <2>2 DEF below
  <2>5. (NumBuckets - 1) - 1 = NumBuckets - 2
    BY <1>0
  <2> QED BY <1>0, <2>1, <2>3, <2>4, <2>5 DEF total
<1>12. CASE m # NumBuckets
  <2>1. Percentile(h, pct) = m /\ m \in 1..(NumBuckets - 1)
    BY <1>0, <1>8, <1>10, <1>12
  <2>2. m - 1 \in 0..NumBuckets /\ m - 1 < m /\ m \in 0..NumBuckets
    BY <1>0, <1>8
  <2>3. below[m - 1] * 100 < total * pct
    BY <1>9, <2>2
  <2>4. below[m - 1] = Cumulative(h, m - 1) /\ below[m] = Cumulative(h, m)
    BY <2>2 DEF below
  <2> QED BY <1>8, <2>1, <2>3, <2>4 DEF total
<1> QED BY <1>11, <1>12

(* The merged histogram of the snapshots with a timestamp.                 *)
MergedAt(t) == MergeHistograms([p \in At(results, t) |-> HistogramOf(p)], At(results, t))

LEMMA PointPercentiles ==
  ASSUME NEW t
  PROVE  /\ Point(results, t).p50 = Percentile(MergedAt(t), 50)
         /\ Point(results, t).p90 = Percentile(MergedAt(t), 90)
         /\ Point(results, t).p99 = Percentile(MergedAt(t), 99)
BY DEF Point, Grouped, MergedAt, HistogramOf

LEMMA MergedFacts ==
  ASSUME TypeOK, NEW t
  PROVE  /\ MergedAt(t) \in [Buckets -> Nat]
         /\ \A b \in 0..NumBuckets :
              SumFunction([q \in Grouped(results, t) |-> Cumulative(HistogramOf(q), b)])
                = Cumulative(MergedAt(t), b)
         /\ Samples(MergedAt(t)) = Total(results, "success", At(results, t))
<1> DEFINE G == At(results, t)
           h == [p \in G |-> HistogramOf(p)]
<1>1. IsFiniteSet(G) /\ \A p \in G : /\ HistogramOf(p) \in [Buckets -> Nat]
                                     /\ SnapshotAt(results, p).success = Samples(HistogramOf(p))
  BY GroupFacts DEF HistogramOf, Reported
<1>2. \A p \in G : h[p] = HistogramOf(p)
  OBVIOUS
<1>3. MergedAt(t) = MergeHistograms(h, G)
  BY DEF MergedAt
<1>4. Grouped(results, t) = G
  BY DEF Grouped
<1> HIDE DEF h, G
<1>5. MergeHistograms(h, G) \in [Buckets -> Nat]
  BY <1>1, <1>2, MergedCumulative
<1>6. \A b \in 0..NumBuckets :
        Cumulative(MergeHistograms(h, G), b) = SumFunction([x \in G |-> Cumulative(h[x], b)])
  BY <1>1, <1>2, MergedCumulative
<1>7. ASSUME NEW b \in 0..NumBuckets
      PROVE  SumFunction([q \in Grouped(results, t) |-> Cumulative(HistogramOf(q), b)])
               = Cumulative(MergedAt(t), b)
  <2>1. [q \in G |-> Cumulative(HistogramOf(q), b)] = [x \in G |-> Cumulative(h[x], b)]
    BY <1>2
  <2> QED BY <1>3, <1>4, <1>6, <2>1
<1>8. Samples(MergedAt(t)) = Total(results, "success", G)
  <2>1. NumBuckets \in 0..NumBuckets
    BY BucketFacts
  <2>2. [p \in G |-> SnapshotAt(results, p).success] = [x \in G |-> Cumulative(h[x], NumBuckets)]
    BY <1>1, <1>2, SamplesType
  <2>3. Total(results, "success", G) = SumFunction([p \in G |-> SnapshotAt(results, p).success])
    BY DEF Total
  <2>4. Samples(MergedAt(t)) = Cumulative(MergedAt(t), NumBuckets)
    BY <1>3, <1>5, SamplesType
  <2> QED BY <1>3, <1>6, <2>1, <2>2, <2>3, <2>4
<1> QED BY <1>3, <1>5, <1>7, <1>8 DEF G

(* The samples up to a bucket, in all snapshots with a timestamp.          *)
BelowAt(t, b) == SumFunction([q \in Grouped(results, t) |-> Cumulative(HistogramOf(q), b)])

IsRankAt(t, bound, pct) ==
  /\ 100 * BelowAt(t, bound - 1) < pct * Point(results, t).success
  /\ bound < NumBuckets - 1 => 100 * BelowAt(t, bound) >= pct * Point(results, t).success

LEMMA PointRank ==
  ASSUME TypeOK, NEW t, NEW pct \in {50, 90, 99}, Point(results, t).success > 0
  PROVE  IsRankAt(t, Percentile(MergedAt(t), pct), pct)
<1> DEFINE h == MergedAt(t)
           bound == Percentile(h, pct)
           total == Samples(h)
<1>0. NumBuckets \in Nat /\ NumBuckets >= 2
  BY HistogramAssumption
<1>1. h \in [Buckets -> Nat] /\ total = Point(results, t).success
  BY MergedFacts, PointFields
<1>2. /\ bound \in 1..(NumBuckets - 1)
      /\ Cumulative(h, bound - 1) * 100 < total * pct
      /\ bound < NumBuckets - 1 => Cumulative(h, bound) * 100 >= total * pct
  <2> HIDE DEF h
  <2> QED BY <1>1, PercentileIsRank
<1> HIDE DEF bound
<1>3. bound - 1 \in 0..NumBuckets /\ bound \in 0..NumBuckets
  BY <1>0, <1>2
<1>4. /\ BelowAt(t, bound - 1) = Cumulative(h, bound - 1)
      /\ BelowAt(t, bound) = Cumulative(h, bound)
  BY <1>3, MergedFacts DEF BelowAt
<1>5. /\ Cumulative(h, bound - 1) \in Nat /\ Cumulative(h, bound) \in Nat
      /\ total \in Nat
  <2> HIDE DEF h
  <2> QED BY <1>1, <1>3, SamplesType
<1> HIDE DEF h, total
<1>6. pct = 50 \/ pct = 90 \/ pct = 99
  OBVIOUS
<1>7. IsRankAt(t, bound, pct)
  BY <1>1, <1>2, <1>4, <1>5, <1>6 DEF IsRankAt
<1> QED BY <1>7 DEF bound, h

LEMMA SeriesArePoints ==
  ASSUME TypeOK, NEW p \in Range(Series)
  PROVE  \E t \in Timestamps(results) : p = Point(results, t) /\ p.timestamp = t
<1> PICK n \in Nat : \E ts \in [1..n -> Timestamps(results)] :
                       Series = [i \in 1..n |-> Point(results, ts[i])]
  BY SeriesFacts
<1>1. PICK ts \in [1..n -> Timestamps(results)] :
        Series = [i \in 1..n |-> Point(results, ts[i])]
  OBVIOUS
<1>2. PICK i \in 1..n : p = Point(results, ts[i])
  BY <1>1 DEF Range
<1> QED BY <1>2, PointFields

(* The percentiles of a point are ranks among the samples of all snapshots *)
(* at its timestamp: that the histograms are merged first does not change  *)
(* what is read from them.                                                 *)
THEOREM RanksAreMerged == Spec => []PercentilesAreRanks
<1>1. TypeOK => PercentilesAreRanks
  <2> SUFFICES ASSUME TypeOK, NEW p \in Range(Series), p.success > 0
               PROVE  /\ IsRankAt(p.timestamp, p.p50, 50)
                      /\ IsRankAt(p.timestamp, p.p90, 90)
                      /\ IsRankAt(p.timestamp, p.p99, 99)
                      /\ Point(results, p.timestamp).success = p.success
    BY DEF PercentilesAreRanks, IsRankAt, BelowAt
  <2>1. PICK t \in Timestamps(results) : p = Point(results, t) /\ p.timestamp = t
    BY SeriesArePoints
  <2>2. /\ IsRankAt(t, Percentile(MergedAt(t), 50), 50)
        /\ IsRankAt(t, Percentile(MergedAt(t), 90), 90)
        /\ IsRankAt(t, Percentile(MergedAt(t), 99), 99)
    BY <2>1, PointRank
  <2> QED BY <2>1, <2>2, PointPercentiles
<1> QED BY <1>1, TypeCorrect, PTL

-----------------------------------------------------------------------------
(* What the console shows.                                                 *)

(* Python's round does not grow when the denominator does.                 *)
LEMMA TenthsFacts ==
  ASSUME NEW a \in Nat, NEW b \in Nat \ {0}
  PROVE  /\ Tenths(a, b) \in Nat
         /\ a = 0 => Tenths(a, b) = 0
         /\ \A c \in Nat \ {0} : b <= c => Tenths(a, c) <= Tenths(a, b)
<1> DEFINE n == 1000 * a
           q == n \div b
           r == n % b
<1>0. n \in Nat
  OBVIOUS
<1> HIDE DEF n
<1>1. q \in Nat /\ r \in Nat /\ n = b * q + r /\ r < b
  BY <1>0, Z3
<1>2. Tenths(a, b) = IF 2 * r < b \/ (2 * r = b /\ q \notin TiesUp) THEN q ELSE q + 1
  BY DEF Tenths, n
<1>3. a = 0 => Tenths(a, b) = 0
  <2> SUFFICES ASSUME a = 0 PROVE Tenths(a, b) = 0
    OBVIOUS
  <2>1. n = 0 /\ 0 \div b = 0 /\ 0 % b = 0
    BY Z3 DEF n
  <2>2. q = 0 /\ r = 0
    BY <2>1
  <2> QED BY <1>2, <2>2
<1>4. ASSUME NEW c \in Nat \ {0}, b <= c PROVE Tenths(a, c) <= Tenths(a, b)
  <2> DEFINE s == n \div c
             u == n % c
  <2>1. s \in Nat /\ u \in Nat /\ n = c * s + u /\ u < c
    BY <1>0, Z3
  <2>2. Tenths(a, c) = IF 2 * u < c \/ (2 * u = c /\ s \notin TiesUp) THEN s ELSE s + 1
    BY DEF Tenths, n
  <2> HIDE DEF q, r, s, u
  <2>3. s <= q
    <3> SUFFICES ASSUME s >= q + 1 PROVE FALSE
      BY <1>1, <2>1
    <3>1. c * s >= b * s
      BY <1>4, <2>1, Z3
    <3>2. b * s >= b * (q + 1) /\ b * (q + 1) = b * q + b /\ b * s \in Nat /\ b * q \in Nat
      BY <1>1, <2>1, Z3
    <3>3. c * s \in Nat
      BY <2>1
    <3> QED BY <1>1, <2>1, <3>1, <3>2, <3>3
  <2>4. CASE s < q
    BY <1>1, <1>2, <2>1, <2>2, <2>4
  <2>5. CASE s = q
    <3>1. b * q <= c * q /\ b * q \in Nat /\ c * q \in Nat
      BY <1>1, <1>4, Z3
    <3>2. u <= r
      BY <1>1, <2>1, <2>5, <3>1
    <3> QED BY <1>1, <1>2, <1>4, <2>1, <2>2, <2>5, <3>2
  <2> QED BY <1>1, <2>1, <2>3, <2>4, <2>5
<1>5. Tenths(a, b) \in Nat
  <2> HIDE DEF q, r
  <2> QED BY <1>1, <1>2
<1> QED BY <1>3, <1>4, <1>5

LEMMA LiveFields ==
  ASSUME NEW t
  PROVE  LET live == LivePoint(results, At(results, t))
             rest == Total(results, "success", At(results, t))
                       + Total(results, "throttle", At(results, t))
                       + Total(results, "error", At(results, t))
         IN  /\ live.timestamp = Max({SnapshotAt(results, p).timestamp : p \in At(results, t)})
             /\ live.rps = Total(results, "rps", At(results, t))
             /\ live.success = Total(results, "success", At(results, t))
             /\ live.throttled = Total(results, "throttle", At(results, t))
             /\ live.errors = Total(results, "error", At(results, t))
             /\ live.clients = Cardinality(At(results, t)) * ClientsPerWorker
             /\ live.demand = Total(results, "success", At(results, t)) * Max({1, EcpuPerRequest})
             /\ live.p50 = LivePercentile(MergedAt(t), 50)
             /\ live.p90 = LivePercentile(MergedAt(t), 90)
             /\ live.p99 = LivePercentile(MergedAt(t), 99)
             /\ live.throttlePct = IF rest = 0 THEN 0
                                   ELSE Tenths(Total(results, "throttle", At(results, t)), rest)
BY DEF LivePoint, MergedAt, HistogramOf

LEMMA PointThrottlePct ==
  ASSUME NEW t
  PROVE  Point(results, t).throttlePct =
           IF Total(results, "success", At(results, t)) + Total(results, "throttle", At(results, t)) = 0
           THEN 0
           ELSE Tenths(Total(results, "throttle", At(results, t)),
                       Total(results, "success", At(results, t)) + Total(results, "throttle", At(results, t)))
BY DEF Point, Grouped

(* The two percentile_from_histogram differ only in the infinite bucket.   *)
LEMMA LiveRank ==
  ASSUME NEW h, NEW pct
  PROVE  \/ LivePercentile(h, pct) = Percentile(h, pct)
         \/ LivePercentile(h, pct) = NumBuckets /\ Percentile(h, pct) = NumBuckets - 1
BY DEF LivePercentile, Percentile, LiveReached, Reached, BoundOf

LEMMA LiveDemand == Max({1, EcpuPerRequest}) = EcpuPerRequest
<1>1. \A y \in {1, EcpuPerRequest} : EcpuPerRequest >= y
  BY AggregatorAssumption
<1>2. \A x \in {1, EcpuPerRequest} :
        (\A y \in {1, EcpuPerRequest} : x >= y) => x = EcpuPerRequest
  BY AggregatorAssumption
<1> QED BY <1>1, <1>2 DEF Max

LEMMA LiveTimestamp ==
  ASSUME TypeOK, NEW t \in Timestamps(results)
  PROVE  Max({SnapshotAt(results, p).timestamp : p \in At(results, t)}) = t
<1>1. {SnapshotAt(results, p).timestamp : p \in At(results, t)} = {t}
  BY DEF Timestamps, At
<1>2. t \in Nat
  BY TimestampsFacts
<1>3. \A y \in {t} : t >= y
  BY <1>2
<1> QED BY <1>1, <1>3 DEF Max

LEMMA ThrottlingIsShare ==
  ASSUME TypeOK, NEW t
  PROVE  /\ Point(results, t).throttlePct \in Nat
         /\ LivePoint(results, At(results, t)).throttlePct <= Point(results, t).throttlePct
<1> DEFINE success  == Total(results, "success", At(results, t))
           throttle == Total(results, "throttle", At(results, t))
           errors   == Total(results, "error", At(results, t))
<1>1. success \in Nat /\ throttle \in Nat /\ errors \in Nat
  BY GroupFacts, TotalType DEF Counters
<1>2. /\ Point(results, t).throttlePct =
           IF success + throttle = 0 THEN 0 ELSE Tenths(throttle, success + throttle)
      /\ LivePoint(results, At(results, t)).throttlePct =
           IF success + throttle + errors = 0 THEN 0
           ELSE Tenths(throttle, success + throttle + errors)
  BY PointThrottlePct, LiveFields
<1> HIDE DEF success, throttle, errors
<1>3. CASE success + throttle = 0
  <2>1. throttle = 0 /\ Point(results, t).throttlePct = 0
    BY <1>1, <1>2, <1>3
  <2>2. CASE errors = 0
    <3>1. success + throttle + errors = 0
      BY <1>1, <1>3, <2>2
    <3> QED BY <1>2, <2>1, <3>1
  <2>3. CASE errors # 0
    <3>1. success + throttle + errors \in Nat \ {0}
      BY <1>1, <2>3
    <3>2. Tenths(throttle, success + throttle + errors) = 0
      BY <2>1, <3>1, TenthsFacts
    <3> QED BY <1>2, <2>1, <3>1, <3>2
  <2> QED BY <2>2, <2>3
<1>4. CASE success + throttle # 0
  <2>1. /\ success + throttle \in Nat \ {0} /\ success + throttle + errors \in Nat \ {0}
        /\ success + throttle <= success + throttle + errors
    BY <1>1, <1>4
  <2>2. /\ Tenths(throttle, success + throttle + errors) <= Tenths(throttle, success + throttle)
        /\ Tenths(throttle, success + throttle) \in Nat
    BY <1>1, <2>1, TenthsFacts
  <2> QED BY <1>2, <2>1, <2>2
<1> QED BY <1>3, <1>4

(* The console and the report agree: over the same window of all workers   *)
(* the live reader computes the same counts and ranks, but for the bound   *)
(* of the infinite bucket, and no greater share of throttling.             *)
THEOREM ConsoleAgrees == Spec => []LiveAgreesWithReport
<1>1. TypeOK => LiveAgreesWithReport
  <2> SUFFICES ASSUME TypeOK, NEW point \in Range(Series)
               PROVE  LET live == LivePoint(results, At(results, point.timestamp))
                          SameRank(l, r) == l = r \/ (l = NumBuckets /\ r = NumBuckets - 1)
                      IN  /\ \A field \in {"timestamp", "rps", "success", "throttled", "errors",
                                           "demand", "clients"} : live[field] = point[field]
                          /\ SameRank(live.p50, point.p50)
                          /\ SameRank(live.p90, point.p90)
                          /\ SameRank(live.p99, point.p99)
                          /\ live.throttlePct <= point.throttlePct
    BY DEF LiveAgreesWithReport
  <2>1. PICK t \in Timestamps(results) : point = Point(results, t) /\ point.timestamp = t
    BY SeriesArePoints
  <2> DEFINE live == LivePoint(results, At(results, t))
  <2>2. /\ live.timestamp = point.timestamp /\ live.rps = point.rps
        /\ live.success = point.success /\ live.throttled = point.throttled
        /\ live.errors = point.errors /\ live.demand = point.demand
        /\ live.clients = point.clients
    <3>1. live.timestamp = point.timestamp
      BY <2>1, LiveFields, LiveTimestamp
    <3>2. /\ live.rps = Total(results, "rps", At(results, t))
          /\ live.success = Total(results, "success", At(results, t))
          /\ live.throttled = Total(results, "throttle", At(results, t))
          /\ live.errors = Total(results, "error", At(results, t))
          /\ live.clients = Cardinality(At(results, t)) * ClientsPerWorker
          /\ live.demand = Total(results, "success", At(results, t)) * EcpuPerRequest
      BY LiveFields, LiveDemand
    <3>3. /\ point.rps = Total(results, "rps", At(results, t))
          /\ point.success = Total(results, "success", At(results, t))
          /\ point.throttled = Total(results, "throttle", At(results, t))
          /\ point.errors = Total(results, "error", At(results, t))
          /\ point.clients = Cardinality(At(results, t)) * ClientsPerWorker
          /\ point.demand = Total(results, "success", At(results, t)) * EcpuPerRequest
      BY <2>1, PointFields
    <3> HIDE DEF live
    <3> QED BY <3>1, <3>2, <3>3
  <2>3. /\ live.p50 = LivePercentile(MergedAt(t), 50) /\ point.p50 = Percentile(MergedAt(t), 50)
        /\ live.p90 = LivePercentile(MergedAt(t), 90) /\ point.p90 = Percentile(MergedAt(t), 90)
        /\ live.p99 = LivePercentile(MergedAt(t), 99) /\ point.p99 = Percentile(MergedAt(t), 99)
    BY <2>1, PointPercentiles, LiveFields
  <2>4. live.throttlePct <= point.throttlePct
    BY <2>1, ThrottlingIsShare
  <2>5. live = LivePoint(results, At(results, point.timestamp))
    BY <2>1
  <2> HIDE DEF live
  <2> QED BY <2>2, <2>3, <2>4, <2>5, LiveRank
<1> QED BY <1>1, TypeCorrect, PTL

-----------------------------------------------------------------------------
(* Events.                                                                 *)

(* Which points of a series detect_events says throttling starts and ends  *)
(* at.                                                                     *)
LEMMA EventsFacts ==
  ASSUME NEW series, NEW i
  PROVE  /\ <<"started", i>> \in DetectEvents(series) <=>
              i \in 2..Len(series) /\ Started(series[i - 1], series[i])
         /\ <<"resolved", i>> \in DetectEvents(series) <=>
              i \in 2..Len(series) /\ Resolved(series[i - 1], series[i])
<1> DEFINE places == 2..Len(series)
           kinds == [j \in places |->
                       {k \in {"started", "resolved", "scaled", "spike"} :
                          CASE k = "started"  -> Started(series[j - 1], series[j])
                            [] k = "resolved" -> Resolved(series[j - 1], series[j])
                            [] k = "scaled"   -> Scaled(series[j - 1], series[j])
                            [] k = "spike"    -> Spiked(series[j - 1], series[j])}]
<1>1. DetectEvents(series) = UNION {kinds[j] \X {j} : j \in places}
  BY DEF DetectEvents
<1>2. \A j \in places : /\ "started" \in kinds[j] <=> Started(series[j - 1], series[j])
                        /\ "resolved" \in kinds[j] <=> Resolved(series[j - 1], series[j])
  OBVIOUS
<1> HIDE DEF kinds, places
<1>3. \A k : <<k, i>> \in DetectEvents(series) <=> i \in places /\ k \in kinds[i]
  BY <1>1
<1> QED BY <1>2, <1>3 DEF places

LEMMA SeriesIsSequence ==
  ASSUME TypeOK
  PROVE  \E n \in Nat : /\ DOMAIN Series = 1..n /\ Len(Series) = n
                        /\ \A i \in 1..n : Series[i].throttlePct \in Nat
<1> PICK n \in Nat : \E ts \in [1..n -> Timestamps(results)] :
                       Series = [i \in 1..n |-> Point(results, ts[i])]
  BY SeriesFacts
<1>1. PICK ts \in [1..n -> Timestamps(results)] :
        Series = [i \in 1..n |-> Point(results, ts[i])]
  OBVIOUS
<1> QED BY <1>1, ThrottlingIsShare

(* A resolution is preceded by the start of the throttling that it ends,   *)
(* and by no other resolution since, or by throttling from the first point *)
(* on: in every series that aggregate_time_series yields.                  *)
THEOREM ResolutionsFollow == Spec => []ResolutionsFollowStarts
<1>1. TypeOK => ResolutionsFollowStarts
  <2> SUFFICES ASSUME TypeOK, NEW r \in DOMAIN Series,
                      <<"resolved", r>> \in DetectEvents(Series),
                      ~ \A i \in 1..(r - 1) : Series[i].throttlePct > 50
               PROVE  \E s \in 1..(r - 1) :
                        /\ <<"started", s>> \in DetectEvents(Series)
                        /\ \A i \in (s + 1)..(r - 1) : <<"resolved", i>> \notin DetectEvents(Series)
    BY DEF ResolutionsFollowStarts
  <2>1. PICK n \in Nat : /\ DOMAIN Series = 1..n /\ Len(Series) = n
                        /\ \A i \in 1..n : Series[i].throttlePct \in Nat
    BY SeriesIsSequence
  <2> DEFINE pct == [i \in 1..n |-> Series[i].throttlePct]
             calm == {i \in 1..(r - 1) : ~(pct[i] > 50)}
  <2>2. /\ DOMAIN Series = 1..n /\ Len(Series) = n
        /\ \A i \in 1..n : pct[i] \in Nat
    BY <2>1
  <2>3. \A i \in 2..n : /\ i \in 1..n /\ i - 1 \in 1..n
                        /\ pct[i] = Series[i].throttlePct /\ pct[i - 1] = Series[i - 1].throttlePct
    OBVIOUS
  <2>4. \A i : /\ <<"started", i>> \in DetectEvents(Series) <=>
                    i \in 2..n /\ pct[i] > 50 /\ pct[i - 1] <= 50
               /\ <<"resolved", i>> \in DetectEvents(Series) <=>
                    i \in 2..n /\ pct[i] <= 10 /\ pct[i - 1] > 50
    BY <2>2, <2>3, EventsFacts DEF Started, Resolved
  <2>5. r \in 2..n /\ pct[r - 1] > 50
    BY <2>4
  <2>6. calm \in SUBSET Nat /\ calm # {} /\ IsFiniteSet(calm)
    <3>1. IsFiniteSet(1..(r - 1)) /\ calm \in SUBSET (1..(r - 1))
      BY <2>5, FS_Interval
    <3>2. PICK i \in 1..(r - 1) : ~(Series[i].throttlePct > 50)
      OBVIOUS
    <3>3. i \in 1..n
      BY <2>5
    <3>4. i \in calm
      BY <3>2, <3>3
    <3> HIDE DEF calm
    <3>5. calm \in SUBSET Nat
      BY <3>1
    <3> QED BY <3>1, <3>4, <3>5, FS_Subset
  <2> DEFINE last == Max(calm)
  <2>7. last \in calm /\ \A i \in calm : last >= i
    <3> HIDE DEF calm
    <3> QED BY <2>6, MaxOfNaturals
  <2>8. \A i \in 1..(r - 1) : i \in calm <=> ~(pct[i] > 50)
    OBVIOUS
  <2>9. calm \in SUBSET (1..(r - 1))
    OBVIOUS
  <2> HIDE DEF calm, last, pct
  <2>10. last \in 1..(r - 1) /\ last # r - 1 /\ last + 1 \in 2..(r - 1)
    BY <2>5, <2>7, <2>8, <2>9
  <2>11. \A i \in (last + 1)..(r - 1) : i \in 2..n /\ i \in 1..n /\ pct[i] > 50
    BY <2>5, <2>7, <2>8, <2>10
  <2>12. <<"started", last + 1>> \in DetectEvents(Series)
    <3>1. pct[last + 1] > 50
      BY <2>10, <2>11
    <3>2. (last + 1) - 1 = last /\ last \in 1..n /\ last + 1 \in 2..n
      BY <2>5, <2>10
    <3>3. pct[last] <= 50
      BY <2>2, <2>7, <2>8, <2>10, <3>2
    <3> QED BY <2>4, <3>1, <3>2, <3>3
  <2>13. \A i \in (last + 1 + 1)..(r - 1) : <<"resolved", i>> \notin DetectEvents(Series)
    <3> TAKE i \in (last + 1 + 1)..(r - 1)
    <3>1. i \in (last + 1)..(r - 1)
      BY <2>10
    <3>2. pct[i] > 50 /\ pct[i] \in Nat
      BY <2>2, <2>11, <3>1
    <3>3. <<"resolved", i>> \in DetectEvents(Series) => pct[i] <= 10
      BY <2>4
    <3> QED BY <3>2, <3>3
  <2>14. last + 1 \in 1..(r - 1)
    BY <2>10
  <2> QED BY <2>12, <2>13, <2>14
<1> QED BY <1>1, TypeCorrect, PTL
=============================================================================
