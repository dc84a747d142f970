---------------------------- MODULE Aggregator ----------------------------
(***************************************************************************)
(* The aggregator (lambda/aggregator/handler.py): from the time series of  *)
(* all workers to one series, its events and its summary.                  *)
(*                                                                         *)
(* results gives each worker its series; the summary of a worker adds up   *)
(* its series, as MetricsCollector shows.  Percentages are in tenths, the  *)
(* rounding of the code.  Byte counts and what depends on them (memory,    *)
(* storage cost) and the factor of the ECPU price are left out.            *)
(***************************************************************************)
EXTENDS HistogramMerge, Sequences, SequencesExt

CONSTANTS
  Workers,
  EcpuPerRequest,  \* ceil(payload_size_bytes / 1024)
  ClientsPerWorker,
  TiesUp,          \* the ties that Python rounds up
  BoundMs          \* the finite bounds of LATENCY_BUCKETS_MS, rounded up

(* A test has workers, and payloads that are not empty, in every scenario  *)
(* and in what the page offers.                                            *)
ASSUME AggregatorAssumption ==
  /\ IsFiniteSet(Workers) /\ Workers # {}
  /\ EcpuPerRequest \in Nat \ {0}
  /\ ClientsPerWorker \in Nat
  /\ BoundMs \in [1..(NumBuckets - 1) -> Nat]

(* The snapshots of all workers: the worker and the place in its series.   *)
Places(results) == {p \in Workers \X (1..Max({Len(results[w]) : w \in Workers})) :
                      p[2] <= Len(results[p[1]])}
SnapshotAt(results, p) == results[p[1]][p[2]]

(* by_timestamp.                                                           *)
Timestamps(results) == {SnapshotAt(results, p).timestamp : p \in Places(results)}
At(results, ts) == {p \in Places(results) : SnapshotAt(results, p).timestamp = ts}

(* The snapshots that are summed at a timestamp.                           *)
Grouped(results, ts) == At(results, ts)

(* round(a / b * 100, 1), in tenths.  Python rounds the nearest double to  *)
(* a / b * 100, which at a tie lies above or below it: which of the two    *)
(* depends on the tie alone.                                               *)
Tenths(a, b) ==
  LET q == (1000 * a) \div b
      r == 2 * ((1000 * a) % b)
  IN  IF r < b \/ (r = b /\ q \notin TiesUp) THEN q ELSE q + 1

(* estimate_capacity.                                                      *)
EstimateCapacity(demand, throttle, success) ==
  IF success + throttle = 0 THEN 30000
  ELSE IF throttle = 0 THEN (demand * 13) \div 10
  ELSE (demand * success) \div (success + throttle)

(* The sum of a counter over the snapshots at the places in S.             *)
Total(results, counter, S) == SumFunction([p \in S |-> SnapshotAt(results, p)[counter]])

(* One entry of aggregate_time_series.                                     *)
Point(results, ts) ==
  LET group       == Grouped(results, ts)
      histogram   == MergeHistograms([p \in group |-> SnapshotAt(results, p).histogram], group)
      success     == Total(results, "success", group)
      throttle    == Total(results, "throttle", group)
      demand      == success * EcpuPerRequest
  IN  [timestamp   |-> ts,
       rps         |-> Total(results, "rps", group),
       success     |-> success,
       throttled   |-> throttle,
       errors      |-> Total(results, "error", group),
       p50         |-> Percentile(histogram, 50),
       p90         |-> Percentile(histogram, 90),
       p99         |-> Percentile(histogram, 99),
       demand      |-> demand,
       capacity    |-> EstimateCapacity(demand, throttle, success),
       throttlePct |-> IF success + throttle = 0 THEN 0 ELSE Tenths(throttle, success + throttle),
       clients     |-> Cardinality(group) * ClientsPerWorker]

(* sorted, of a set of numbers.                                            *)
Ascending(S) ==
  CHOOSE s \in [1..Cardinality(S) -> S] :
    \A i, j \in 1..Cardinality(S) : i < j => s[i] < s[j]

(* aggregate_time_series.                                                  *)
AggregateTimeSeries(results) ==
  LET ts == Ascending(Timestamps(results))
  IN  [i \in DOMAIN ts |-> Point(results, ts[i])]

(* detect_events: the kinds of event between two points.                   *)
Started(prev, curr)  == curr.throttlePct > 50 /\ prev.throttlePct <= 50

(* Mutant: any fall to one per cent counts, whatever it falls from.        *)
ResolvedFromAnything(prev, curr) == curr.throttlePct <= 10 /\ prev.throttlePct > 10

Resolved(prev, curr) == curr.throttlePct <= 10 /\ prev.throttlePct > 50
Scaled(prev, curr)   == curr.capacity * 100 > prev.capacity * 115

MsOf(bound) == IF bound = 0 THEN 0 ELSE BoundMs[bound]
Spiked(prev, curr) == MsOf(curr.p99) > 3 * MsOf(prev.p99) /\ MsOf(curr.p99) > 5

DetectEvents(series) ==
  LET Kinds(prev, curr) == {k \in {"started", "resolved", "scaled", "spike"} :
                              CASE k = "started"  -> Started(prev, curr)
                                [] k = "resolved" -> Resolved(prev, curr)
                                [] k = "scaled"   -> Scaled(prev, curr)
                                [] k = "spike"    -> Spiked(prev, curr)}
  IN  UNION {Kinds(series[i - 1], series[i]) \X {i} : i \in 2..Len(series)}

(* Mutant: the summary adds up only the first snapshot of each worker.     *)
SummedSome(results) == {p \in Places(results) : p[2] = 1}

(* The snapshots that the workers' summaries add up.                       *)
Summed(results) == Places(results)

(* build_summary, from the workers' summaries and a series that is not     *)
(* empty.                                                                  *)
BuildSummary(results) ==
  LET series     == AggregateTimeSeries(results)
      Peak(F(_)) == Max({F(series[i]) : i \in DOMAIN series})
  IN  [requests   |-> Total(results, "success", Summed(results)),
       throttled  |-> Total(results, "throttle", Summed(results)),
       errors     |-> Total(results, "error", Summed(results)),
       peakRps    |-> Peak(LAMBDA p : p.rps),
       peakP99    |-> Peak(LAMBDA p : p.p99),
       peakThrottlePct |-> Peak(LAMBDA p : p.throttlePct),
       finalCapacity   |-> Last(series).capacity,
       duration   |-> Last(series).timestamp]
=============================================================================
