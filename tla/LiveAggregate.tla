--------------------------- MODULE LiveAggregate ---------------------------
(***************************************************************************)
(* What the live reader (lambda/live/handler.py) makes of the snapshots it *)
(* has read, the last one of every worker that reports.  It merges and     *)
(* reads histograms as the aggregator does, but does not replace the bound *)
(* of the infinite bucket, and counts errors among the attempts.           *)
(***************************************************************************)
EXTENDS Aggregator

(* Mutant: the walk stops one bucket too late.                             *)
LiveReachedStrictly(hist, b, pct) == Cumulative(hist, b) * 100 > Samples(hist) * pct

LiveReached(hist, b, pct) == Cumulative(hist, b) * 100 >= Samples(hist) * pct

(* percentile_from_histogram of the live reader.                           *)
LivePercentile(hist, pct) ==
  IF Samples(hist) = 0 THEN 0
  ELSE Min({b \in Buckets : LiveReached(hist, b, pct)})

(* The aggregate of the snapshots at the places in group.                  *)
LivePoint(results, group) ==
  LET histogram == MergeHistograms([p \in group |-> SnapshotAt(results, p).histogram], group)
      success   == Total(results, "success", group)
      throttle  == Total(results, "throttle", group)
      attempts  == success + throttle + Total(results, "error", group)
  IN  [timestamp   |-> Max({SnapshotAt(results, p).timestamp : p \in group}),
       rps         |-> Total(results, "rps", group),
       success     |-> success,
       throttled   |-> throttle,
       errors      |-> Total(results, "error", group),
       p50         |-> LivePercentile(histogram, 50),
       p90         |-> LivePercentile(histogram, 90),
       p99         |-> LivePercentile(histogram, 99),
       demand      |-> success * Max({1, EcpuPerRequest}),
       throttlePct |-> IF attempts = 0 THEN 0 ELSE Tenths(throttle, attempts),
       clients     |-> Cardinality(group) * ClientsPerWorker]
=============================================================================
