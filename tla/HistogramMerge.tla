-------------------------- MODULE HistogramMerge --------------------------
(***************************************************************************)
(* Merging latency histograms and reading percentiles from the merged one  *)
(* (lambda/aggregator/histogram_merge.py).  A bucket is its index: the     *)
(* bounds in ms grow with it, and the last one is infinite.                *)
(***************************************************************************)
EXTENDS Integers, FiniteSetsExt, Functions

CONSTANT NumBuckets

ASSUME HistogramAssumption == NumBuckets \in Nat /\ NumBuckets >= 2

Buckets == 1..NumBuckets

(* merge_histograms: h[x] for every x in S, summed bucket by bucket.       *)
MergeHistograms(h, S) == [b \in Buckets |-> SumFunction([x \in S |-> h[x][b]])]

Samples(hist) == SumFunction(hist)

Cumulative(hist, b) == SumFunctionOnSet(hist, 1..b)

(* The bound reported for a bucket; for the infinite one, the one before.  *)
BoundOf(b) == IF b = NumBuckets THEN NumBuckets - 1 ELSE b

(* Mutant: the walk stops one bucket too late.                             *)
ReachedStrictly(hist, b, pct) == Cumulative(hist, b) * 100 > Samples(hist) * pct

Reached(hist, b, pct) == Cumulative(hist, b) * 100 >= Samples(hist) * pct

(* percentile_from_histogram: the bound of the first bucket that reaches   *)
(* pct per cent of the samples, or 0 without samples.                      *)
Percentile(hist, pct) ==
  IF Samples(hist) = 0 THEN 0
  ELSE BoundOf(Min({b \in Buckets : Reached(hist, b, pct)}))
=============================================================================
