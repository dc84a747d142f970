--------------------------- MODULE ReportedSeries ---------------------------
(***************************************************************************)
(* The inputs of the aggregator, and what it makes of them: every worker's *)
(* time series grows by windows, and ends with a final, shorter one that   *)
(* may carry the same timestamp as the window before it, as flush_final    *)
(* does.                                                                   *)
(***************************************************************************)
EXTENDS LiveAggregate

CONSTANTS
  Windows,    \* the contents a window may have
  MaxWindows  \* bound: the length of each worker's series

ASSUME SeriesAssumption ==
  /\ Windows \subseteq [histogram : [Buckets -> Nat], throttle : Nat, error : Nat]
  /\ MaxWindows \in [Workers -> Nat]

VARIABLES
  results,
  closed \* the workers that have flushed their final window

vars == <<results, closed>>

LastTimestamp(w) == IF results[w] = <<>> THEN 0 ELSE Last(results[w]).timestamp

Flush(w, ts, x) ==
  LET success == Samples(x.histogram) IN
  results' = [results EXCEPT ![w] = Append(@,
               [timestamp |-> ts, rps |-> success, histogram |-> x.histogram,
                success |-> success, throttle |-> x.throttle, error |-> x.error])]

Init ==
  /\ results = [w \in Workers |-> <<>>]
  /\ closed = {}

FullWindow(w) ==
  /\ w \notin closed
  /\ Len(results[w]) < MaxWindows[w]
  /\ \E x \in Windows : Flush(w, LastTimestamp(w) + 1, x)
  /\ UNCHANGED closed

FinalWindow(w) ==
  /\ w \notin closed
  /\ Len(results[w]) < MaxWindows[w]
  /\ \E x \in Windows, late \in {0, 1} : Flush(w, LastTimestamp(w) + late, x)
  /\ closed' = closed \cup {w}

Next == \E w \in Workers : FullWindow(w) \/ FinalWindow(w)

Spec == Init /\ [][Next]_vars

-----------------------------------------------------------------------------
Series == AggregateTimeSeries(results)
HistogramOf(p) == SnapshotAt(results, p).histogram

(* What the workers counted is in the series once: its points add up to    *)
(* the totals of the summary, which come from the workers' own summaries.  *)
SummaryAgreesWithSeries ==
  LET series  == Series
      summary == BuildSummary(results)
      Points(counter) == SumFunction([i \in DOMAIN series |-> series[i][counter]])
  IN  series # <<>> =>
        /\ summary.requests = Points("success")
        /\ summary.throttled = Points("throttled")
        /\ summary.errors = Points("errors")

(* Fewer than half of the samples lie below the bucket of p50, and at      *)
(* least half in it or below; the same for p90 and p99.  The one exception *)
(* is a rank in the infinite bucket: its last finite bound is reported,    *)
(* which may be less than the samples, and only the first half holds.      *)
PercentilesAreRanks ==
  \A p \in Range(Series) :
    LET below(b) == SumFunction([q \in Grouped(results, p.timestamp) |->
                                   Cumulative(HistogramOf(q), b)])
        IsRank(bound, pct) ==
          /\ 100 * below(bound - 1) < pct * p.success
          /\ bound < NumBuckets - 1 => 100 * below(bound) >= pct * p.success
    IN  p.success > 0 => IsRank(p.p50, 50) /\ IsRank(p.p90, 90) /\ IsRank(p.p99, 99)

(* What the console shows of a window is what the report says of it later, *)
(* when the live reader reads the same window of every worker: the same    *)
(* counts and percentiles, where the report's are not those of the         *)
(* infinite bucket, and a share of throttling that is no greater.          *)
LiveAgreesWithReport ==
  \A point \in Range(Series) :
    LET live == LivePoint(results, At(results, point.timestamp))
        SameRank(l, r) == l = r \/ (l = NumBuckets /\ r = NumBuckets - 1)
    IN  /\ \A field \in {"timestamp", "rps", "success", "throttled", "errors", "demand", "clients"} :
             live[field] = point[field]
        /\ SameRank(live.p50, point.p50)
        /\ SameRank(live.p90, point.p90)
        /\ SameRank(live.p99, point.p99)
        /\ live.throttlePct <= point.throttlePct

(* Throttling is reported as resolved only after it has been reported as   *)
(* started, and once for each start, unless the series begins throttled.   *)
ResolutionsFollowStarts ==
  LET series == Series
      events == DetectEvents(series)
      Throttled(i) == series[i].throttlePct > 50
  IN  \A r \in DOMAIN series : <<"resolved", r>> \in events =>
        \/ \E s \in 1..(r - 1) :
             /\ <<"started", s>> \in events
             /\ \A i \in (s + 1)..(r - 1) : <<"resolved", i>> \notin events
        \/ \A i \in 1..(r - 1) : Throttled(i)
=============================================================================
