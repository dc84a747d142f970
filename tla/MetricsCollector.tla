------------------------- MODULE MetricsCollector -------------------------
(***************************************************************************)
(* The per-worker metrics collector of the load generator                  *)
(* (lambda/load-generator/metrics_collector.py).                           *)
(*                                                                         *)
(* Every operation that completes adds one to exactly one counter of the   *)
(* current window.  maybe_flush closes a window that has lasted at least   *)
(* report_interval_s: it appends a snapshot to the time series and starts  *)
(* an empty window.  flush_final closes the last, partial window of a run, *)
(* or discards it.                                                         *)
(*                                                                         *)
(* Time is the monotonic clock in units of one load-loop tick; SecondUnits *)
(* units make a second.  Byte counters are left out: no property tells two *)
(* payload sizes apart.                                                    *)
(***************************************************************************)
EXTENDS Integers, Sequences, FiniteSets, Functions, SequencesExt

CONSTANTS
  Buckets,         \* the indices of LATENCY_BUCKETS_MS
  SecondUnits,     \* clock units in a second
  ReportInterval,  \* report_interval_s, in clock units
  MinFinalWindow   \* 0.1 s in clock units: shorter final windows are dropped

ASSUME CollectorAssumption ==
  /\ Buckets # {} /\ IsFiniteSet(Buckets)
  /\ SecondUnits \in Nat \ {0}
  /\ ReportInterval \in Nat \ {0}
  /\ ReportInterval % SecondUnits = 0
  /\ MinFinalWindow \in Nat \ {0}

VARIABLES
  now,         \* time.monotonic()
  current,     \* _current: the counters of the open window
  windowStart, \* _window_start
  elapsed,     \* _elapsed_s, in clock units
  timeSeries,  \* time_series
  reported     \* history: the counters summed over the time series

collectorVars == <<current, windowStart, elapsed, timeSeries, reported>>

-----------------------------------------------------------------------------
(* Counters: what a window, a snapshot and the summary have in common.     *)

Counters == [success : Nat, throttle : Nat, error : Nat]
NoCounts == [success |-> 0, throttle |-> 0, error |-> 0]

PlusCounts(a, b) == [success  |-> a.success + b.success,
                     throttle |-> a.throttle + b.throttle,
                     error    |-> a.error + b.error]

CountsOf(w) == [success  |-> w.success,
                throttle |-> w.throttle,
                error    |-> w.error]

WindowMetrics == [histogram : [Buckets -> Nat],
                  success : Nat, throttle : Nat, error : Nat]

EmptyWindow == [histogram |-> [b \in Buckets |-> 0],
                success |-> 0, throttle |-> 0, error |-> 0]

Snapshots == [timestamp : Nat, rps : Nat, histogram : [Buckets -> Nat],
              success : Nat, throttle : Nat, error : Nat]

(* Python's round(a / b): to the nearest integer, ties to the even one.    *)
RoundDiv(a, b) ==
  LET q == a \div b
      r == 2 * (a % b)
  IN  IF r < b \/ (r = b /\ q % 2 = 0) THEN q ELSE q + 1

(* The dict that both flushes append: a window of w that lasted `length`   *)
(* units and ends `end` units into the run, as the collector counts them.  *)
Snapshot(w, end, length) ==
  [timestamp |-> RoundDiv(end, SecondUnits),
   rps       |-> RoundDiv(w.success * SecondUnits, length),
   histogram |-> w.histogram,
   success   |-> w.success,
   throttle  |-> w.throttle,
   error     |-> w.error]

-----------------------------------------------------------------------------
InitCollector ==
  /\ current = EmptyWindow
  /\ windowStart = 0
  /\ elapsed = 0
  /\ timeSeries = <<>>
  /\ reported = NoCounts

(* Mutant: the search goes on after the first bucket that fits.            *)
RecordSuccessTwice(b) ==
  /\ current' = [current EXCEPT !.success = @ + 1,
                  !.histogram = [x \in Buckets |-> @[x] + 1]]
  /\ UNCHANGED <<windowStart, elapsed, timeSeries, reported>>

RecordSuccess(b) ==
  /\ current' = [current EXCEPT !.success = @ + 1, !.histogram[b] = @ + 1]
  /\ UNCHANGED <<windowStart, elapsed, timeSeries, reported>>

RecordThrottle ==
  /\ current' = [current EXCEPT !.throttle = @ + 1]
  /\ UNCHANGED <<windowStart, elapsed, timeSeries, reported>>

RecordError ==
  /\ current' = [current EXCEPT !.error = @ + 1]
  /\ UNCHANGED <<windowStart, elapsed, timeSeries, reported>>

AppendSnapshot(end, length) ==
  /\ elapsed' = end
  /\ timeSeries' = Append(timeSeries, Snapshot(current, end, length))
  /\ reported' = PlusCounts(reported, CountsOf(current))

(* maybe_flush: the timestamp advances by the nominal interval, however    *)
(* long the window really lasted.                                          *)
FlushDue == now - windowStart >= ReportInterval

(* Mutant: the counters are not reset.                                     *)
ResetStartOnly == windowStart' = now /\ UNCHANGED current

ResetWindow == current' = EmptyWindow /\ windowStart' = now

FlushWindow ==
  /\ FlushDue
  /\ AppendSnapshot(elapsed + ReportInterval, ReportInterval)
  /\ ResetWindow

(* flush_final: a window with neither success nor throttle, or shorter     *)
(* than a tenth of a second, is dropped; the window is not reset.          *)
FinalWindowKept ==
  /\ current.success # 0 \/ current.throttle # 0
  /\ now - windowStart >= MinFinalWindow

(* Mutant: the window's length is not added to the elapsed time.           *)
FinalTimeFromZero == now - windowStart

FinalTime == elapsed + (now - windowStart)

FlushFinal ==
  /\ IF FinalWindowKept
       THEN AppendSnapshot(FinalTime, now - windowStart)
       ELSE UNCHANGED <<elapsed, timeSeries, reported>>
  /\ UNCHANGED <<current, windowStart>>

(* build_summary: the totals of the report.                                *)
BuildSummary ==
  LET total(field(_)) ==
        SumFunction([i \in DOMAIN timeSeries |-> field(timeSeries[i])])
  IN  [success  |-> total(LAMBDA s : s.success),
       throttle |-> total(LAMBDA s : s.throttle),
       error    |-> total(LAMBDA s : s.error)]

CollectorTypeOK ==
  /\ now \in Nat
  /\ current \in WindowMetrics
  /\ windowStart \in Nat /\ windowStart <= now
  /\ elapsed \in Nat
  /\ timeSeries \in Seq(Snapshots)
  /\ reported \in Counters
=============================================================================
