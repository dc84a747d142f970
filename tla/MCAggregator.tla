--------------------------- MODULE MCAggregator ---------------------------
(***************************************************************************)
(* The series over which TLC evaluates the aggregator.                     *)
(***************************************************************************)
EXTENDS ReportedSeries

CONSTANTS W1, W2

(* One long series and one short one, which it overtakes.                  *)
SeriesBounds == (W1 :> 3) @@ (W2 :> 1)

(* Few samples in few buckets, with errors, and with throttling of 0, 3,   *)
(* 40, 50 and 100 per cent.                                                *)
SmallWindows == {[histogram |-> <<0, 0, 0>>, throttle |-> 1, error |-> 1],
                 [histogram |-> <<1, 0, 0>>, throttle |-> 1, error |-> 0],
                 [histogram |-> <<0, 1, 1>>, throttle |-> 0, error |-> 0],
                 [histogram |-> <<2, 0, 1>>, throttle |-> 2, error |-> 1],
                 [histogram |-> <<0, 97, 0>>, throttle |-> 3, error |-> 0]}

(* The buckets stand for those that end at 3 ms, 10 ms and nowhere.        *)
SmallBounds == <<3, 10>>
=============================================================================
