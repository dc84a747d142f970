------------------------ MODULE MCTrafficGenerator ------------------------
(***************************************************************************)
(* The instance of TrafficGenerator that TLC checks: a second is three     *)
(* clock units, so half a second and the rounding of timestamps to whole   *)
(* seconds occur; two clients take turns, either can be full, and live     *)
(* progress is reported through the first of them.                         *)
(***************************************************************************)
EXTENDS TrafficGenerator
=============================================================================
