---------------------------- MODULE MCDashboard ----------------------------
(***************************************************************************)
(* The instance of Dashboard that TLC checks: the status requests of a     *)
(* patient user's test may overlap.                                        *)
(***************************************************************************)
EXTENDS Dashboard

InFlightBound == [p \in BOOLEAN |-> IF p THEN 2 ELSE 1]
=============================================================================
