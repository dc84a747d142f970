-------------------------- MODULE MCStateMachine --------------------------
(***************************************************************************)
(* The instance of StateMachine that TLC checks.  The .cfg files choose    *)
(* how many tests and workers there are and whether Lambdas fail.          *)
(***************************************************************************)
EXTENDS StateMachine
=============================================================================
