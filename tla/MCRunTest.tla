----------------------------- MODULE MCRunTest -----------------------------
(***************************************************************************)
(* The instance of RunTest that TLC checks: one test of three workers with *)
(* two places in its Map state, and one retry of each Lambda.              *)
(***************************************************************************)
EXTENDS RunTest
=============================================================================
