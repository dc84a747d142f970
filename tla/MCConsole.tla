----------------------------- MODULE MCConsole -----------------------------
(***************************************************************************)
(* The instance of Console that TLC checks: two executions, of which the   *)
(* second may come up while the first is tracked.                          *)
(***************************************************************************)
EXTENDS Console
=============================================================================
