-------------------------- MODULE MCLiveProgress --------------------------
(***************************************************************************)
(* The instance of LiveProgress that TLC checks: two workers, one more key *)
(* than workers when the metadata is missing, two snapshots of the first   *)
(* worker and one of the other, and one write that fails.                  *)
(***************************************************************************)
EXTENDS LiveProgress, TLC

TwoWindowsAndOne == (0 :> 2) @@ (1 :> 1)
=============================================================================
