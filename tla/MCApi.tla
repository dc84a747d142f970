------------------------------- MODULE MCApi -------------------------------
(***************************************************************************)
(* The instance of Api that TLC checks: one scenario in two configurations *)
(* or, for the listing, in one configuration and with room for one key.    *)
(***************************************************************************)
EXTENDS Api
=============================================================================
