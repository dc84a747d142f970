----------------------------- MODULE MCSeeding -----------------------------
(***************************************************************************)
(* The instance of Seeding that TLC checks: seven keys in batches of five, *)
(* so the last batch is a short one and three keys of a batch go through   *)
(* the same of two clients, whose limit is that of the semaphore, or below *)
(* it, so that seeds are refused.                                          *)
(***************************************************************************)
EXTENDS Seeding
=============================================================================
