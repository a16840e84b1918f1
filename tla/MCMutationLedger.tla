-------------------------- MODULE MCMutationLedger --------------------------
(* Instances of MutationLedger for TLC. *)
EXTENDS MutationLedger

CONSTANTS k1, k2, once, again

MCClock == 0..1
=============================================================================
