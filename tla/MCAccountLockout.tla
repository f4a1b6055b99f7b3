------------------------- MODULE MCAccountLockout --------------------------
(* A small instance of AccountLockout for TLC.                              *)
EXTENDS AccountLockout, TLC

MCSymmetry == Permutations(Requests)
=============================================================================
