------------------------- MODULE MCSessionLifecycle -------------------------
(* A small instance of SessionLifecycle for TLC.                             *)
EXTENDS SessionLifecycle, TLC

MCSymmetry == Permutations(Requests) \cup Permutations(Tokens)
=============================================================================
