-------------------------- MODULE MCClientSession --------------------------
(* A small instance of ClientSession for TLC.                              *)
EXTENDS ClientSession, TLC

ASSUME ClientAssumption

MCSymmetry == Permutations(Tokens) \cup Permutations(Tabs)
=============================================================================
