------------------------- MODULE MCAccountLifecycle -------------------------
(* A small instance of AccountLifecycle for TLC.                             *)
EXTENDS AccountLifecycle, TLC

MCSymmetry == Permutations(Requests) \cup Permutations(Addresses)
                 \cup Permutations(Phones)
=============================================================================
