---------------------------- MODULE MCSmsConsent ----------------------------
(* A small instance of SmsConsent for TLC.                                   *)
EXTENDS SmsConsent, TLC

MCSymmetry == Permutations(Requests) \cup Permutations(OptTypes)
=============================================================================
