---------------------------- MODULE QuotaLedger ----------------------------
(***************************************************************************)
(* What SMS metering promises a subscriber, without requests, sessions or  *)
(* rows: each billing period has a limit, which plan changes move up and   *)
(* down, and replies are granted one at a time, only while the number      *)
(* granted in the period is below the limit in force at that instant.      *)
(* Grants are never taken back.  UsageMetering implements this.            *)
(***************************************************************************)
EXTENDS Naturals

CONSTANTS Periods, Limits

VARIABLES limit, granted

Init ==
    /\ limit \in [Periods -> Limits]
    /\ granted = [p \in Periods |-> 0]

Grant(p) ==
    /\ granted[p] < limit[p]
    /\ granted' = [granted EXCEPT ![p] = @ + 1]
    /\ UNCHANGED limit

SetLimit(p) ==
    /\ \E n \in Limits : limit' = [limit EXCEPT ![p] = n]
    /\ UNCHANGED granted

Next == \E p \in Periods : Grant(p) \/ SetLimit(p)

Spec == Init /\ [][Next]_<<limit, granted>>
=============================================================================
