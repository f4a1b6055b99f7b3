------------------------- MODULE MCSubscriptionSync -------------------------
(* A small instance of SubscriptionSync for TLC.                             *)
EXTENDS SubscriptionSync, TLC

MCSymmetry == Permutations(Workers)

\* The paid plans are interchangeable: a subscriber has the one, and may change
\* to the other.  A checkout starts no grace period, which is all that the clock
\* decides: it runs for the subscriber.
MCInit ==
    /\ Init
    /\ stripe.plan \in {FreePlan, "standard"}
    /\ now = IF stripe = Absent THEN MaxTime ELSE 0

MCSpec == MCInit /\ [][Next]_vars
MCFairSpec == MCSpec /\ Fairness
=============================================================================
