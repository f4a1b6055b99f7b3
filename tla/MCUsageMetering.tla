-------------------------- MODULE MCUsageMetering --------------------------
(* A small instance of UsageMetering: two requests in flight and three      *)
(* plans whose allowances are 0, 1 and 2 instead of 0, 60 and 200.          *)
EXTENDS UsageMetering

MCPlans == {"free", "standard", "unlimited"}
MCAllowance == [free |-> 0, standard |-> 1, unlimited |-> 2]

Row(plan, entitled, start, end) ==
    [plan |-> plan, entitled |-> entitled,
     win |-> [start |-> start, end |-> end]]

\* An upgrade that cuts the period short (the end of a trial), and back.  Until
\* the first row is reported, and before its period starts, the calendar month
\* is used: a request meets a period that is renewed, moved or shortened, and,
\* when it is the month 1 .. 2 itself, a plan change within the period.
MCMoves == {Row("standard", TRUE, 1, 3), Row("unlimited", TRUE, 1, 2)}
=============================================================================
