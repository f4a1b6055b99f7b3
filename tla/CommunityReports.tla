-------------------------- MODULE CommunityReports --------------------------
(***************************************************************************)
(* Police reports of subscribers and the votes on them                     *)
(* (backend/app/sms/handlers/community.py).  A vote is read, checked and   *)
(* committed by one of the workers without a lock: between its SELECT and  *)
(* its commit other workers commit theirs.  The vote row and the changed   *)
(* columns of the report go out in one transaction, so a second row of the *)
(* same phone undoes both.                                                 *)
(*                                                                         *)
(* A report whose location is missing is refused and changes nothing, and  *)
(* so does a sender without a subscription; neither is modelled.           *)
(***************************************************************************)
EXTENDS Naturals, FiniteSets

CONSTANTS
    Workers,    \* messages being handled at once
    Reports,    \* report ids
    Voters,     \* phones that vote
    Life,       \* how long a report lives without votes (35 minutes)
    Extra,      \* how long a confirmation keeps it (20 minutes)
    Confirm,    \* confirmations that make a report likely present (2)
    Clear,      \* votes that make it likely cleared (3)
    MaxTime     \* bound on the clock

ReportAssumption ==
    /\ Life \in Nat /\ Extra \in Nat /\ MaxTime \in Nat
    /\ Confirm \in Nat \ {0} /\ Clear \in Nat \ {0}
    /\ IsFiniteSet(Voters)

VARIABLES
    now,        \* the clock
    reports,    \* the table of reports, Absent where there is none
    votes,      \* the table of votes: report, phone and answer
    msg         \* the vote each worker has read but not committed

vars == <<now, reports, votes, msg>>

Answers == {"still", "cleared", "unsure"}
Absent == [status |-> "absent", still |-> 0, cleared |-> 0, unsure |-> 0,
           at |-> 0, expires |-> 0]
Idle == [busy |-> FALSE]

Init ==
    /\ now = 0
    /\ reports = [r \in Reports |-> Absent]
    /\ votes = {}
    /\ msg = [w \in Workers |-> Idle]

Tick ==
    /\ now < MaxTime
    /\ now' = now + 1
    /\ UNCHANGED <<reports, votes, msg>>

\* handle_police_report.
PoliceReport(r) ==
    /\ reports[r] = Absent
    /\ reports' = [reports EXCEPT ![r] =
                     [Absent EXCEPT !.status = "recently_reported",
                                    !.at = now, !.expires = now + Life]]
    /\ UNCHANGED <<now, votes, msg>>

\* The reports that CommunityProvider shows and that can be voted on.
Active(r) == reports[r] # Absent /\ reports[r].expires > now

\* handle_police_vote up to the commit: the row, and that this phone has not
\* voted on it.
ReadReport(w, r, v, answer) ==
    /\ ~msg[w].busy
    /\ Active(r)
    /\ \A a \in Answers : <<r, v, a>> \notin votes
    /\ msg' = [msg EXCEPT ![w] = [busy |-> TRUE, report |-> r, voter |-> v,
                                  answer |-> answer, copy |-> reports[r],
                                  at |-> now]]
    /\ UNCHANGED <<now, reports, votes>>

\* The loaded report with one vote more.
Counted(copy, answer) ==
    [copy EXCEPT !.still = IF answer = "still" THEN @ + 1 ELSE @,
                 !.cleared = IF answer = "cleared" THEN @ + 1 ELSE @,
                 !.unsure = IF answer = "unsure" THEN @ + 1 ELSE @]

Later(a, b) == IF a < b THEN b ELSE a

\* Variant that breaks StatusIsBacked: any vote on a report that two phones
\* answered confirms it.
Judged_AnyAnswer(c, t) ==
    IF c.cleared >= Clear /\ c.cleared > c.still
    THEN [c EXCEPT !.status = "likely_cleared"]
    ELSE IF c.still + c.unsure >= Confirm
    THEN [c EXCEPT !.status = "likely_present",
                   !.expires = Later(c.expires, t + Extra)]
    ELSE c

\* Variant that breaks LifeIsBounded: a confirmation sets the end anew.
Judged_SetsEnd(c, t) ==
    IF c.cleared >= Clear /\ c.cleared > c.still
    THEN [c EXCEPT !.status = "likely_cleared"]
    ELSE IF c.still >= Confirm
    THEN [c EXCEPT !.status = "likely_present", !.expires = t + Extra]
    ELSE c

\* What the handler makes of the counters.
Judged(c, t) ==
    IF c.cleared >= Clear /\ c.cleared > c.still
    THEN [c EXCEPT !.status = "likely_cleared"]
    ELSE IF c.still >= Confirm
    THEN [c EXCEPT !.status = "likely_present",
                   !.expires = Later(c.expires, t + Extra)]
    ELSE c

\* The UPDATE: only columns that differ from the loaded copy are written.
Saved(stored, old, new) ==
    LET Column(o, n, s) == IF n = o THEN s ELSE n
    IN  [status  |-> Column(old.status, new.status, stored.status),
         still   |-> Column(old.still, new.still, stored.still),
         cleared |-> Column(old.cleared, new.cleared, stored.cleared),
         unsure  |-> Column(old.unsure, new.unsure, stored.unsure),
         at      |-> stored.at,
         expires |-> Column(old.expires, new.expires, stored.expires)]

\* The commit of a vote, unless the phone's vote is there by now.
CommitVote(w) ==
    LET m == msg[w]
        new == Judged(Counted(m.copy, m.answer), m.at)
    IN  /\ m.busy
        /\ \A a \in Answers : <<m.report, m.voter, a>> \notin votes
        /\ votes' = votes \cup {<<m.report, m.voter, m.answer>>}
        /\ reports' = [reports EXCEPT ![m.report] = Saved(@, m.copy, new)]
        /\ msg' = [msg EXCEPT ![w] = Idle]
        /\ UNCHANGED now

\* uq_report_voter, or the end of the worker: nothing is written.
Fail(w) ==
    /\ msg[w].busy
    /\ msg' = [msg EXCEPT ![w] = Idle]
    /\ UNCHANGED <<now, reports, votes>>

Next ==
    \/ Tick
    \/ \E r \in Reports : PoliceReport(r)
    \/ \E w \in Workers, r \in Reports, v \in Voters, a \in Answers :
          ReadReport(w, r, v, a)
    \/ \E w \in Workers : CommitVote(w) \/ Fail(w)

Spec == Init /\ [][Next]_vars

-----------------------------------------------------------------------------
(* Properties.                                                             *)

Statuses == {"absent", "recently_reported", "likely_present", "likely_cleared"}
Rows == [status : Statuses, still : Nat, cleared : Nat, unsure : Nat,
         at : Nat, expires : Nat]
Reading == [busy : {TRUE}, report : Reports, voter : Voters, answer : Answers,
            copy : Rows, at : Nat]

TypeOK ==
    /\ now \in Nat
    /\ reports \in [Reports -> Rows]
    /\ votes \subseteq Reports \X Voters \X Answers
    /\ msg \in [Workers -> {Idle} \cup Reading]

\* The phones whose recorded answer on report r is a.
Said(r, a) == {v \in Voters : <<r, v, a>> \in votes}

\* A status is backed by people: however votes overlap and counters lose
\* updates, each phone is recorded once, no counter exceeds the phones that
\* gave its answer, and a report is called likely present or likely cleared
\* only when enough different phones said so.
StatusIsBacked ==
    \A r \in Reports :
        LET row == reports[r]
        IN  /\ \A a, b \in Answers : a # b => Said(r, a) \cap Said(r, b) = {}
            /\ row.still <= Cardinality(Said(r, "still"))
            /\ row.cleared <= Cardinality(Said(r, "cleared"))
            /\ row.unsure <= Cardinality(Said(r, "unsure"))
            /\ row.status = "likely_present" =>
                 Cardinality(Said(r, "still")) >= Confirm
            /\ row.status = "likely_cleared" =>
                 Cardinality(Said(r, "cleared")) >= Clear

\* "It expires automatically" (the answer to a report, community.py:119): no
\* overlap of votes ends a report before the time it was given at first, and
\* none keeps it longer than a confirmation made by now could.
LifeIsBounded ==
    \A r \in Reports : reports[r] # Absent =>
        /\ reports[r].expires >= reports[r].at + Life
        /\ reports[r].expires <= Later(reports[r].at + Life, now + Extra)
=============================================================================
