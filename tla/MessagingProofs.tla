-------------------------- MODULE MessagingProofs ---------------------------
(***************************************************************************)
(* Theorems about what text messages and the map work on: community        *)
(* reports, saved routes and the memory of a conversation, for any number  *)
(* of workers, phones, votes, routes and spellings.                        *)
(***************************************************************************)
EXTENDS CommunityReports, FiniteSetTheorems, TLAPS

CONSTANTS
    Ids, Aliases, Spellings, None,            \* of SavedRoutes
    Phones, Highways, Places, Ttl, MemoryTime \* of ConversationMemory

VARIABLES
    routes, used, req, tangled,             \* of SavedRoutes
    clock, memory, reply, named, followed   \* of ConversationMemory

SR == INSTANCE SavedRoutes
CM == INSTANCE ConversationMemory WITH now <- clock, MaxTime <- MemoryTime

-----------------------------------------------------------------------------
(* Community reports.                                                        *)

\* No counter of a row or a copy exceeds the phones recorded for its answer.
Backed(r, row) ==
    /\ row.still <= Cardinality(Said(r, "still"))
    /\ row.cleared <= Cardinality(Said(r, "cleared"))
    /\ row.unsure <= Cardinality(Said(r, "unsure"))

\* Enough phones are recorded for the status of report r.
StatusEarned(r, status) ==
    /\ status = "likely_present" => Cardinality(Said(r, "still")) >= Confirm
    /\ status = "likely_cleared" => Cardinality(Said(r, "cleared")) >= Clear

OnePerPhone ==
    \A r \in Reports : \A a, b \in Answers :
        a # b => Said(r, a) \cap Said(r, b) = {}

AllBacked ==
    /\ \A r \in Reports :
          Backed(r, reports[r]) /\ StatusEarned(r, reports[r].status)
    /\ \A w \in Workers : msg[w].busy => Backed(msg[w].report, msg[w].copy)

\* The inductive invariant of the counters: the copies in flight are backed too.
Counting == TypeOK /\ OnePerPhone /\ AllBacked

\* A report lives within its bounds, a row or a copy of it.
InBounds(row) ==
    /\ row.status # "absent"
    /\ row.expires >= row.at + Life
    /\ row.expires <= Later(row.at + Life, now + Extra)

AllInBounds ==
    /\ \A r \in Reports : reports[r] # Absent => InBounds(reports[r])
    /\ \A w \in Workers : msg[w].busy =>
          /\ InBounds(msg[w].copy)
          /\ msg[w].at <= now
          /\ reports[msg[w].report] # Absent
          /\ reports[msg[w].report].at = msg[w].copy.at

\* The inductive invariant of the lifetimes.
Living == TypeOK /\ AllInBounds

-----------------------------------------------------------------------------
(* The operators on rows.                                                  *)

LEMMA Params ==
    ASSUME ReportAssumption
    PROVE  /\ Life \in Nat /\ Extra \in Nat /\ Confirm \in Nat /\ Clear \in Nat
           /\ IsFiniteSet(Voters)
BY DEF ReportAssumption

LEMMA AbsentRow ==
    /\ Absent \in Rows /\ Absent.status = "absent"
    /\ Absent.still = 0 /\ Absent.cleared = 0 /\ Absent.unsure = 0
BY DEF Absent, Rows, Statuses

\* What a new report looks like.
Fresh(t) == [status |-> "recently_reported", still |-> 0, cleared |-> 0,
             unsure |-> 0, at |-> t, expires |-> t + Life]

LEMMA NewReport ==
    ASSUME NEW t, NEW row,
           row = [Absent EXCEPT !.status = "recently_reported", !.at = t,
                                !.expires = t + Life]
    PROVE  row = Fresh(t)
BY DEF Absent, Fresh

LEMMA FreshRow ==
    ASSUME ReportAssumption, NEW t \in Nat
    PROVE  /\ Fresh(t) \in Rows /\ Fresh(t).status = "recently_reported"
           /\ Fresh(t).still = 0 /\ Fresh(t).cleared = 0 /\ Fresh(t).unsure = 0
           /\ Fresh(t).at = t /\ Fresh(t).expires = t + Life
<1>1. t + Life \in Nat
  BY Params
<1> QED
  BY <1>1 DEF Fresh, Rows, Statuses

\* A counted vote changes its own counter only.
LEMMA CountedRow ==
    ASSUME NEW c \in Rows, NEW a \in Answers, NEW n, n = Counted(c, a)
    PROVE  /\ n \in Rows
           /\ n.still = IF a = "still" THEN c.still + 1 ELSE c.still
           /\ n.cleared = IF a = "cleared" THEN c.cleared + 1 ELSE c.cleared
           /\ n.unsure = IF a = "unsure" THEN c.unsure + 1 ELSE c.unsure
           /\ n.status = c.status /\ n.at = c.at /\ n.expires = c.expires
<1>1. c = [status |-> c.status, still |-> c.still, cleared |-> c.cleared,
           unsure |-> c.unsure, at |-> c.at, expires |-> c.expires]
  BY DEF Rows
<1>2. n = [status |-> c.status,
           still |-> IF a = "still" THEN c.still + 1 ELSE c.still,
           cleared |-> IF a = "cleared" THEN c.cleared + 1 ELSE c.cleared,
           unsure |-> IF a = "unsure" THEN c.unsure + 1 ELSE c.unsure,
           at |-> c.at, expires |-> c.expires]
  BY <1>1 DEF Counted
<1>3. /\ c.status \in Statuses /\ c.still \in Nat /\ c.cleared \in Nat
      /\ c.unsure \in Nat /\ c.at \in Nat /\ c.expires \in Nat
  BY DEF Rows
<1> QED
  BY <1>2, <1>3 DEF Rows

LEMMA LaterNat ==
    ASSUME NEW a \in Nat, NEW b \in Nat
    PROVE  Later(a, b) \in Nat /\ Later(a, b) >= a /\ Later(a, b) >= b
             /\ (Later(a, b) = a \/ Later(a, b) = b)
BY DEF Later

\* The judgement keeps counters, changes the status only with the votes for it
\* and the end only to a later one.
LEMMA JudgedRow ==
    ASSUME ReportAssumption, NEW c \in Rows, NEW t \in Nat, NEW n, n = Judged(c, t)
    PROVE  /\ n \in Rows
           /\ n.still = c.still /\ n.cleared = c.cleared /\ n.unsure = c.unsure
           /\ n.at = c.at
           /\ n.expires = c.expires \/ n.expires = Later(c.expires, t + Extra)
           /\ \/ n.status = c.status
              \/ n.status = "likely_present" /\ c.still >= Confirm
              \/ n.status = "likely_cleared" /\ c.cleared >= Clear
<1>1. c = [status |-> c.status, still |-> c.still, cleared |-> c.cleared,
           unsure |-> c.unsure, at |-> c.at, expires |-> c.expires]
  BY DEF Rows
<1>2. /\ c.status \in Statuses /\ c.still \in Nat /\ c.cleared \in Nat
      /\ c.unsure \in Nat /\ c.at \in Nat /\ c.expires \in Nat
  BY DEF Rows
<1>3. CASE c.cleared >= Clear /\ c.cleared > c.still
  <2>1. n = [status |-> "likely_cleared", still |-> c.still, cleared |-> c.cleared,
             unsure |-> c.unsure, at |-> c.at, expires |-> c.expires]
    BY <1>1, <1>3 DEF Judged
  <2> QED
    BY <2>1, <1>2, <1>3 DEF Rows, Statuses
<1>4. CASE ~(c.cleared >= Clear /\ c.cleared > c.still) /\ c.still >= Confirm
  <2>1. n = [c EXCEPT !.status = "likely_present",
                      !.expires = Later(c.expires, t + Extra)]
    BY <1>4 DEF Judged
  <2>2. n = [status |-> "likely_present", still |-> c.still, cleared |-> c.cleared,
             unsure |-> c.unsure, at |-> c.at,
             expires |-> Later(c.expires, t + Extra)]
    BY <1>1, <2>1
  <2>3. Later(c.expires, t + Extra) \in Nat
    <3>1. t + Extra \in Nat
      BY Params
    <3> QED
      BY <3>1, <1>2, LaterNat
  <2> QED
    BY <2>2, <2>3, <1>2, <1>4 DEF Rows, Statuses
<1>5. CASE ~(c.cleared >= Clear /\ c.cleared > c.still) /\ ~(c.still >= Confirm)
  BY <1>5 DEF Judged
<1> QED
  BY <1>3, <1>4, <1>5

\* A commit writes each column or leaves what is stored.
LEMMA SavedReport ==
    ASSUME NEW s \in Rows, NEW o \in Rows, NEW n \in Rows, NEW row,
           row = Saved(s, o, n)
    PROVE  /\ row \in Rows
           /\ row.status = s.status \/ (row.status = n.status /\ n.status # o.status)
           /\ row.still = s.still \/ row.still = n.still
           /\ row.cleared = s.cleared \/ row.cleared = n.cleared
           /\ row.unsure = s.unsure \/ row.unsure = n.unsure
           /\ row.at = s.at
           /\ row.expires = s.expires \/ row.expires = n.expires
<1>1. row = [status |-> IF n.status = o.status THEN s.status ELSE n.status,
             still |-> IF n.still = o.still THEN s.still ELSE n.still,
             cleared |-> IF n.cleared = o.cleared THEN s.cleared ELSE n.cleared,
             unsure |-> IF n.unsure = o.unsure THEN s.unsure ELSE n.unsure,
             at |-> s.at,
             expires |-> IF n.expires = o.expires THEN s.expires ELSE n.expires]
  BY DEF Saved
<1>2. /\ s.status \in Statuses /\ s.still \in Nat /\ s.cleared \in Nat
      /\ s.unsure \in Nat /\ s.at \in Nat /\ s.expires \in Nat
  BY DEF Rows
<1>3. /\ n.status \in Statuses /\ n.still \in Nat /\ n.cleared \in Nat
      /\ n.unsure \in Nat /\ n.expires \in Nat
  BY DEF Rows
<1> QED
  BY <1>1, <1>2, <1>3 DEF Rows

-----------------------------------------------------------------------------
(* The phones recorded for an answer.                                      *)

LEMMA SaidFinite ==
    ASSUME ReportAssumption, NEW r, NEW a
    PROVE  IsFiniteSet(Said(r, a)) /\ Cardinality(Said(r, a)) \in Nat
<1>1. Said(r, a) \in SUBSET Voters
  BY DEF Said
<1>2. IsFiniteSet(Said(r, a))
  BY <1>1, Params, FS_Subset
<1> QED
  BY <1>2, FS_CardinalityType

\* A vote that is recorded counts for its own report and answer, and takes no
\* phone from any other.
LEMMA SaidGrows ==
    ASSUME ReportAssumption,
           NEW q \in Reports, NEW v \in Voters, NEW b \in Answers,
           \A a \in Answers : <<q, v, a>> \notin votes,
           votes' = votes \cup {<<q, v, b>>},
           NEW r \in Reports, NEW a \in Answers
    PROVE  /\ Cardinality(Said(r, a)) <= Cardinality(Said(r, a)')
           /\ r = q /\ a = b =>
                Cardinality(Said(r, a)') = Cardinality(Said(r, a)) + 1
           /\ Cardinality(Said(r, a)) \in Nat /\ Cardinality(Said(r, a)') \in Nat
<1>1. IsFiniteSet(Said(r, a)) /\ Cardinality(Said(r, a)) \in Nat
  BY SaidFinite
<1>2. CASE r = q /\ a = b
  <2>1. Said(r, a)' = Said(r, a) \cup {v} /\ v \notin Said(r, a)
    BY <1>2 DEF Said
  <2>2. Cardinality(Said(r, a) \cup {v}) = Cardinality(Said(r, a)) + 1
    BY <2>1, <1>1, FS_AddElement
  <2> QED
    BY <2>1, <2>2, <1>1
<1>3. CASE ~(r = q /\ a = b)
  <2>1. Said(r, a)' = Said(r, a)
    BY <1>3 DEF Said
  <2> QED
    BY <2>1, <1>1, <1>3
<1> QED
  BY <1>2, <1>3

-----------------------------------------------------------------------------
(* The steps, one by one.                                                  *)

\* What a worker that is handling a vote holds.
LEMMA Holds ==
    ASSUME TypeOK, NEW w \in Workers, msg[w].busy
    PROVE  /\ msg[w] \in Reading /\ msg[w].report \in Reports
           /\ msg[w].voter \in Voters /\ msg[w].answer \in Answers
           /\ msg[w].copy \in Rows /\ msg[w].at \in Nat
<1>1. msg[w] # Idle
  BY DEF Idle
<1>2. msg[w] \in Reading
  BY <1>1 DEF TypeOK
<1> QED
  BY <1>2 DEF Reading

LEMMA IdleNotBusy == ~Idle.busy
BY DEF Idle

\* A step that gives worker w a state and the tables back as they were.
LEMMA MsgStep ==
    ASSUME TypeOK, NEW w \in Workers, NEW l \in {Idle} \cup Reading,
           msg' = [msg EXCEPT ![w] = l]
    PROVE  /\ msg' \in [Workers -> {Idle} \cup Reading]
           /\ msg'[w] = l
           /\ \A v \in Workers \ {w} : msg'[v] = msg[v]
BY DEF TypeOK

\* What handle_police_vote has read.
LEMMA ReadMsg ==
    ASSUME TypeOK, NEW w \in Workers, NEW r \in Reports, NEW v \in Voters,
           NEW a \in Answers, ReadReport(w, r, v, a)
    PROVE  /\ TypeOK'
           /\ msg'[w].report = r /\ msg'[w].copy = reports[r] /\ msg'[w].at = now
           /\ \A u \in Workers \ {w} : msg'[u] = msg[u]
           /\ reports[r] # Absent
           /\ UNCHANGED <<now, reports, votes>>
<1>1. PICK l : l = [busy |-> TRUE, report |-> r, voter |-> v, answer |-> a,
                    copy |-> reports[r], at |-> now]
  OBVIOUS
<1>2. l \in Reading
  BY <1>1 DEF TypeOK, Reading
<1>3. msg' = [msg EXCEPT ![w] = l] /\ UNCHANGED <<now, reports, votes>>
  BY <1>1 DEF ReadReport
<1>4. /\ msg' \in [Workers -> {Idle} \cup Reading] /\ msg'[w] = l
      /\ \A u \in Workers \ {w} : msg'[u] = msg[u]
  BY <1>2, <1>3, MsgStep
<1>5. TypeOK'
  BY <1>3, <1>4 DEF TypeOK
<1> QED
  BY <1>1, <1>3, <1>4, <1>5 DEF ReadReport, Active

\* What the commit of a vote does to its report.
LEMMA Committed ==
    ASSUME ReportAssumption, TypeOK, NEW w \in Workers, CommitVote(w)
    PROVE  /\ TypeOK'
           /\ msg[w].busy
           /\ \A a \in Answers : <<msg[w].report, msg[w].voter, a>> \notin votes
           /\ votes' = votes \cup {<<msg[w].report, msg[w].voter, msg[w].answer>>}
           /\ reports'[msg[w].report] =
                Saved(reports[msg[w].report], msg[w].copy,
                      Judged(Counted(msg[w].copy, msg[w].answer), msg[w].at))
           /\ \A r \in Reports \ {msg[w].report} : reports'[r] = reports[r]
           /\ msg'[w] = Idle
           /\ \A u \in Workers \ {w} : msg'[u] = msg[u]
           /\ now' = now
<1> DEFINE m == msg[w]
           new == Judged(Counted(m.copy, m.answer), m.at)
           row == Saved(reports[m.report], m.copy, new)
<1>1. /\ m.busy /\ votes' = votes \cup {<<m.report, m.voter, m.answer>>}
      /\ \A a \in Answers : <<m.report, m.voter, a>> \notin votes
      /\ reports' = [reports EXCEPT ![m.report] = row]
      /\ msg' = [msg EXCEPT ![w] = Idle] /\ now' = now
  BY DEF CommitVote
<1>2. /\ m.report \in Reports /\ m.voter \in Voters /\ m.answer \in Answers
      /\ m.copy \in Rows /\ m.at \in Nat
  BY <1>1, Holds
<1>3. Counted(m.copy, m.answer) \in Rows
  BY <1>2, CountedRow
<1>4. new \in Rows
  BY <1>2, <1>3, JudgedRow
<1>5. reports[m.report] \in Rows
  BY <1>2 DEF TypeOK
<1>6. row \in Rows
  BY <1>2, <1>4, <1>5, SavedReport
<1>7. /\ reports' \in [Reports -> Rows] /\ reports'[m.report] = row
      /\ \A r \in Reports \ {m.report} : reports'[r] = reports[r]
  <2> HIDE DEF row, m
  <2> QED
    BY <1>1, <1>2, <1>6 DEF TypeOK
<1>8. /\ msg' \in [Workers -> {Idle} \cup Reading] /\ msg'[w] = Idle
      /\ \A u \in Workers \ {w} : msg'[u] = msg[u]
  BY <1>1, MsgStep
<1>9. votes' \subseteq Reports \X Voters \X Answers
  BY <1>1, <1>2 DEF TypeOK
<1>10. TypeOK'
  BY <1>1, <1>7, <1>8, <1>9 DEF TypeOK
<1> QED
  BY <1>1, <1>7, <1>8, <1>10

\* A new report.
LEMMA Reported ==
    ASSUME ReportAssumption, TypeOK, NEW r \in Reports, PoliceReport(r)
    PROVE  /\ TypeOK' /\ reports[r] = Absent /\ reports'[r] = Fresh(now)
           /\ \A q \in Reports \ {r} : reports'[q] = reports[q]
           /\ UNCHANGED <<now, votes, msg>>
<1>1. PICK row : row = [Absent EXCEPT !.status = "recently_reported", !.at = now,
                                      !.expires = now + Life]
  OBVIOUS
<1>2. row = Fresh(now)
  BY <1>1, NewReport
<1>3. /\ reports' = [reports EXCEPT ![r] = row] /\ UNCHANGED <<now, votes, msg>>
      /\ reports[r] = Absent
  BY <1>1 DEF PoliceReport
<1>4. Fresh(now) \in Rows
  BY FreshRow DEF TypeOK
<1>5. /\ reports' \in [Reports -> Rows] /\ reports'[r] = Fresh(now)
      /\ \A q \in Reports \ {r} : reports'[q] = reports[q]
  BY <1>2, <1>3, <1>4 DEF TypeOK
<1>6. TypeOK'
  BY <1>3, <1>5 DEF TypeOK
<1> QED
  BY <1>3, <1>5, <1>6

\* A failed vote.
LEMMA Failed ==
    ASSUME TypeOK, NEW w \in Workers, Fail(w)
    PROVE  /\ TypeOK' /\ msg'[w] = Idle
           /\ \A u \in Workers \ {w} : msg'[u] = msg[u]
           /\ UNCHANGED <<now, reports, votes>>
<1>1. msg' = [msg EXCEPT ![w] = Idle] /\ UNCHANGED <<now, reports, votes>>
  BY DEF Fail
<1>2. /\ msg' \in [Workers -> {Idle} \cup Reading] /\ msg'[w] = Idle
      /\ \A u \in Workers \ {w} : msg'[u] = msg[u]
  BY <1>1, MsgStep
<1>3. TypeOK'
  BY <1>1, <1>2 DEF TypeOK
<1> QED
  BY <1>1, <1>2, <1>3

LEMMA Ticked ==
    ASSUME TypeOK, Tick
    PROVE  TypeOK' /\ now' = now + 1 /\ UNCHANGED <<reports, votes, msg>>
BY DEF TypeOK, Tick

-----------------------------------------------------------------------------
(* Type correctness.                                                       *)

LEMMA InitTyped == Init => TypeOK
<1> SUFFICES ASSUME Init PROVE TypeOK
  OBVIOUS
<1>1. reports \in [Reports -> Rows]
  BY AbsentRow DEF Init
<1> QED
  BY <1>1 DEF Init, TypeOK

LEMMA StepTyped ==
    ASSUME ReportAssumption, TypeOK, [Next]_vars
    PROVE  TypeOK'
<1>1. CASE Tick
  BY <1>1, Ticked
<1>2. ASSUME NEW r \in Reports, PoliceReport(r) PROVE TypeOK'
  BY <1>2, Reported
<1>3. ASSUME NEW w \in Workers, NEW r \in Reports, NEW v \in Voters,
             NEW a \in Answers, ReadReport(w, r, v, a)
      PROVE  TypeOK'
  BY <1>3, ReadMsg
<1>4. ASSUME NEW w \in Workers, CommitVote(w) PROVE TypeOK'
  BY <1>4, Committed
<1>5. ASSUME NEW w \in Workers, Fail(w) PROVE TypeOK'
  BY <1>5, Failed
<1>6. CASE UNCHANGED vars
  BY <1>6 DEF vars, TypeOK
<1> QED
  BY <1>1, <1>2, <1>3, <1>4, <1>5, <1>6 DEF Next

\* Every row, copy and vote is of its type, and counters are numbers.
THEOREM ReportsTyped == ASSUME ReportAssumption PROVE Spec => []TypeOK
<1>1. Init => TypeOK
  BY InitTyped
<1>2. TypeOK /\ [Next]_vars => TypeOK'
  BY StepTyped
<1> QED
  BY <1>1, <1>2, PTL DEF Spec

-----------------------------------------------------------------------------
(* The counters and the status.                                            *)

LEMMA InitCounting == ASSUME ReportAssumption PROVE Init => Counting
<1> SUFFICES ASSUME Init PROVE Counting
  OBVIOUS
<1>1. TypeOK
  BY InitTyped
<1>2. \A r \in Reports, a \in Answers : Said(r, a) = {}
  BY DEF Init, Said
<1>3. OnePerPhone
  BY <1>2 DEF OnePerPhone
<1>4. \A r \in Reports, a \in Answers : Cardinality(Said(r, a)) \in Nat
  BY SaidFinite
<1>5. AllBacked
  <2>1. ASSUME NEW r \in Reports
        PROVE  Backed(r, reports[r]) /\ StatusEarned(r, reports[r].status)
    <3>1. reports[r] = Absent
      BY DEF Init
    <3>2. /\ Cardinality(Said(r, "still")) \in Nat
          /\ Cardinality(Said(r, "cleared")) \in Nat
          /\ Cardinality(Said(r, "unsure")) \in Nat
      BY <1>4 DEF Answers
    <3> QED
      BY <3>1, <3>2, AbsentRow DEF Backed, StatusEarned
  <2>2. \A w \in Workers : ~msg[w].busy
    BY IdleNotBusy DEF Init
  <2> QED
    BY <2>1, <2>2 DEF AllBacked
<1> QED
  BY <1>1, <1>3, <1>5 DEF Counting

\* A step that records no vote and changes no row keeps what the rows claim.
LEMMA SameVotes ==
    ASSUME Counting, UNCHANGED votes
    PROVE  /\ \A r, a : Said(r, a)' = Said(r, a)
           /\ OnePerPhone'
<1>1. \A r, a : Said(r, a)' = Said(r, a)
  BY DEF Said
<1> QED
  BY <1>1 DEF Counting, OnePerPhone

LEMMA SameRows ==
    ASSUME Counting, TypeOK', UNCHANGED <<reports, votes>>,
           \A w \in Workers : msg'[w].busy =>
              msg'[w] = msg[w] \/ (/\ msg'[w].report \in Reports
                                  /\ msg'[w].copy = reports[msg'[w].report])
    PROVE  Counting'
<1>1. OnePerPhone' /\ \A r, a : Said(r, a)' = Said(r, a)
  BY SameVotes
<1>2. \A r \in Reports : /\ Backed(r, reports[r])'
                         /\ StatusEarned(r, reports[r].status)'
  BY <1>1 DEF Counting, AllBacked, Backed, StatusEarned
<1>3. \A w \in Workers : msg'[w].busy => Backed(msg[w].report, msg[w].copy)'
  BY <1>1 DEF Counting, AllBacked, Backed
<1> QED
  BY <1>1, <1>2, <1>3 DEF Counting, AllBacked

LEMMA CommitCounts ==
    ASSUME ReportAssumption, Counting, NEW w \in Workers, CommitVote(w)
    PROVE  Counting'
<1>1. PICK q \in Reports, v \in Voters, b \in Answers, c \in Rows, t \in Nat,
           s \in Rows :
        /\ msg[w].report = q /\ msg[w].voter = v /\ msg[w].answer = b
        /\ msg[w].copy = c /\ msg[w].at = t /\ reports[q] = s
  BY Committed, Holds DEF Counting, TypeOK
<1> DEFINE n == Counted(c, b)
           j == Judged(n, t)
           row == Saved(s, c, j)
<1>2. /\ TypeOK' /\ msg[w].busy
      /\ \A a \in Answers : <<q, v, a>> \notin votes
      /\ votes' = votes \cup {<<q, v, b>>}
      /\ reports'[q] = row
      /\ \A r \in Reports \ {q} : reports'[r] = reports[r]
      /\ msg'[w] = Idle /\ \A u \in Workers \ {w} : msg'[u] = msg[u]
  BY <1>1, Committed DEF Counting
<1> HIDE DEF n, j, row
<1>3. \A r \in Reports, a \in Answers :
         /\ Cardinality(Said(r, a)) <= Cardinality(Said(r, a)')
         /\ r = q /\ a = b =>
              Cardinality(Said(r, a)') = Cardinality(Said(r, a)) + 1
         /\ Cardinality(Said(r, a)) \in Nat /\ Cardinality(Said(r, a)') \in Nat
  BY <1>2, SaidGrows
<1>4. \A r \in Reports :
        /\ Cardinality(Said(r, "still")) <= Cardinality(Said(r, "still")')
        /\ Cardinality(Said(r, "cleared")) <= Cardinality(Said(r, "cleared")')
        /\ Cardinality(Said(r, "unsure")) <= Cardinality(Said(r, "unsure")')
        /\ Cardinality(Said(r, "still")) \in Nat /\ Cardinality(Said(r, "still")') \in Nat
        /\ Cardinality(Said(r, "cleared")) \in Nat
        /\ Cardinality(Said(r, "cleared")') \in Nat
        /\ Cardinality(Said(r, "unsure")) \in Nat
        /\ Cardinality(Said(r, "unsure")') \in Nat
  BY <1>3 DEF Answers
<1>5. OnePerPhone'
  BY <1>2 DEF Counting, OnePerPhone, Said
<1>6. /\ n \in Rows /\ n.status = c.status
      /\ n.still <= Cardinality(Said(q, "still")')
      /\ n.cleared <= Cardinality(Said(q, "cleared")')
      /\ n.unsure <= Cardinality(Said(q, "unsure")')
  <2>1. /\ n \in Rows /\ n.status = c.status
        /\ n.still = IF b = "still" THEN c.still + 1 ELSE c.still
        /\ n.cleared = IF b = "cleared" THEN c.cleared + 1 ELSE c.cleared
        /\ n.unsure = IF b = "unsure" THEN c.unsure + 1 ELSE c.unsure
    BY CountedRow DEF n
  <2>2. Backed(q, c)
    BY <1>1, <1>2 DEF Counting, AllBacked
  <2>3. /\ c.still \in Nat /\ c.cleared \in Nat /\ c.unsure \in Nat
    BY DEF Rows
  <2>4. /\ b = "still" => Cardinality(Said(q, "still")')
                          = Cardinality(Said(q, "still")) + 1
        /\ b = "cleared" => Cardinality(Said(q, "cleared")')
                            = Cardinality(Said(q, "cleared")) + 1
        /\ b = "unsure" => Cardinality(Said(q, "unsure")')
                           = Cardinality(Said(q, "unsure")) + 1
    BY <1>3
  <2> QED
    BY <1>4, <2>1, <2>2, <2>3, <2>4 DEF Backed
<1>7. /\ row.still = s.still \/ row.still = n.still
      /\ row.cleared = s.cleared \/ row.cleared = n.cleared
      /\ row.unsure = s.unsure \/ row.unsure = n.unsure
      /\ \/ row.status = s.status
         \/ row.status = "likely_present" /\ n.still >= Confirm
         \/ row.status = "likely_cleared" /\ n.cleared >= Clear
  <2>1. /\ j \in Rows /\ j.still = n.still /\ j.cleared = n.cleared
        /\ j.unsure = n.unsure
        /\ \/ j.status = n.status
           \/ j.status = "likely_present" /\ n.still >= Confirm
           \/ j.status = "likely_cleared" /\ n.cleared >= Clear
    BY <1>6, JudgedRow DEF j
  <2>2. /\ row.status = s.status \/ (row.status = j.status /\ j.status # c.status)
        /\ row.still = s.still \/ row.still = j.still
        /\ row.cleared = s.cleared \/ row.cleared = j.cleared
        /\ row.unsure = s.unsure \/ row.unsure = j.unsure
    BY <2>1, SavedReport DEF row
  <2> QED
    BY <1>6, <2>1, <2>2
<1>8. ASSUME NEW r \in Reports
      PROVE  Backed(r, reports[r])' /\ StatusEarned(r, reports[r].status)'
  <2>1. Backed(r, reports[r]) /\ StatusEarned(r, reports[r].status)
    BY DEF Counting, AllBacked
  <2>2. /\ reports[r].still \in Nat /\ reports[r].cleared \in Nat
        /\ reports[r].unsure \in Nat
    BY DEF Counting, TypeOK, Rows
  <2>3. n.still \in Nat /\ n.cleared \in Nat /\ n.unsure \in Nat
    BY <1>6 DEF Rows
  <2>4. Confirm \in Nat /\ Clear \in Nat
    BY Params
  <2>5. CASE r = q
    <3>1. reports[r] = s /\ reports'[r] = row
      BY <1>1, <1>2, <2>5
    <3>2. Backed(r, row)'
      BY <1>4, <1>6, <1>7, <2>1, <2>2, <2>3, <2>5, <3>1 DEF Backed
    <3>3. StatusEarned(r, row.status)'
      BY <1>4, <1>6, <1>7, <2>1, <2>3, <2>4, <2>5, <3>1 DEF StatusEarned
    <3> QED
      BY <3>1, <3>2, <3>3 DEF Backed, StatusEarned
  <2>6. CASE r # q
    BY <1>2, <1>4, <2>1, <2>2, <2>4, <2>6 DEF Backed, StatusEarned
  <2> QED
    BY <2>5, <2>6
<1>9. ASSUME NEW u \in Workers, msg'[u].busy
      PROVE  Backed(msg[u].report, msg[u].copy)'
  <2>1. u # w /\ msg'[u] = msg[u]
    BY <1>2, <1>9, IdleNotBusy
  <2>2. Backed(msg[u].report, msg[u].copy) /\ msg[u].report \in Reports
           /\ msg[u].copy \in Rows
    BY <1>9, <2>1, Holds DEF Counting, AllBacked
  <2>3. /\ msg[u].copy.still \in Nat /\ msg[u].copy.cleared \in Nat
        /\ msg[u].copy.unsure \in Nat
    BY <2>2 DEF Rows
  <2> QED
    BY <1>4, <2>1, <2>2, <2>3 DEF Backed
<1> QED
  BY <1>2, <1>5, <1>8, <1>9 DEF Counting, AllBacked

LEMMA StepCounting ==
    ASSUME ReportAssumption, Counting, [Next]_vars
    PROVE  Counting'
<1>0. TypeOK /\ TypeOK'
  BY StepTyped DEF Counting
<1>1. CASE Tick
  BY <1>0, <1>1, Ticked, SameRows
<1>2. ASSUME NEW r \in Reports, PoliceReport(r) PROVE Counting'
  <2>1. /\ reports'[r] = Fresh(now) /\ UNCHANGED <<now, votes, msg>>
        /\ \A q \in Reports \ {r} : reports'[q] = reports[q]
    BY <1>0, <1>2, Reported
  <2>2. OnePerPhone' /\ \A q, a : Said(q, a)' = Said(q, a)
    BY <2>1, SameVotes
  <2>3. ASSUME NEW q \in Reports
        PROVE  Backed(q, reports[q])' /\ StatusEarned(q, reports[q].status)'
    <3>1. CASE q = r
      <4>1. /\ Cardinality(Said(q, "still")) \in Nat
            /\ Cardinality(Said(q, "cleared")) \in Nat
            /\ Cardinality(Said(q, "unsure")) \in Nat
        BY SaidFinite
      <4>2. /\ reports'[q].still = 0 /\ reports'[q].cleared = 0
            /\ reports'[q].unsure = 0 /\ reports'[q].status = "recently_reported"
        BY <1>0, <2>1, <3>1, FreshRow DEF TypeOK
      <4> QED
        BY <2>2, <4>1, <4>2 DEF Backed, StatusEarned
    <3>2. CASE q # r
      BY <2>1, <2>2, <3>2 DEF Counting, AllBacked, Backed, StatusEarned
    <3> QED
      BY <3>1, <3>2
  <2>4. \A w \in Workers : msg'[w].busy => Backed(msg[w].report, msg[w].copy)'
    BY <2>1, <2>2 DEF Counting, AllBacked, Backed
  <2> QED
    BY <1>0, <2>2, <2>3, <2>4 DEF Counting, AllBacked
<1>3. ASSUME NEW w \in Workers, NEW r \in Reports, NEW v \in Voters,
             NEW a \in Answers, ReadReport(w, r, v, a)
      PROVE  Counting'
  <2>1. /\ msg'[w].report = r /\ msg'[w].copy = reports[r]
        /\ \A u \in Workers \ {w} : msg'[u] = msg[u]
        /\ UNCHANGED <<now, reports, votes>>
    BY <1>0, <1>3, ReadMsg
  <2> QED
    BY <1>0, <2>1, SameRows
<1>4. ASSUME NEW w \in Workers, CommitVote(w) PROVE Counting'
  BY <1>4, CommitCounts
<1>5. ASSUME NEW w \in Workers, Fail(w) PROVE Counting'
  <2>1. /\ msg'[w] = Idle /\ UNCHANGED <<now, reports, votes>>
        /\ \A u \in Workers \ {w} : msg'[u] = msg[u]
    BY <1>0, <1>5, Failed
  <2> QED
    BY <1>0, <2>1, IdleNotBusy, SameRows
<1>6. CASE UNCHANGED vars
  BY <1>0, <1>6, SameRows DEF vars
<1> QED
  BY <1>1, <1>2, <1>3, <1>4, <1>5, <1>6 DEF Next

LEMMA CountingBacks == Counting => StatusIsBacked
BY DEF Counting, OnePerPhone, AllBacked, Backed, StatusEarned, StatusIsBacked

\* Whatever copies the workers hold, no counter of a report exceeds the phones
\* that answered so, and its status has the votes it takes.
THEOREM StatusAlwaysBacked == ASSUME ReportAssumption PROVE Spec => []StatusIsBacked
<1>1. Init => Counting
  BY InitCounting
<1>2. Counting /\ [Next]_vars => Counting'
  BY StepCounting
<1>3. Counting => StatusIsBacked
  BY CountingBacks
<1> QED
  BY <1>1, <1>2, <1>3, PTL DEF Spec

-----------------------------------------------------------------------------
(* The lifetimes.                                                          *)

LEMMA InitLiving == Init => Living
<1> SUFFICES ASSUME Init PROVE Living
  OBVIOUS
<1>1. TypeOK
  BY InitTyped
<1>2. AllInBounds
  BY IdleNotBusy DEF Init, AllInBounds
<1> QED
  BY <1>1, <1>2 DEF Living

\* Bounds stay bounds when the clock moves on.
LEMMA BoundsKept ==
    ASSUME ReportAssumption, NEW row \in Rows, InBounds(row),
           now \in Nat, now' \in Nat, now <= now'
    PROVE  InBounds(row)'
<1>1. row.at \in Nat /\ row.expires \in Nat /\ Life \in Nat /\ Extra \in Nat
  BY Params DEF Rows
<1> QED
  BY <1>1 DEF InBounds, Later

\* Rows and copies that a step leaves alone stay within their bounds.
LEMMA Untouched ==
    ASSUME ReportAssumption, Living, TypeOK', now <= now'
    PROVE  /\ \A r \in Reports :
                reports'[r] = reports[r] /\ reports'[r] # Absent
                  => InBounds(reports[r])'
           /\ \A w \in Workers : msg[w].busy /\ msg'[w] = msg[w] =>
                InBounds(msg[w].copy)' /\ msg'[w].at <= now'
<1>1. now \in Nat /\ now' \in Nat
  BY DEF Living, TypeOK
<1>2. ASSUME NEW r \in Reports, reports'[r] = reports[r], reports'[r] # Absent
      PROVE  InBounds(reports[r])'
  <2>1. PICK row \in Rows : reports[r] = row
    BY DEF Living, TypeOK
  <2>2. InBounds(row)
    BY <1>2, <2>1 DEF Living, AllInBounds
  <2>3. InBounds(row)'
    BY <1>1, <2>2, BoundsKept
  <2> QED
    BY <1>2, <2>1, <2>3 DEF InBounds
<1>3. ASSUME NEW w \in Workers, msg[w].busy, msg'[w] = msg[w]
      PROVE  InBounds(msg[w].copy)' /\ msg'[w].at <= now'
  <2>1. PICK c \in Rows, t \in Nat : msg[w].copy = c /\ msg[w].at = t
    BY <1>3, Holds DEF Living
  <2>2. InBounds(c) /\ t <= now
    BY <1>3, <2>1 DEF Living, AllInBounds
  <2>3. InBounds(c)'
    BY <1>1, <2>2, BoundsKept
  <2> QED
    BY <1>1, <1>3, <2>1, <2>2, <2>3 DEF InBounds
<1> QED
  BY <1>2, <1>3

LEMMA CommitLives ==
    ASSUME ReportAssumption, Living, NEW w \in Workers, CommitVote(w)
    PROVE  Living'
<1>1. PICK q \in Reports, b \in Answers, c \in Rows, t \in Nat, s \in Rows :
        /\ msg[w].report = q /\ msg[w].answer = b
        /\ msg[w].copy = c /\ msg[w].at = t /\ reports[q] = s
  BY Committed, Holds DEF Living, TypeOK
<1> DEFINE n == Counted(c, b)
           j == Judged(n, t)
           row == Saved(s, c, j)
<1>2. /\ TypeOK' /\ msg[w].busy /\ now' = now
      /\ reports'[q] = row
      /\ \A r \in Reports \ {q} : reports'[r] = reports[r]
      /\ msg'[w] = Idle /\ \A u \in Workers \ {w} : msg'[u] = msg[u]
  BY <1>1, Committed DEF Living
<1> HIDE DEF n, j, row
<1>3. /\ InBounds(c) /\ t <= now /\ s # Absent /\ s.at = c.at
      /\ InBounds(s) /\ now \in Nat
  BY <1>1, <1>2 DEF Living, AllInBounds, TypeOK
<1>4. n \in Rows /\ n.status = c.status /\ n.at = c.at /\ n.expires = c.expires
  BY CountedRow DEF n
<1>5. /\ j \in Rows
      /\ j.expires = c.expires \/ j.expires = Later(c.expires, t + Extra)
      /\ j.status # "absent"
  BY <1>3, <1>4, JudgedRow DEF j, InBounds
<1>6. /\ row.status # "absent" /\ row.at = s.at
      /\ row.expires = s.expires \/ row.expires = c.expires
           \/ row.expires = Later(c.expires, t + Extra)
  BY <1>3, <1>5, SavedReport DEF row, InBounds
<1>7. InBounds(row)
  <2>1. /\ s.at \in Nat /\ s.expires \in Nat /\ c.expires \in Nat
        /\ Life \in Nat /\ Extra \in Nat
    BY Params DEF Rows
  <2> QED
    BY <1>3, <1>6, <2>1 DEF InBounds, Later
<1>8. row # Absent
  BY <1>6, AbsentRow
<1>9. ASSUME NEW r \in Reports, reports'[r] # Absent PROVE InBounds(reports[r])'
  <2>1. CASE r = q
    BY <1>2, <1>7, <2>1 DEF InBounds
  <2>2. CASE r # q
    BY <1>2, <1>3, <1>9, <2>2, Untouched
  <2> QED
    BY <2>1, <2>2
<1>10. ASSUME NEW u \in Workers, msg'[u].busy
       PROVE  /\ InBounds(msg[u].copy)' /\ msg'[u].at <= now'
              /\ reports'[msg'[u].report] # Absent
              /\ reports'[msg'[u].report].at = msg'[u].copy.at
  <2>1. u # w /\ msg'[u] = msg[u] /\ msg[u].busy
    BY <1>2, <1>10, IdleNotBusy
  <2>2. InBounds(msg[u].copy)' /\ msg'[u].at <= now'
    BY <1>2, <1>3, <2>1, Untouched
  <2>3. /\ msg[u].report \in Reports /\ reports[msg[u].report] # Absent
        /\ reports[msg[u].report].at = msg[u].copy.at
    BY <2>1, Holds DEF Living, AllInBounds
  <2>4. CASE msg[u].report = q
    BY <1>1, <1>2, <1>6, <1>8, <2>1, <2>2, <2>3, <2>4
  <2>5. CASE msg[u].report # q
    BY <1>2, <2>1, <2>2, <2>3, <2>5
  <2> QED
    BY <2>4, <2>5
<1> QED
  BY <1>2, <1>9, <1>10 DEF Living, AllInBounds

LEMMA StepLiving ==
    ASSUME ReportAssumption, Living, [Next]_vars
    PROVE  Living'
<1>0. TypeOK /\ TypeOK' /\ now \in Nat
  BY StepTyped DEF Living, TypeOK
<1>1. CASE Tick
  <2>1. now <= now' /\ UNCHANGED <<reports, votes, msg>>
    BY <1>0, <1>1, Ticked
  <2> QED
    BY <1>0, <2>1, Untouched DEF Living, AllInBounds
<1>2. ASSUME NEW r \in Reports, PoliceReport(r) PROVE Living'
  <2>1. /\ reports[r] = Absent /\ reports'[r] = Fresh(now)
        /\ UNCHANGED <<now, votes, msg>>
        /\ \A q \in Reports \ {r} : reports'[q] = reports[q]
    BY <1>0, <1>2, Reported
  <2>2. InBounds(Fresh(now))'
    <3>1. PICK t \in Nat : now = t /\ now' = t
      BY <1>0, <2>1
    <3>2. /\ Fresh(t).status # "absent" /\ Fresh(t).at = t
          /\ Fresh(t).expires = t + Life /\ Life \in Nat /\ Extra \in Nat
      BY FreshRow, Params
    <3> QED
      BY <3>1, <3>2 DEF InBounds, Later
  <2>3. ASSUME NEW q \in Reports, reports'[q] # Absent
        PROVE  InBounds(reports[q])'
    <3>1. CASE q = r
      BY <2>1, <2>2, <3>1 DEF InBounds
    <3>2. CASE q # r
      BY <1>0, <2>1, <2>3, <3>2, Untouched
    <3> QED
      BY <3>1, <3>2
  <2>4. ASSUME NEW w \in Workers, msg'[w].busy
        PROVE  /\ InBounds(msg[w].copy)' /\ msg'[w].at <= now'
               /\ reports'[msg'[w].report] # Absent
               /\ reports'[msg'[w].report].at = msg'[w].copy.at
    <3>1. msg[w].busy /\ msg'[w] = msg[w]
      BY <2>1, <2>4
    <3>2. /\ msg[w].report \in Reports /\ reports[msg[w].report] # Absent
          /\ reports[msg[w].report].at = msg[w].copy.at
      BY <1>0, <3>1, Holds DEF Living, AllInBounds
    <3> QED
      BY <1>0, <2>1, <3>1, <3>2, Untouched
  <2> QED
    BY <1>0, <2>3, <2>4 DEF Living, AllInBounds
<1>3. ASSUME NEW w \in Workers, NEW r \in Reports, NEW v \in Voters,
             NEW a \in Answers, ReadReport(w, r, v, a)
      PROVE  Living'
  <2>1. /\ msg'[w].report = r /\ msg'[w].copy = reports[r] /\ msg'[w].at = now
        /\ \A u \in Workers \ {w} : msg'[u] = msg[u]
        /\ UNCHANGED <<now, reports, votes>> /\ reports[r] # Absent
    BY <1>0, <1>3, ReadMsg
  <2>2. \A q \in Reports : reports'[q] # Absent => InBounds(reports[q])'
    BY <1>0, <2>1, Untouched
  <2>3. /\ InBounds(msg[w].copy)' /\ msg'[w].at <= now'
        /\ reports'[msg'[w].report] # Absent
        /\ reports'[msg'[w].report].at = msg'[w].copy.at
    BY <1>0, <2>1, <2>2 DEF InBounds
  <2>4. \A u \in Workers \ {w} : msg'[u].busy =>
           /\ InBounds(msg[u].copy)' /\ msg'[u].at <= now'
           /\ reports'[msg'[u].report] # Absent
           /\ reports'[msg'[u].report].at = msg'[u].copy.at
    BY <1>0, <2>1, Untouched DEF Living, AllInBounds
  <2> QED
    BY <1>0, <2>2, <2>3, <2>4 DEF Living, AllInBounds
<1>4. ASSUME NEW w \in Workers, CommitVote(w) PROVE Living'
  BY <1>4, CommitLives
<1>5. ASSUME NEW w \in Workers, Fail(w) PROVE Living'
  <2>1. /\ msg'[w] = Idle /\ UNCHANGED <<now, reports, votes>>
        /\ \A u \in Workers \ {w} : msg'[u] = msg[u]
    BY <1>0, <1>5, Failed
  <2>2. \A q \in Reports : reports'[q] # Absent => InBounds(reports[q])'
    BY <1>0, <2>1, Untouched
  <2>3. \A u \in Workers : msg'[u].busy =>
           /\ InBounds(msg[u].copy)' /\ msg'[u].at <= now'
           /\ reports'[msg'[u].report] # Absent
           /\ reports'[msg'[u].report].at = msg'[u].copy.at
    BY <1>0, <2>1, IdleNotBusy, Untouched DEF Living, AllInBounds
  <2> QED
    BY <1>0, <2>2, <2>3 DEF Living, AllInBounds
<1>6. CASE UNCHANGED vars
  BY <1>0, <1>6, Untouched DEF vars, Living, AllInBounds
<1> QED
  BY <1>1, <1>2, <1>3, <1>4, <1>5, <1>6 DEF Next

\* No vote ends a report before its first term, and none keeps it longer than a
\* confirmation made by now could.
THEOREM LifeAlwaysBounded == ASSUME ReportAssumption PROVE Spec => []LifeIsBounded
<1>1. Init => Living
  BY InitLiving
<1>2. Living /\ [Next]_vars => Living'
  BY StepLiving
<1>3. Living => LifeIsBounded
  BY DEF Living, AllInBounds, InBounds, LifeIsBounded
<1> QED
  BY <1>1, <1>2, <1>3, PTL DEF Spec

-----------------------------------------------------------------------------
(* Saved routes.                                                             *)

Named(row) == row.name \in SR!Names /\ row.alias \in Aliases
Agrees(row) == row.alias = SR!Normalized(row.name)

\* Rows are named and told apart by alias.
TableSound ==
    /\ \A r \in SR!Present : Named(routes[r])
    /\ \A r, s \in SR!Present : r # s => routes[r].alias # routes[s].alias

\* What a request in flight carries.
Sound(q) ==
    /\ q.pc = "insert" => Named(q.new) /\ Agrees(q.new)
    /\ q.pc = "update" => q.id \in used /\ Named(q.copy) /\ Named(q.new)

Untangled == SR!Present \ tangled

\* Of an untangled route the copies agree with themselves, and the copy that
\* is being renamed with the row as well.
Faithful(q) ==
    q.pc = "update" /\ q.id \in Untangled =>
      /\ Agrees(q.copy) /\ Agrees(q.new)
      /\ q.new.name # q.copy.name =>
           /\ routes[q.id].name = q.copy.name
           /\ routes[q.id].alias = q.copy.alias

Renames(q, r) == q.pc = "update" /\ q.id = r /\ q.new.name # q.copy.name

OneRename ==
    \A r \in Untangled : \A v, w \in Workers :
        v # w => ~(Renames(req[v], r) /\ Renames(req[w], r))

\* The inductive invariant.
Naming ==
    /\ SR!TypeOK
    /\ TableSound
    /\ \A r \in Untangled : Agrees(routes[r])
    /\ \A w \in Workers : Sound(req[w]) /\ Faithful(req[w])
    /\ OneRename

-----------------------------------------------------------------------------
(* Rows and requests.                                                      *)

LEMMA IdleLocal ==
    /\ SR!Absent \in SR!Rows /\ SR!Idle \in SR!Locals
    /\ SR!Idle.pc = "idle" /\ SR!Absent.name = None
BY DEF SR!Absent, SR!Rows, SR!Idle, SR!Locals

LEMMA NamedIsThere ==
    ASSUME SR!RouteAssumption, NEW row, Named(row)
    PROVE  row # SR!Absent
BY IdleLocal DEF SR!RouteAssumption, Named, SR!Names

LEMMA NormalizedIsAlias ==
    ASSUME NEW name \in SR!Names
    PROVE  SR!Normalized(name) \in Aliases
BY DEF SR!Names, SR!Normalized

\* The row a name makes.
LEMMA NewRoute ==
    ASSUME NEW name \in SR!Names, NEW sms \in BOOLEAN, NEW row,
           row = [name |-> name, alias |-> SR!Normalized(name), sms |-> sms]
    PROVE  row \in SR!Rows /\ Named(row) /\ Agrees(row)
BY NormalizedIsAlias DEF SR!Rows, Named, Agrees

LEMMA RenamedRow ==
    ASSUME NEW old \in SR!Rows, NEW name \in SR!Names, NEW row,
           row = [old EXCEPT !.name = name, !.alias = SR!Normalized(name)]
    PROVE  row \in SR!Rows /\ Named(row) /\ Agrees(row)
<1>1. row = [name |-> name, alias |-> SR!Normalized(name), sms |-> old.sms]
  BY DEF SR!Rows
<1>2. old.sms \in BOOLEAN
  BY DEF SR!Rows
<1> QED
  BY <1>1, <1>2, NewRoute

LEMMA EditedRow ==
    ASSUME NEW old \in SR!Rows, NEW sms \in BOOLEAN, NEW row,
           row = [old EXCEPT !.sms = sms]
    PROVE  row \in SR!Rows /\ row.name = old.name /\ row.alias = old.alias
BY DEF SR!Rows

\* A save keeps a column or writes it.
LEMMA SavedRoute ==
    ASSUME NEW stored \in SR!Rows, NEW old \in SR!Rows, NEW new \in SR!Rows,
           NEW row, row = SR!Saved(stored, old, new)
    PROVE  /\ row \in SR!Rows
           /\ row.name = IF new.name = old.name THEN stored.name ELSE new.name
           /\ row.alias = IF new.alias = old.alias THEN stored.alias ELSE new.alias
<1>1. row = [name |-> IF new.name = old.name THEN stored.name ELSE new.name,
             alias |-> IF new.alias = old.alias THEN stored.alias ELSE new.alias,
             sms |-> IF new.sms = old.sms THEN stored.sms ELSE new.sms]
  BY DEF SR!Saved
<1>2. /\ stored.name \in SR!Names \cup {None} /\ new.name \in SR!Names \cup {None}
      /\ stored.alias \in Aliases \cup {None} /\ new.alias \in Aliases \cup {None}
      /\ stored.sms \in BOOLEAN /\ new.sms \in BOOLEAN
  BY DEF SR!Rows
<1>3. (IF new.sms = old.sms THEN stored.sms ELSE new.sms) \in BOOLEAN
  BY <1>2
<1>4. /\ (IF new.name = old.name THEN stored.name ELSE new.name)
           \in SR!Names \cup {None}
      /\ (IF new.alias = old.alias THEN stored.alias ELSE new.alias)
           \in Aliases \cup {None}
  BY <1>2
<1>5. row \in SR!Rows
  BY <1>1, <1>3, <1>4 DEF SR!Rows
<1> QED
  BY <1>1, <1>5

LEMMA LocalFields ==
    ASSUME SR!TypeOK, NEW w \in Workers
    PROVE  /\ req[w] \in SR!Locals
           /\ req[w].copy \in SR!Rows /\ req[w].new \in SR!Rows
           /\ req[w].id \in Ids \cup {None}
BY DEF SR!TypeOK, SR!Locals

-----------------------------------------------------------------------------
(* The steps, in two shapes.                                               *)

\* A request moves and the table stands still.
LEMMA RequestKeeps ==
    ASSUME Naming, NEW w \in Workers, NEW q \in SR!Locals,
           req' = [req EXCEPT ![w] = q], UNCHANGED <<routes, used>>,
           tangled \subseteq tangled', tangled' \subseteq Ids,
           Sound(q), Faithful(q),
           \A r \in SR!Present \ tangled' : Renames(q, r) =>
               \A v \in Workers \ {w} : ~Renames(req[v], r)
    PROVE  Naming'
<1>1. SR!TypeOK'
  BY DEF Naming, SR!TypeOK, SR!Present
<1>2. TableSound' /\ SR!Present' = SR!Present
  BY DEF Naming, TableSound, SR!Present
<1>3. Untangled' \subseteq Untangled
  BY <1>2 DEF Untangled
<1>4. \A r \in Untangled' : Agrees(routes'[r])
  BY <1>3 DEF Naming
<1>5. \A v \in Workers : req'[v] = IF v = w THEN q ELSE req[v]
  BY DEF Naming, SR!TypeOK
<1>6. \A v \in Workers : Sound(req[v])' /\ Faithful(req[v])'
  <2> SUFFICES ASSUME NEW v \in Workers
               PROVE  Sound(req[v])' /\ Faithful(req[v])'
    OBVIOUS
  <2>1. PICK p : p = req'[v] /\ Sound(p) /\ Faithful(p)
    BY <1>5 DEF Naming
  <2> QED
    BY <2>1, <1>3 DEF Sound, Faithful
<1>7. OneRename'
  <2> SUFFICES ASSUME NEW r \in Untangled', NEW u \in Workers, NEW v \in Workers,
                      u # v, Renames(req'[u], r), Renames(req'[v], r)
               PROVE  FALSE
    BY DEF OneRename, Renames
  <2>1. r \in SR!Present \ tangled' /\ r \in Untangled
    BY <1>2, <1>3 DEF Untangled
  <2>2. CASE u = w
    BY <2>1, <2>2, <1>5
  <2>3. CASE v = w
    BY <2>1, <2>3, <1>5
  <2>4. CASE u # w /\ v # w
    BY <2>1, <2>4, <1>5 DEF Naming, OneRename
  <2> QED
    BY <2>2, <2>3, <2>4
<1> QED
  BY <1>1, <1>2, <1>4, <1>6, <1>7 DEF Naming

\* A request ends having written row k.
LEMMA WriteKeeps ==
    ASSUME SR!RouteAssumption, Naming, NEW w \in Workers, NEW k \in Ids, NEW row \in SR!Rows,
           req' = [req EXCEPT ![w] = SR!Idle],
           routes' = [routes EXCEPT ![k] = row], Named(row),
           \A s \in SR!Present \ {k} : routes[s].alias # row.alias,
           used \subseteq used', used' \subseteq Ids, k \in used', tangled' = tangled,
           k \in SR!Present \/ k \notin used,
           k \notin tangled' => Agrees(row),
           k \in Untangled =>
               \/ row.name = routes[k].name /\ row.alias = routes[k].alias
               \/ Renames(req[w], k)
    PROVE  Naming'
<1>1. \A s \in Ids : routes'[s] = IF s = k THEN row ELSE routes[s]
  BY DEF Naming, SR!TypeOK
<1>2. row # SR!Absent
  BY NamedIsThere
<1>3. SR!Present' = SR!Present \cup {k}
  BY <1>1, <1>2 DEF SR!Present
<1>4. SR!TypeOK'
  BY <1>3, IdleLocal DEF Naming, SR!TypeOK
<1>5. TableSound'
  <2>1. \A r \in SR!Present' : Named(routes'[r])
    BY <1>1, <1>3 DEF Naming, TableSound, SR!Present
  <2>2. ASSUME NEW r \in SR!Present', NEW s \in SR!Present', r # s
        PROVE  routes'[r].alias # routes'[s].alias
    BY <2>2, <1>1, <1>3 DEF Naming, TableSound, SR!Present
  <2> QED
    BY <2>1, <2>2 DEF TableSound, Named
<1>6. \A r \in Untangled' : r = k \/ r \in Untangled
  BY <1>3 DEF Untangled
<1>7. \A r \in Untangled' : Agrees(routes'[r])
  BY <1>1, <1>6 DEF Untangled, SR!Present, Naming
<1>8. \A v \in Workers : req'[v] = IF v = w THEN SR!Idle ELSE req[v]
  BY DEF Naming, SR!TypeOK
<1>9. \A v \in Workers : Sound(req[v])' /\ Faithful(req[v])'
  <2> SUFFICES ASSUME NEW v \in Workers
               PROVE  Sound(req[v])' /\ Faithful(req[v])'
    OBVIOUS
  <2>1. CASE v = w
    BY <2>1, <1>8, IdleLocal DEF Sound, Faithful
  <2>2. CASE v # w
    <3>1. req'[v] = req[v] /\ Sound(req[v]) /\ Faithful(req[v])
      BY <2>2, <1>8 DEF Naming
    <3>2. Sound(req[v])'
      BY <3>1 DEF Sound
    <3> SUFFICES Faithful(req[v])'
      BY <3>2
    <3>3. CASE req[v].pc = "update" /\ req[v].id \in Untangled'
      <4>1. req[v].id \in used /\ req[v].id \in Ids
        BY <3>1, <3>3 DEF Sound, Naming, SR!TypeOK
      <4>2. req[v].id \in Untangled
        BY <3>3, <4>1, <1>3 DEF Untangled
      <4>3. CASE req[v].new.name = req[v].copy.name
        BY <3>1, <3>3, <4>2, <4>3 DEF Faithful
      <4>4. CASE req[v].id # k
        <5>1. routes'[req[v].id] = routes[req[v].id]
          BY <4>1, <4>4, <1>1
        <5> QED
          BY <3>1, <3>3, <4>2, <5>1 DEF Faithful
      <4>5. CASE req[v].id = k /\ req[v].new.name # req[v].copy.name
        <5>1. Renames(req[v], k)
          BY <3>3, <4>5 DEF Renames
        <5>2. ~Renames(req[w], k)
          BY <5>1, <4>2, <4>5, <2>2 DEF Naming, OneRename
        <5>3. routes'[k].name = routes[k].name /\ routes'[k].alias = routes[k].alias
          BY <5>2, <4>2, <4>5, <1>1
        <5> QED
          BY <5>3, <4>5, <4>2, <3>1, <3>3 DEF Faithful
      <4> QED
        BY <4>3, <4>4, <4>5
    <3>4. CASE ~(req[v].pc = "update" /\ req[v].id \in Untangled')
      BY <3>1, <3>4 DEF Faithful
    <3> QED
      BY <3>3, <3>4
  <2> QED
    BY <2>1, <2>2
<1>10. OneRename'
  <2> SUFFICES ASSUME NEW r \in Untangled', NEW u \in Workers, NEW v \in Workers,
                      u # v, Renames(req'[u], r), Renames(req'[v], r)
               PROVE  FALSE
    BY DEF OneRename, Renames
  <2>1. u # w /\ v # w
    BY <1>8, IdleLocal DEF Renames
  <2>2. req'[u] = req[u] /\ req'[v] = req[v]
    BY <2>1, <1>8
  <2>3. r \in used
    BY <2>2 DEF Renames, Naming, Sound
  <2>4. r \in Untangled
    BY <2>3, <1>6 DEF Untangled
  <2> QED
    BY <2>2, <2>4 DEF Naming, OneRename
<1> QED
  BY <1>4, <1>5, <1>7, <1>9, <1>10 DEF Naming

\* A request ends having deleted row k.
LEMMA DeleteKeeps ==
    ASSUME Naming, NEW w \in Workers, SR!Delete(w)
    PROVE  Naming'
<1>1. PICK k : k = req[w].id
  OBVIOUS
<1>2. /\ req' = [req EXCEPT ![w] = SR!Idle]
      /\ routes' = [routes EXCEPT ![k] = SR!Absent]
      /\ used' = used /\ tangled' = tangled \ {k}
  BY <1>1 DEF SR!Delete, SR!Done
<1>3. \A s \in Ids : routes'[s] = IF s = k THEN SR!Absent ELSE routes[s]
  BY <1>2 DEF Naming, SR!TypeOK
<1>4. SR!Present' = SR!Present \ {k}
  BY <1>3 DEF SR!Present
<1>5. SR!TypeOK'
  BY <1>2, <1>4, IdleLocal DEF Naming, SR!TypeOK
<1>6. Untangled' \subseteq Untangled
  BY <1>2, <1>4 DEF Untangled
<1>7. \A r \in SR!Present' : r \in SR!Present /\ routes'[r] = routes[r]
  BY <1>3, <1>4 DEF SR!Present
<1>8. TableSound' /\ \A r \in Untangled' : Agrees(routes'[r])
  BY <1>6, <1>7 DEF Naming, TableSound, Named, Untangled
<1>9. \A v \in Workers : req'[v] = IF v = w THEN SR!Idle ELSE req[v]
  BY <1>2 DEF Naming, SR!TypeOK
<1>10. \A v \in Workers : Sound(req[v])' /\ Faithful(req[v])'
  <2> SUFFICES ASSUME NEW v \in Workers
               PROVE  Sound(req[v])' /\ Faithful(req[v])'
    OBVIOUS
  <2>1. CASE v = w
    BY <2>1, <1>9, IdleLocal DEF Sound, Faithful
  <2>2. CASE v # w
    <3>1. req'[v] = req[v] /\ Sound(req[v]) /\ Faithful(req[v])
      BY <2>2, <1>9 DEF Naming
    <3>2. Sound(req[v])'
      BY <3>1, <1>2 DEF Sound
    <3>3. Faithful(req[v])'
      BY <3>1, <1>6, <1>7 DEF Faithful, Untangled
    <3> QED
      BY <3>2, <3>3
  <2> QED
    BY <2>1, <2>2
<1>11. OneRename'
  BY <1>6, <1>9, IdleLocal DEF Naming, OneRename, Renames
<1> QED
  BY <1>5, <1>8, <1>10, <1>11 DEF Naming

-----------------------------------------------------------------------------
(* The actions.                                                            *)

\* A request on a route that is there takes a copy, and renames it unless the
\* new name is the copy's.
LEMMA BeginUpdateKeeps ==
    ASSUME Naming, NEW w \in Workers, NEW r \in SR!Present, NEW new \in SR!Rows,
           SR!Begin(w, "update", r, new), UNCHANGED <<routes, used>>, Named(new),
           r \notin tangled => Agrees(new),
           tangled \subseteq tangled', tangled' \subseteq Ids,
           new.name # routes[r].name => r \in tangled'
                \/ \A v \in Workers : ~Renames(req[v], r)
    PROVE  Naming'
<1>1. routes[r] \in SR!Rows /\ r \in Ids /\ r \in used /\ Named(routes[r])
  BY DEF Naming, SR!TypeOK, TableSound, SR!Present
<1>2. PICK q : q = [pc |-> "update", id |-> r, new |-> new, copy |-> routes[r]]
  OBVIOUS
<1>3. req' = [req EXCEPT ![w] = q]
  BY <1>2 DEF SR!Begin
<1>4. q \in SR!Locals
  BY <1>1, <1>2 DEF SR!Locals
<1>5. Sound(q)
  BY <1>1, <1>2 DEF Sound
<1>6. Faithful(q)
  BY <1>1, <1>2 DEF Faithful, Naming, Untangled
<1>7. \A s \in SR!Present \ tangled' : Renames(q, s) =>
          \A v \in Workers \ {w} : ~Renames(req[v], s)
  BY <1>2 DEF Renames
<1> QED
  BY <1>3, <1>4, <1>5, <1>6, <1>7, RequestKeeps

\* A request that takes no copy.
LEMMA BeginOtherKeeps ==
    ASSUME Naming, NEW w \in Workers, NEW pc \in {"insert", "delete"},
           NEW r \in Ids \cup {None}, NEW new \in SR!Rows,
           SR!Begin(w, pc, r, new), UNCHANGED <<routes, used, tangled>>,
           pc = "insert" => Named(new) /\ Agrees(new)
    PROVE  Naming'
<1>1. PICK q : q = [pc |-> pc, id |-> r, new |-> new, copy |-> SR!Absent]
  OBVIOUS
<1>2. req' = [req EXCEPT ![w] = q]
  BY <1>1 DEF SR!Begin
<1>3. q \in SR!Locals
  BY <1>1, IdleLocal DEF SR!Locals
<1>4. Sound(q) /\ Faithful(q) /\ \A s : ~Renames(q, s)
  BY <1>1 DEF Sound, Faithful, Renames
<1>5. tangled' \subseteq Ids
  BY DEF Naming, SR!TypeOK
<1> QED
  BY <1>2, <1>3, <1>4, <1>5, RequestKeeps

LEMMA CreateKeeps ==
    ASSUME Naming, NEW w \in Workers, NEW name \in SR!Names, NEW sms \in BOOLEAN,
           SR!Create(w, name, sms)
    PROVE  Naming'
<1>1. PICK new : new = [name |-> name, alias |-> SR!Normalized(name), sms |-> sms]
  OBVIOUS
<1>2. new \in SR!Rows /\ Named(new) /\ Agrees(new)
  BY <1>1, NewRoute
<1>3. SR!Begin(w, "insert", None, new) /\ UNCHANGED <<routes, used, tangled>>
  BY <1>1 DEF SR!Create
<1> QED
  BY <1>2, <1>3, BeginOtherKeeps

LEMMA RenameKeeps ==
    ASSUME Naming, NEW w \in Workers, NEW r \in Ids, NEW name \in SR!Names,
           SR!Rename(w, r, name)
    PROVE  Naming'
<1>1. PICK new : new = [routes[r] EXCEPT !.name = name, !.alias = SR!Normalized(name)]
  OBVIOUS
<1>2. routes[r] \in SR!Rows
  BY DEF Naming, SR!TypeOK
<1>3. new \in SR!Rows /\ Named(new) /\ Agrees(new)
  BY <1>1, <1>2, RenamedRow
<1>4. r \in SR!Present /\ SR!Begin(w, "update", r, new) /\ UNCHANGED <<routes, used>>
  BY <1>1 DEF SR!Rename
<1>5. tangled' = IF \E v \in Workers : Renames(req[v], r)
                 THEN tangled \cup {r} ELSE tangled
  BY DEF SR!Rename, SR!Renaming, Renames
<1>6. tangled \subseteq tangled' /\ tangled' \subseteq Ids
  BY <1>5 DEF Naming, SR!TypeOK
<1> QED
  BY <1>3, <1>4, <1>5, <1>6, BeginUpdateKeeps

LEMMA EditKeeps ==
    ASSUME Naming, NEW w \in Workers, NEW r \in Ids, NEW sms \in BOOLEAN,
           SR!Edit(w, r, sms)
    PROVE  Naming'
<1>1. PICK new : new = [routes[r] EXCEPT !.sms = sms]
  OBVIOUS
<1>2. /\ r \in SR!Present /\ SR!Begin(w, "update", r, new)
      /\ UNCHANGED <<routes, used, tangled>>
  BY <1>1 DEF SR!Edit
<1>3. /\ routes[r] \in SR!Rows /\ Named(routes[r])
      /\ r \notin tangled => Agrees(routes[r])
  BY <1>2 DEF Naming, SR!TypeOK, TableSound, Untangled
<1>4. new \in SR!Rows /\ new.name = routes[r].name /\ new.alias = routes[r].alias
  BY <1>1, <1>3, EditedRow
<1>5. Named(new) /\ (r \notin tangled => Agrees(new))
  BY <1>3, <1>4 DEF Named, Agrees
<1>6. tangled' \subseteq Ids
  BY <1>2 DEF Naming, SR!TypeOK
<1> QED
  BY <1>2, <1>4, <1>5, <1>6, BeginUpdateKeeps

LEMMA UseKeeps ==
    ASSUME Naming, NEW w \in Workers, NEW r \in SR!Present,
           SR!Begin(w, "update", r, routes[r]), UNCHANGED <<routes, used, tangled>>
    PROVE  Naming'
<1>1. /\ routes[r] \in SR!Rows /\ Named(routes[r])
      /\ r \notin tangled => Agrees(routes[r])
      /\ tangled' \subseteq Ids
  BY DEF Naming, SR!TypeOK, TableSound, Untangled, SR!Present
<1> QED
  BY <1>1, BeginUpdateKeeps

LEMMA BeginDeleteKeeps ==
    ASSUME Naming, NEW w \in Workers, NEW r \in SR!Present,
           SR!Begin(w, "delete", r, SR!Absent), UNCHANGED <<routes, used, tangled>>
    PROVE  Naming'
<1>1. r \in Ids
  BY DEF SR!Present
<1> QED
  BY <1>1, IdleLocal, BeginOtherKeeps

LEMMA InsertKeeps ==
    ASSUME SR!RouteAssumption, Naming, NEW w \in Workers, SR!Insert(w)
    PROVE  Naming'
<1>1. PICK r \in Ids \ used :
        /\ SR!Unique(r, req[w].new.alias)
        /\ routes' = [routes EXCEPT ![r] = req[w].new]
        /\ used' = used \cup {r}
  BY DEF SR!Insert
<1>2. PICK row : row = req[w].new
  OBVIOUS
<1>3. row \in SR!Rows
  BY <1>2, LocalFields DEF Naming
<1>4. Named(row) /\ Agrees(row)
  BY <1>2 DEF SR!Insert, Naming, Sound
<1>5. r \notin Untangled
  BY <1>1 DEF Naming, SR!TypeOK, Untangled
<1>6. /\ req' = [req EXCEPT ![w] = SR!Idle] /\ tangled' = tangled
      /\ used \subseteq used' /\ used' \subseteq Ids /\ r \in used'
  BY <1>1 DEF SR!Insert, SR!Done, Naming, SR!TypeOK
<1> QED
  BY <1>1, <1>2, <1>3, <1>4, <1>5, <1>6, WriteKeeps DEF SR!Unique

LEMMA UpdateKeeps ==
    ASSUME SR!RouteAssumption, Naming, NEW w \in Workers, SR!Update(w)
    PROVE  Naming'
<1>1. PICK q : q = req[w]
  OBVIOUS
<1>2. PICK k : k = q.id
  OBVIOUS
<1>3. PICK row : row = SR!Saved(routes[k], q.copy, q.new)
  OBVIOUS
<1>4. /\ q.pc = "update" /\ k \in SR!Present /\ k \in Ids
      /\ SR!Unique(k, row.alias)
      /\ routes' = [routes EXCEPT ![k] = row]
      /\ req' = [req EXCEPT ![w] = SR!Idle]
      /\ used' = used /\ tangled' = tangled
  BY <1>1, <1>2, <1>3 DEF SR!Update, SR!Done, SR!Present
<1>5. /\ routes[k] \in SR!Rows /\ Named(routes[k])
      /\ q.copy \in SR!Rows /\ q.new \in SR!Rows
      /\ Sound(q) /\ Faithful(q)
  BY <1>1, <1>4, LocalFields DEF Naming, SR!TypeOK, TableSound
<1>6. /\ row \in SR!Rows
      /\ row.name = IF q.new.name = q.copy.name THEN routes[k].name ELSE q.new.name
      /\ row.alias = IF q.new.alias = q.copy.alias
                     THEN routes[k].alias ELSE q.new.alias
  BY <1>3, <1>5, SavedRoute
<1>7. Named(row)
  BY <1>4, <1>5, <1>6 DEF Named, Sound
<1>8. ASSUME k \notin tangled
      PROVE  /\ Agrees(row)
             /\ \/ row.name = routes[k].name /\ row.alias = routes[k].alias
                \/ Renames(req[w], k)
  <2>1. k \in Untangled /\ Agrees(routes[k])
    BY <1>8, <1>4 DEF Untangled, Naming
  <2>2. CASE q.new.name = q.copy.name
    <3>1. q.new.alias = q.copy.alias
      BY <2>1, <2>2, <1>2, <1>4, <1>5 DEF Faithful, Agrees
    <3> QED
      BY <3>1, <2>1, <2>2, <1>6 DEF Agrees
  <2>3. CASE q.new.name # q.copy.name
    <3>1. Renames(req[w], k)
      BY <2>3, <1>1, <1>2, <1>4 DEF Renames
    <3>2. Agrees(q.new) /\ routes[k].alias = q.copy.alias
      BY <2>1, <2>3, <1>2, <1>4, <1>5 DEF Faithful
    <3> QED
      BY <3>1, <3>2, <2>3, <1>6 DEF Agrees
  <2> QED
    BY <2>2, <2>3
<1>9. used' \subseteq Ids /\ k \in used'
  BY <1>4 DEF Naming, SR!TypeOK
<1>10. k \in Untangled => k \notin tangled
  BY DEF Untangled
<1> QED
  BY <1>4, <1>6, <1>7, <1>8, <1>9, <1>10, WriteKeeps DEF SR!Unique

LEMMA FailKeeps ==
    ASSUME Naming, NEW w \in Workers, SR!Fail(w)
    PROVE  Naming'
<1>1. Sound(SR!Idle) /\ Faithful(SR!Idle) /\ \A r : ~Renames(SR!Idle, r)
  BY IdleLocal DEF Sound, Faithful, Renames
<1>2. tangled' \subseteq Ids
  BY DEF SR!Fail, Naming, SR!TypeOK
<1> QED
  BY <1>1, <1>2, IdleLocal, RequestKeeps DEF SR!Fail, SR!Done

-----------------------------------------------------------------------------
(* The theorems.                                                           *)

LEMMA InitNaming ==
    ASSUME SR!Init
    PROVE  Naming
<1>1. SR!Present = {}
  BY DEF SR!Init, SR!Present
<1>2. SR!TypeOK
  BY <1>1, IdleLocal DEF SR!Init, SR!TypeOK
<1>3. \A w \in Workers : req[w] = SR!Idle
  BY DEF SR!Init
<1> QED
  BY <1>1, <1>2, <1>3, IdleLocal
  DEF Naming, TableSound, Untangled, Sound, Faithful, OneRename

LEMMA StepNaming ==
    ASSUME SR!RouteAssumption, Naming, [SR!Next]_SR!vars
    PROVE  Naming'
<1>1. CASE UNCHANGED SR!vars
  BY <1>1 DEF SR!vars, Naming, SR!TypeOK, TableSound, Untangled, SR!Present, Sound,
              Faithful, OneRename, Renames
<1>2. ASSUME NEW w \in Workers, NEW name \in SR!Names, NEW sms \in BOOLEAN,
             SR!Create(w, name, sms)
      PROVE  Naming'
  BY <1>2, CreateKeeps
<1>3. ASSUME NEW w \in Workers, NEW r \in Ids, NEW name \in SR!Names,
             SR!Rename(w, r, name)
      PROVE  Naming'
  BY <1>3, RenameKeeps
<1>4. ASSUME NEW w \in Workers, NEW r \in Ids, NEW sms \in BOOLEAN, SR!Edit(w, r, sms)
      PROVE  Naming'
  BY <1>4, EditKeeps
<1>5. ASSUME NEW w \in Workers, NEW r \in Ids, SR!DeleteById(w, r)
      PROVE  Naming'
  BY <1>5, BeginDeleteKeeps DEF SR!DeleteById
<1>6. ASSUME NEW w \in Workers, NEW alias \in Aliases, SR!DeleteByAlias(w, alias)
      PROVE  Naming'
  BY <1>6, BeginDeleteKeeps DEF SR!DeleteByAlias, SR!ByAlias
<1>7. ASSUME NEW w \in Workers, NEW alias \in Aliases, SR!UseBySms(w, alias)
      PROVE  Naming'
  BY <1>7, UseKeeps DEF SR!UseBySms, SR!ByAlias
<1>8. ASSUME NEW w \in Workers, NEW r \in Ids, SR!UseOnWeb(w, r)
      PROVE  Naming'
  BY <1>8, UseKeeps DEF SR!UseOnWeb
<1>9. ASSUME NEW w \in Workers, SR!Insert(w) \/ SR!Update(w) \/ SR!Delete(w) \/ SR!Fail(w)
      PROVE  Naming'
  BY <1>9, InsertKeeps, UpdateKeeps, DeleteKeeps, FailKeeps
<1> QED
  BY <1>1, <1>2, <1>3, <1>4, <1>5, <1>6, <1>7, <1>8, <1>9 DEF SR!Next

LEMMA NamingHolds ==
    ASSUME SR!RouteAssumption
    PROVE  SR!Spec => []Naming
<1>1. SR!Init => Naming
  BY InitNaming
<1>2. Naming /\ [SR!Next]_SR!vars => Naming'
  BY StepNaming
<1> QED
  BY <1>1, <1>2, PTL DEF SR!Spec

LEMMA NamingWorks ==
    ASSUME Naming
    PROVE  SR!ListedNameWorks
<1> SUFFICES ASSUME NEW r \in SR!Listed \ tangled
             PROVE  SR!ByAlias(SR!Normalized(routes[r].name), TRUE) = {r}
  BY DEF SR!ListedNameWorks
<1>1. r \in SR!Present /\ routes[r].sms /\ Agrees(routes[r])
  BY DEF SR!Listed, Naming, Untangled
<1>2. \A s \in SR!Present : s # r => routes[s].alias # routes[r].alias
  BY <1>1 DEF Naming, TableSound
<1> QED
  BY <1>1, <1>2 DEF SR!ByAlias, Agrees

\* Rows, keys and requests keep their types; a stored route has a used key
\* (saved_route_service.py, models/saved_route.py).
THEOREM RoutesTyped ==
    ASSUME SR!RouteAssumption
    PROVE  SR!Spec => []SR!TypeOK
<1>1. Naming => SR!TypeOK
  BY DEF Naming
<1> QED
  BY <1>1, NamingHolds, PTL

\* A listed name finds its own route and no other, however many requests of
\* however many workers overlap, unless two renames of that route did
\* (handle_list_routes, get_by_alias, _ensure_alias_available).
THEOREM ListedNameAlwaysWorks ==
    ASSUME SR!RouteAssumption
    PROVE  SR!Spec => []SR!ListedNameWorks
<1>1. Naming => SR!ListedNameWorks
  BY NamingWorks
<1> QED
  BY <1>1, NamingHolds, PTL

-----------------------------------------------------------------------------
(* Conversation memory.                                                      *)

\* A thing that a state remembers of phone p was named by p, and the state does
\* not outlive that, or the last follow-up about it, by more than its lifetime.
Recalled(s, p) ==
    \A x \in {s.highway, s.destination} \ {None} :
        /\ named[p][x] <= clock
        /\ \/ s.expires <= named[p][x] + Ttl
           \/ followed[p][x] <= clock /\ s.expires <= followed[p][x] + Ttl
AllRecalled == \A w \in Workers, p \in Phones : Recalled(memory[w][p], p)

\* The inductive invariant.
Remembered == CM!TypeOK /\ AllRecalled

LEMMA InitRemembered ==
    ASSUME CM!MemoryAssumption
    PROVE  CM!Init => Remembered
<1>1. CM!NoState \in CM!States /\ CM!NoState.highway = None /\ CM!NoState.destination = None
  BY DEF CM!NoState, CM!States
<1>2. CM!Never \in Nat
  BY DEF CM!MemoryAssumption, CM!Never
<1> QED
  BY <1>1, <1>2 DEF CM!Init, Remembered, CM!TypeOK, AllRecalled, Recalled, CM!Replies

\* A phone's state and what is remembered in it.
LEMMA Fields ==
    ASSUME Remembered, NEW w \in Workers, NEW p \in Phones
    PROVE  /\ memory[w][p] \in CM!States /\ memory[w][p].expires \in Nat
           /\ memory[w][p].highway \in Highways \cup {None}
           /\ memory[w][p].destination \in Places \cup {None}
           /\ Recalled(memory[w][p], p)
           /\ \A x \in CM!Things : named[p][x] \in Nat /\ followed[p][x] \in Nat
BY DEF Remembered, CM!TypeOK, AllRecalled, CM!States

\* Time t is within a lifetime of now.
WithinLife(t) == t <= clock /\ clock < t + Ttl

\* What Get finds was named by this phone, and it was named or followed up a
\* lifetime ago at most.
LEMMA GetIsRecent ==
    ASSUME CM!MemoryAssumption, Remembered, NEW w \in Workers, NEW p \in Phones,
           NEW x \in {CM!Get(w, p).highway, CM!Get(w, p).destination}, x # None
    PROVE  /\ x \in CM!Things /\ named[p][x] <= clock
           /\ WithinLife(named[p][x]) \/ WithinLife(followed[p][x])
<1>1. CM!NoState.highway = None /\ CM!NoState.destination = None
  BY DEF CM!NoState
<1>2. CM!Get(w, p) = memory[w][p] /\ ~(memory[w][p].expires <= clock)
  BY <1>1 DEF CM!Get
<1>3. x \in CM!Things
  BY <1>2, Fields DEF CM!Things
<1>4. /\ named[p][x] \in Nat /\ followed[p][x] \in Nat
      /\ memory[w][p].expires \in Nat /\ clock \in Nat /\ Ttl \in Nat
  BY <1>3, Fields DEF Remembered, CM!TypeOK, CM!MemoryAssumption
<1>5. /\ named[p][x] <= clock
      /\ \/ memory[w][p].expires <= named[p][x] + Ttl
         \/ followed[p][x] <= clock /\ memory[w][p].expires <= followed[p][x] + Ttl
  BY <1>2, Fields DEF Recalled
<1> QED
  BY <1>2, <1>3, <1>4, <1>5 DEF WithinLife

\* What Noted changes in a history.
LEMMA NotedThings ==
    ASSUME Remembered, NEW p \in Phones, NEW xs,
           NEW f \in [Phones -> [CM!Things -> Nat]], NEW g, g = CM!Noted(f, p, xs)
    PROVE  /\ g \in [Phones -> [CM!Things -> Nat]]
           /\ \A q \in Phones, y \in CM!Things : g[q][y] \in {f[q][y], clock}
           /\ \A y \in CM!Things \cap xs : g[p][y] = clock
BY DEF CM!Noted, Remembered, CM!TypeOK

\* A message is recorded with things that were named, some by it, or that it
\* follows up; the histories only move on to the present.
LEMMA RecordKeeps ==
    ASSUME CM!MemoryAssumption, Remembered, NEW w \in Workers, NEW p \in Phones,
           NEW h \in Highways \cup {None}, NEW d \in Places \cup {None},
           CM!Record(w, p, h, d), reply' \in CM!Replies, clock' = clock,
           named' \in [Phones -> [CM!Things -> Nat]],
           followed' \in [Phones -> [CM!Things -> Nat]],
           \A q \in Phones, y \in CM!Things :
              named'[q][y] \in {named[q][y], clock},
           \A q \in Phones, y \in CM!Things :
              followed'[q][y] \in {followed[q][y], clock},
           \A y \in {h, d} \ {None} :
              /\ named'[p][y] <= clock
              /\ named'[p][y] = clock \/ followed'[p][y] = clock
    PROVE  Remembered'
<1>1. clock \in Nat /\ Ttl \in Nat
  BY DEF Remembered, CM!TypeOK, CM!MemoryAssumption
<1>2. PICK s : s = [highway |-> h, destination |-> d, expires |-> clock + Ttl]
  OBVIOUS
<1>3. /\ s \in CM!States /\ s.highway = h /\ s.destination = d
      /\ s.expires = clock + Ttl
  BY <1>1, <1>2 DEF CM!States
<1>4. memory' = [memory EXCEPT ![w][p] = s]
  BY <1>2 DEF CM!Record
<1>5. ASSUME NEW v \in Workers, NEW q \in Phones
      PROVE  memory'[v][q] = IF v = w /\ q = p THEN s ELSE memory[v][q]
  BY <1>4 DEF Remembered, CM!TypeOK
<1>6. CM!TypeOK'
  <2>1. memory' \in [Workers -> [Phones -> CM!States]]
    BY <1>3, <1>4 DEF Remembered, CM!TypeOK
  <2> QED
    BY <1>1, <2>1 DEF CM!TypeOK
<1>7. ASSUME NEW v \in Workers, NEW q \in Phones PROVE Recalled(memory[v][q], q)'
  <2>1. CASE v = w /\ q = p
    <3> DEFINE e == memory'[v][q]
    <3>1. e = s
      BY <1>5, <2>1
    <3> SUFFICES ASSUME NEW y \in {e.highway, e.destination} \ {None}
                 PROVE  /\ named'[q][y] <= clock'
                        /\ \/ e.expires <= named'[q][y] + Ttl
                           \/ followed'[q][y] <= clock' /\ e.expires <= followed'[q][y] + Ttl
      BY DEF Recalled
    <3>2. y \in {h, d} \ {None} /\ e.expires = clock + Ttl
      BY <3>1, <1>3
    <3>3. named'[q][y] <= clock
      BY <3>2, <2>1
    <3>4. CASE named'[q][y] = clock
      BY <3>2, <3>3, <3>4, <1>1
    <3>5. CASE followed'[q][y] = clock
      BY <3>2, <3>3, <3>5, <1>1
    <3> QED
      BY <3>2, <3>4, <3>5, <2>1
  <2>2. CASE ~(v = w /\ q = p)
    <3> DEFINE e == memory'[v][q]
    <3>1. e = memory[v][q]
      BY <1>5, <2>2
    <3> SUFFICES ASSUME NEW y \in {e.highway, e.destination} \ {None}
                 PROVE  /\ named'[q][y] <= clock'
                        /\ \/ e.expires <= named'[q][y] + Ttl
                           \/ followed'[q][y] <= clock' /\ e.expires <= followed'[q][y] + Ttl
      BY DEF Recalled
    <3>2. y \in CM!Things /\ e.expires \in Nat
      BY <3>1, Fields DEF CM!Things
    <3>3. /\ named[q][y] \in Nat /\ followed[q][y] \in Nat /\ named[q][y] <= clock
          /\ \/ e.expires <= named[q][y] + Ttl
             \/ followed[q][y] <= clock /\ e.expires <= followed[q][y] + Ttl
      BY <3>1, <3>2, Fields DEF Recalled
    <3>4. /\ named'[q][y] \in {named[q][y], clock}
          /\ followed'[q][y] \in {followed[q][y], clock}
      BY <3>2
    <3> HIDE DEF e
    <3>5. named'[q][y] <= clock' /\ named[q][y] <= named'[q][y]
      BY <1>1, <3>3, <3>4
    <3>6. CASE e.expires <= named[q][y] + Ttl
      <4>1. e.expires <= named'[q][y] + Ttl
        BY <1>1, <3>2, <3>3, <3>4, <3>5, <3>6
      <4> QED
        BY <4>1, <3>5
    <3>7. CASE followed[q][y] <= clock /\ e.expires <= followed[q][y] + Ttl
      <4>1. followed'[q][y] <= clock' /\ e.expires <= followed'[q][y] + Ttl
        BY <1>1, <3>2, <3>3, <3>4, <3>7
      <4> QED
        BY <4>1, <3>5
    <3> QED
      BY <3>3, <3>6, <3>7
  <2> QED
    BY <2>1, <2>2
<1> QED
  BY <1>6, <1>7 DEF Remembered, AllRecalled

\* Forgetting keeps the invariant.
LEMMA ForgettingKeeps ==
    ASSUME Remembered, memory' \in [Workers -> [Phones -> CM!States]],
           \A w \in Workers, p \in Phones : memory'[w][p] \in {memory[w][p], CM!NoState},
           reply' = CM!NoReply, UNCHANGED <<clock, named, followed>>
    PROVE  Remembered'
<1>1. CM!TypeOK'
  BY DEF Remembered, CM!TypeOK, CM!Replies
<1>2. ASSUME NEW w \in Workers, NEW p \in Phones PROVE Recalled(memory[w][p], p)'
  <2>1. CM!NoState.highway = None /\ CM!NoState.destination = None
    BY DEF CM!NoState
  <2>2. CASE memory'[w][p] = CM!NoState
    BY <2>1, <2>2 DEF Recalled
  <2>3. CASE memory'[w][p] = memory[w][p]
    BY <2>3, Fields DEF Recalled
  <2> QED
    BY <2>2, <2>3
<1> QED
  BY <1>1, <1>2 DEF Remembered, AllRecalled

\* A follow-up with a direction.
LEMMA DirectionKeeps ==
    ASSUME CM!MemoryAssumption, Remembered, NEW w \in Workers, NEW p \in Phones,
           CM!Direction(w, p)
    PROVE  Remembered' /\ CM!RecentReply
<1>1. PICK h : /\ h = CM!Get(w, p).highway /\ h # None /\ CM!Record(w, p, h, None)
               /\ reply' = [phone |-> p, about |-> h]
               /\ followed' = CM!Noted(followed, p, {h})
               /\ clock' = clock /\ named' = named
  BY DEF CM!Direction, CM!Answered
<1>2. /\ h \in CM!Things /\ named[p][h] <= clock
      /\ WithinLife(named[p][h]) \/ WithinLife(followed[p][h])
  BY <1>1, GetIsRecent
<1>3. h \in Highways \cup {None}
  BY <1>1, Fields DEF CM!Get, CM!NoState
<1>4. reply' \in CM!Replies
  BY <1>1, <1>2 DEF CM!Replies
<1>5. /\ named \in [Phones -> [CM!Things -> Nat]]
      /\ followed \in [Phones -> [CM!Things -> Nat]]
  BY DEF Remembered, CM!TypeOK
<1>6. /\ followed' \in [Phones -> [CM!Things -> Nat]]
      /\ \A q \in Phones, y \in CM!Things : followed'[q][y] \in {followed[q][y], clock}
      /\ followed'[p][h] = clock
  BY <1>1, <1>2, <1>5, NotedThings
<1>7. Remembered'
  BY <1>1, <1>2, <1>3, <1>4, <1>5, <1>6, RecordKeeps
<1> QED
  BY <1>1, <1>2, <1>7 DEF CM!RecentReply, WithinLife

\* A follow-up with an origin.
LEMMA FromOriginKeeps ==
    ASSUME CM!MemoryAssumption, Remembered, NEW w \in Workers, NEW p \in Phones,
           NEW h \in Highways \cup {None}, CM!FromOrigin(w, p, h)
    PROVE  Remembered' /\ CM!RecentReply
<1>1. PICK d : /\ d = CM!Get(w, p).destination /\ d # None /\ CM!Record(w, p, h, d)
               /\ reply' = [phone |-> p, about |-> d]
               /\ followed' = CM!Noted(followed, p, {d})
               /\ named' = CM!Noted(named, p, {h} \ {d}) /\ clock' = clock
  BY DEF CM!FromOrigin, CM!Answered
<1>2. /\ d \in CM!Things /\ named[p][d] <= clock
      /\ WithinLife(named[p][d]) \/ WithinLife(followed[p][d])
  BY <1>1, GetIsRecent
<1>3. d \in Places \cup {None}
  BY <1>1, Fields DEF CM!Get, CM!NoState
<1>4. reply' \in CM!Replies
  BY <1>1, <1>2 DEF CM!Replies
<1>5. /\ named \in [Phones -> [CM!Things -> Nat]] /\ clock \in Nat
      /\ followed \in [Phones -> [CM!Things -> Nat]]
  BY DEF Remembered, CM!TypeOK
<1>6. /\ followed' \in [Phones -> [CM!Things -> Nat]]
      /\ \A q \in Phones, y \in CM!Things : followed'[q][y] \in {followed[q][y], clock}
      /\ followed'[p][d] = clock
  BY <1>1, <1>2, <1>5, NotedThings
<1>7. /\ named' \in [Phones -> [CM!Things -> Nat]]
      /\ \A q \in Phones, y \in CM!Things : named'[q][y] \in {named[q][y], clock}
      /\ \A y \in CM!Things \cap ({h} \ {d}) : named'[p][y] = clock
  BY <1>1, <1>5, NotedThings
<1>8. named'[p][d] <= clock
  BY <1>2, <1>5, <1>7
<1>9. ASSUME NEW y \in {h, d} \ {None}
      PROVE  /\ named'[p][y] <= clock
             /\ named'[p][y] = clock \/ followed'[p][y] = clock
  <2>1. CASE y = d
    BY <1>6, <1>8, <2>1
  <2>2. CASE y # d
    <3>1. y \in CM!Things \cap ({h} \ {d})
      BY <2>2 DEF CM!Things
    <3> QED
      BY <3>1, <1>5, <1>7
  <2> QED
    BY <2>1, <2>2
<1>10. Remembered'
  BY <1>1, <1>3, <1>4, <1>6, <1>7, <1>9, RecordKeeps
<1>11. CM!RecentReply
  BY <1>1, <1>2 DEF CM!RecentReply, WithinLife
<1> QED
  BY <1>10, <1>11

\* A message that names what is recorded of it.
LEMMA NamingKeeps ==
    ASSUME CM!MemoryAssumption, Remembered, NEW w \in Workers, NEW p \in Phones,
           NEW h \in Highways \cup {None}, NEW d \in Places \cup {None},
           CM!TrafficCommand(w, p, h, d)
    PROVE  Remembered' /\ CM!RecentReply
<1>1. /\ CM!Record(w, p, h, d) /\ named' = CM!Noted(named, p, {h, d})
      /\ reply' = CM!NoReply /\ clock' = clock /\ followed' = followed
  BY DEF CM!TrafficCommand
<1>2. CM!NoReply \in CM!Replies
  BY DEF CM!Replies
<1>3. /\ named \in [Phones -> [CM!Things -> Nat]] /\ clock \in Nat
      /\ followed \in [Phones -> [CM!Things -> Nat]]
  BY DEF Remembered, CM!TypeOK
<1>4. /\ named' \in [Phones -> [CM!Things -> Nat]]
      /\ \A q \in Phones, y \in CM!Things : named'[q][y] \in {named[q][y], clock}
      /\ \A y \in CM!Things \cap {h, d} : named'[p][y] = clock
  BY <1>1, <1>3, NotedThings
<1>5. {h, d} \ {None} \subseteq CM!Things
  BY DEF CM!Things
<1>6. ASSUME NEW y \in {h, d} \ {None}
      PROVE  named'[p][y] <= clock /\ named'[p][y] = clock
  BY <1>3, <1>4, <1>5
<1>7. /\ \A q \in Phones, y \in CM!Things : followed'[q][y] \in {followed[q][y], clock}
      /\ followed' \in [Phones -> [CM!Things -> Nat]]
  BY <1>1, <1>3
<1>8. Remembered'
  BY <1>1, <1>2, <1>4, <1>6, <1>7, RecordKeeps
<1> QED
  BY <1>1, <1>8 DEF CM!RecentReply

LEMMA NextRemembered ==
    ASSUME CM!MemoryAssumption
    PROVE  Remembered /\ [CM!Next]_CM!vars => Remembered' /\ [CM!RecentReply]_CM!vars
<1> SUFFICES ASSUME Remembered, [CM!Next]_CM!vars
             PROVE  Remembered' /\ (CM!RecentReply \/ UNCHANGED CM!vars)
  OBVIOUS
<1>1. CASE UNCHANGED CM!vars
  BY <1>1 DEF CM!vars, Remembered, CM!TypeOK, AllRecalled, Recalled
<1>2. CASE CM!Tick
  <2>1. clock \in Nat /\ clock' = clock + 1 /\ reply' = CM!NoReply /\ UNCHANGED <<memory, named, followed>>
    BY <1>2 DEF CM!Tick, Remembered, CM!TypeOK
  <2>2. CM!TypeOK'
    BY <2>1 DEF Remembered, CM!TypeOK, CM!Replies
  <2>3. ASSUME NEW w \in Workers, NEW p \in Phones PROVE Recalled(memory[w][p], p)'
    <3> DEFINE s == memory[w][p]
    <3> SUFFICES ASSUME NEW x \in {s.highway, s.destination} \ {None}
                 PROVE  /\ named[p][x] <= clock'
                        /\ \/ s.expires <= named[p][x] + Ttl
                           \/ /\ followed[p][x] <= clock'
                              /\ s.expires <= followed[p][x] + Ttl
      BY <2>1 DEF Recalled
    <3>1. x \in CM!Things
      BY Fields DEF CM!Things
    <3>2. /\ named[p][x] \in Nat /\ followed[p][x] \in Nat /\ named[p][x] <= clock
          /\ \/ s.expires <= named[p][x] + Ttl
             \/ followed[p][x] <= clock /\ s.expires <= followed[p][x] + Ttl
      BY <3>1, Fields DEF Recalled
    <3> QED
      BY <2>1, <3>2
  <2> QED
    BY <2>1, <2>2, <2>3 DEF Remembered, AllRecalled, CM!RecentReply
<1>3. CASE \E w \in Workers : CM!Restart(w) \/ \E p \in Phones : CM!NothingToFollow(w, p)
  <2>1. CM!NoState \in CM!States
    BY DEF CM!NoState, CM!States
  <2>2. /\ memory' \in [Workers -> [Phones -> CM!States]] /\ reply' = CM!NoReply
        /\ UNCHANGED <<clock, named, followed>>
        /\ \A w \in Workers, p \in Phones : memory'[w][p] \in {memory[w][p], CM!NoState}
    <3>1. memory \in [Workers -> [Phones -> CM!States]]
      BY DEF Remembered, CM!TypeOK
    <3>2. ASSUME NEW w \in Workers, CM!Restart(w)
          PROVE  /\ memory' \in [Workers -> [Phones -> CM!States]]
                 /\ \A v \in Workers, p \in Phones :
                       memory'[v][p] \in {memory[v][p], CM!NoState}
      BY <2>1, <3>1, <3>2 DEF CM!Restart
    <3>3. ASSUME NEW w \in Workers, NEW p \in Phones, CM!NothingToFollow(w, p)
          PROVE  /\ memory' \in [Workers -> [Phones -> CM!States]]
                 /\ \A v \in Workers, q \in Phones :
                       memory'[v][q] \in {memory[v][q], CM!NoState}
      BY <2>1, <3>1, <3>3 DEF CM!NothingToFollow, CM!Get
    <3> QED
      BY <1>3, <3>2, <3>3 DEF CM!Restart, CM!NothingToFollow
  <2>3. Remembered'
    BY <2>2, ForgettingKeeps
  <2> QED
    BY <2>2, <2>3 DEF CM!RecentReply
<1> QED
  BY <1>1, <1>2, <1>3, DirectionKeeps, FromOriginKeeps, NamingKeeps DEF CM!Next

\* The clock, the memories and the answers keep their types.
THEOREM MemoryTyped == ASSUME CM!MemoryAssumption PROVE CM!Spec => []CM!TypeOK
<1>1. Remembered => CM!TypeOK
  BY DEF Remembered
<1> QED
  BY <1>1, InitRemembered, NextRemembered, PTL DEF CM!Spec

\* A follow-up is answered about something its phone named itself, and within a
\* lifetime of that or of the last follow-up about it, for any number of workers
\* and phones.
THEOREM FollowUpsAreRecent ==
    ASSUME CM!MemoryAssumption
    PROVE  CM!Spec => CM!FollowUpIsRecent
BY InitRemembered, NextRemembered, PTL DEF CM!Spec, CM!FollowUpIsRecent
=============================================================================
