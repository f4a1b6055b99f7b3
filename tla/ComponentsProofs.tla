-------------------------- MODULE ComponentsProofs --------------------------
(***************************************************************************)
(* Theorems about the components that MCComponents runs side by side, for  *)
(* all values of its constants.  SMS consent and the migrations are proved *)
(* about here, the others in MessagingProofs and WebProofs; each theorem   *)
(* on MCSpec says of one of them what the run checks.                      *)
(***************************************************************************)
EXTENDS MCComponents, TLAPS

-----------------------------------------------------------------------------
(* SMS consent, for any number of messages in flight.                       *)

\* The clock and the opt-out time are numbers.
LEMMA Times ==
    ASSUME TypeOK
    PROVE  /\ now \in Nat /\ now + 1 \in Nat /\ MaxTime \in Nat /\ now <= MaxTime
           /\ consent \in Rows /\ consent.out \in Nat /\ consent.out <= now
<1>1. MaxTime \in Nat
  BY ConsentAssumption
<1>2. now \in 0 .. MaxTime /\ consent \in Rows /\ consent.out <= now
  BY DEF TypeOK
<1>3. consent.out \in Nat
  BY <1>2 DEF Rows
<1> QED
  BY <1>1, <1>2, <1>3

\* An empty slot is typed and holds nothing.
LEMMA IdleHeld == Idle \in Locals /\ Held(Idle) /\ Idle.pc = "idle"
BY DEF Idle, Locals, Kinds, Rows, Held

LEMMA InitOrderly == Init => Orderly
<1> SUFFICES ASSUME Init PROVE Orderly
  OBVIOUS
<1>1. TypeOK
  BY IdleHeld, ConsentAssumption DEF Init, TypeOK, Rows, Kinds
<1>2. AllHeld
  BY IdleHeld DEF Init, AllHeld
<1> QED
  BY <1>1, <1>2 DEF Init, Orderly, StopWins, LoneStartClears

\* A step of one request that leaves the row alone only has to account for
\* what that request then holds.
LEMMA LocalStep ==
    ASSUME Orderly, NEW w \in Requests, NEW l \in Locals,
           req' = [req EXCEPT ![w] = l], Held(l),
           UNCHANGED <<consent, now, decided>>
    PROVE  Orderly'
<1>1. TypeOK'
  BY DEF Orderly, TypeOK
<1>2. AllHeld'
  BY DEF Orderly, TypeOK, AllHeld, Held
<1> QED
  BY <1>1, <1>2 DEF Orderly, StopWins, LoneStartClears

LEMMA ReceiveKeeps ==
    ASSUME Orderly, NEW w \in Requests, NEW k \in Kinds, NEW t \in OptTypes,
           Receive(w, k, t)
    PROVE  Orderly'
<1> USE DEF Orderly
<1>1. /\ now \in Nat /\ now + 1 \in Nat /\ MaxTime \in Nat
      /\ consent \in Rows /\ consent.out \in Nat /\ consent.out <= now
  BY Times
<1>2. PICK l : l = [pc |-> "dispatch", kind |-> k, type |-> t, at |-> now + 1,
                    copy |-> consent, raced |-> FALSE, after |-> decided = "STOP"]
  OBVIOUS
<1>3. l \in Locals
  <2>1. CASE decided = "STOP"
    <3>1. l = [pc |-> "dispatch", kind |-> k, type |-> t, at |-> now + 1,
               copy |-> consent, raced |-> FALSE, after |-> TRUE]
      BY <1>2, <2>1
    <3> QED
      BY <3>1, <1>1 DEF Locals
  <2>2. CASE decided # "STOP"
    <3>1. l = [pc |-> "dispatch", kind |-> k, type |-> t, at |-> now + 1,
               copy |-> consent, raced |-> FALSE, after |-> FALSE]
      BY <1>2, <2>2
    <3> QED
      BY <3>1, <1>1 DEF Locals
  <2> QED
    BY <2>1, <2>2
<1>4. l.pc = "dispatch" /\ l.type = t /\ l.at = now + 1 /\ l.copy = consent
      /\ (l.after => decided = "STOP")
  BY <1>2
<1>5. req' = [req EXCEPT ![w] = l] /\ now' = now + 1 /\ now < MaxTime
      /\ UNCHANGED <<consent, decided>>
  BY <1>2 DEF Receive
<1>6. TypeOK'
  <2>1. now' \in 0 .. MaxTime /\ consent' \in Rows /\ consent'.out <= now'
    BY <1>1, <1>5
  <2>2. req' \in [Requests -> Locals]
    BY <1>3, <1>5 DEF TypeOK
  <2> QED
    BY <1>5, <2>1, <2>2 DEF TypeOK
<1>7. Held(l)'
  <2>1. l.copy = consent' /\ l.copy.out < l.at /\ l.at <= now' /\ l.type # None
    BY <1>1, <1>4, <1>5, ConsentAssumption
  <2>2. l.after => l.copy.out # 0
    BY <1>4 DEF StopWins
  <2> QED
    BY <1>4, <2>1, <2>2 DEF Held
<1>8. ASSUME NEW v \in Requests, v # w PROVE Held(req[v])'
  <2>1. Held(req[v]) /\ req[v] \in Locals /\ req'[v] = req[v]
    BY <1>5, <1>8 DEF AllHeld, TypeOK
  <2> QED
    BY <2>1, <1>1, <1>5 DEF Held, Locals
<1>9. AllHeld'
  BY <1>5, <1>7, <1>8 DEF AllHeld, TypeOK
<1> QED
  BY <1>5, <1>6, <1>9 DEF StopWins, LoneStartClears

\* A consent request commits: what every other request holds is now raced.
LEMMA DecideKeeps ==
    ASSUME Orderly, NEW w \in Requests, NEW new \in Rows, Decide(w, new),
           req[w].copy \in Rows, new.out <= now
    PROVE  /\ consent' \in Rows /\ consent'.out <= now'
           /\ req' \in [Requests -> Locals] /\ AllHeld'
<1> USE DEF Orderly
<1>1. consent' \in Rows /\ consent'.out <= now /\ now' = now
  BY DEF Decide, Saved, Rows, TypeOK
<1>2. ASSUME NEW v \in Requests PROVE req'[v] \in Locals /\ Held(req[v])'
  <2>1. CASE v = w
    <3>1. req'[v] = Idle
      BY <2>1 DEF Decide
    <3> QED
      BY <3>1, IdleHeld DEF Held, Idle
  <2>2. CASE v # w
    <3>1. PICK l \in Locals : l = req[v] /\ Held(l)
      BY DEF TypeOK, AllHeld
    <3>2. PICK m : m = [l EXCEPT !.raced = l.pc # "idle"]
      OBVIOUS
    <3>3. req'[v] = m
      BY <2>2, <3>1, <3>2 DEF Decide
    <3>4. m.pc = l.pc /\ m.copy = l.copy /\ m.at = l.at /\ m.type = l.type
          /\ m.after = l.after /\ (l.pc # "idle" => m.raced)
      BY <3>2 DEF Locals
    <3>5. m \in Locals
      <4>1. CASE l.pc = "idle"
        <5>1. m = [l EXCEPT !.raced = FALSE]
          BY <3>2, <4>1
        <5> QED
          BY <5>1 DEF Locals
      <4>2. CASE l.pc # "idle"
        <5>1. m = [l EXCEPT !.raced = TRUE]
          BY <3>2, <4>2
        <5> QED
          BY <5>1 DEF Locals
      <4> QED
        BY <4>1, <4>2
    <3>6. Held(m)'
      BY <1>1, <3>1, <3>4 DEF Held
    <3> QED
      BY <3>3, <3>5, <3>6
  <2> QED
    BY <2>1, <2>2
<1>3. req' \in [Requests -> Locals]
  BY <1>2 DEF Decide
<1> QED
  BY <1>1, <1>2, <1>3 DEF AllHeld

LEMMA OptOutKeeps ==
    ASSUME Orderly, NEW w \in Requests, OptOut(w)
    PROVE  Orderly'
<1> USE DEF Orderly
<1>1. /\ req[w] \in Locals /\ Held(req[w])
      /\ req[w].copy.out < req[w].at /\ req[w].at <= now /\ req[w].type # None
  BY DEF TypeOK, AllHeld, OptOut, Handling, Held
<1>2. PICK new : new = [out |-> req[w].at, type |-> req[w].type]
  OBVIOUS
<1>3. /\ new \in Rows /\ new.out = req[w].at
      /\ req[w].copy \in Rows /\ Decide(w, new)
  BY <1>1, <1>2 DEF OptOut, Rows, Locals
<1>4. consent'.out # 0
  BY <1>1, <1>3 DEF Decide, Saved, Rows, Locals
<1>5. decided' = "STOP" /\ now' = now
  BY <1>1 DEF OptOut, Decide
<1> QED
  BY <1>1, <1>3, <1>4, <1>5, DecideKeeps, ConsentAssumption
  DEF TypeOK, StopWins, LoneStartClears

LEMMA OptInKeeps ==
    ASSUME Orderly, NEW w \in Requests, OptIn(w)
    PROVE  Orderly'
<1> USE DEF Orderly
<1>1. /\ req[w] \in Locals /\ Held(req[w])
      /\ req[w].pc = "dispatch" /\ req[w].kind = "START"
  BY DEF TypeOK, AllHeld, OptIn, Handling
<1>2. PICK new : new = [out |-> 0, type |-> None]
  OBVIOUS
<1>3. new \in Rows /\ new.out = 0 /\ req[w].copy \in Rows /\ Decide(w, new)
  BY <1>1, <1>2 DEF OptIn, Rows, Locals
<1>4. ~req[w].raced => consent'.out = 0
  BY <1>1, <1>3 DEF Decide, Saved, Held
<1>5. new.out <= now /\ now \in Nat
  BY <1>3, Times
<1>6. /\ decided' \in {"START", "START, raced"}
      /\ decided' = "START" => ~req[w].raced
      /\ now' = now
  BY <1>1 DEF OptIn, Decide
<1> QED
  BY <1>3, <1>4, <1>5, <1>6, DecideKeeps DEF TypeOK, StopWins, LoneStartClears

LEMMA OtherKeeps ==
    ASSUME Orderly, NEW w \in Requests,
           RecordHelp(w) \/ Dispatch(w) \/ Reply(w) \/ Fail(w)
    PROVE  Orderly'
<1> USE DEF Orderly
<1>1. req[w] \in Locals /\ Held(req[w])
  BY DEF TypeOK, AllHeld
<1>2. consent \in Rows
  BY DEF TypeOK
<1>3. CASE RecordHelp(w)
  <2>1. UNCHANGED consent
    BY <1>2, <1>3 DEF RecordHelp, Saved, Rows
  <2> QED
    BY <1>1, <1>3, <2>1, IdleHeld, LocalStep DEF RecordHelp, Locals
<1>4. CASE Dispatch(w)
  <2>1. PICK l : /\ req' = [req EXCEPT ![w] = l]
                 /\ l = IF req[w].copy.out # 0 THEN Idle
                        ELSE [req[w] EXCEPT !.pc = "reply"]
    BY <1>4 DEF Dispatch, TypeOK
  <2>2. l \in Locals
    BY <1>1, <2>1, IdleHeld DEF Locals
  <2>3. Held(l)
    BY <1>1, <2>1, IdleHeld DEF Locals, Held
  <2> QED
    BY <2>1, <2>2, <2>3, <1>4, LocalStep DEF Dispatch, TypeOK
<1>5. CASE Reply(w)
  BY <1>5, IdleHeld, LocalStep DEF Reply
<1>6. CASE Fail(w)
  BY <1>6, IdleHeld, LocalStep DEF Fail, TypeOK
<1> QED
  BY <1>3, <1>4, <1>5, <1>6

LEMMA NextOrderly == Orderly /\ [Next]_vars => Orderly'
<1> SUFFICES ASSUME Orderly, [Next]_vars PROVE Orderly'
  OBVIOUS
<1>1. CASE UNCHANGED vars
  BY <1>1 DEF vars, Orderly, TypeOK, AllHeld, Held, StopWins, LoneStartClears
<1>2. CASE Next
  BY <1>2, ReceiveKeeps, OptOutKeeps, OptInKeeps, OtherKeeps DEF Next
<1> QED
  BY <1>1, <1>2

THEOREM AlwaysOrderly == Spec => []Orderly
<1> QED
  BY InitOrderly, NextOrderly, PTL DEF Spec

-----------------------------------------------------------------------------

\* The consent columns keep their types and no opt-out lies in the future.
THEOREM TypeCorrect == Spec => []TypeOK
<1>1. Orderly => TypeOK
  BY DEF Orderly
<1> QED
  BY <1>1, AlwaysOrderly, PTL

\* A STOP that committed last has opted the user out, whatever was in flight.
THEOREM StopAlwaysWins == Spec => []StopWins
<1>1. Orderly => StopWins
  BY DEF Orderly
<1> QED
  BY <1>1, AlwaysOrderly, PTL

\* A START that nothing overlapped has cleared the opt-out for good.
THEOREM LoneStartAlwaysClears == Spec => []LoneStartClears
<1>1. Orderly => LoneStartClears
  BY DEF Orderly
<1> QED
  BY <1>1, AlwaysOrderly, PTL

\* No service request that arrives after a recorded STOP reaches its handler.
THEOREM StoppedUsersStayStopped == Spec => []StoppedStaysStopped
<1>1. Orderly => StoppedStaysStopped
  BY DEF Orderly, AllHeld, Held, StoppedStaysStopped
<1> QED
  BY <1>1, AlwaysOrderly, PTL

-----------------------------------------------------------------------------
(* The migrations, whatever columns a legacy database has: x1 is the schema, *)
(* x2 its revision and x3 the run.                                           *)

\* The schemas there are.
Names == LegacyColumns \cup SM!UserColumns \cup SM!RefreshColumns \cup {"last_used_at"}
           \cup SM!SubscriptionColumns \cup SM!GraceColumns \cup SM!UsageColumns
           \cup SM!BillingEventColumns \cup SM!AuthEventColumns \cup SM!RouteColumns
Columns == SM!Registered \X Names
Schemas == [tables : SUBSET SM!Registered, columns : SUBSET Columns,
            uniques : SUBSET Columns, indexes : SUBSET Columns,
            fkeys : SUBSET Columns, naive : SUBSET Columns,
            defaults : SUBSET Columns]

\* What keeps a column unique.
Unique(s) == s.uniques \cup s.indexes

\* The columns a table has from its first day.
Original(t) ==
    CASE t = "users" -> SM!BaseColumns
      [] t = "refresh_tokens" -> SM!RefreshColumns
      [] t = "subscriptions" -> SM!SubscriptionColumns
      [] t = "usage_tracking" -> SM!UsageColumns
      [] t = "billing_events" -> SM!BillingEventColumns
      [] t = "auth_events" -> SM!AuthEventColumns
      [] t = "saved_routes" -> SM!RouteColumns
      [] OTHER -> {}

\* Of every schema: its columns belong to its tables, and what a table has from
\* its first day stays.
Sound(s) ==
    /\ s \in Schemas
    /\ \A c \in s.columns : c[1] \in s.tables
    /\ \A t \in s.tables : SM!In(t, Original(t)) \subseteq s.columns
    /\ Unique(s) \cup s.fkeys \cup s.naive \cup s.defaults \subseteq s.columns
    /\ s.naive \subseteq SM!In("users", SM!NaiveColumns)
    /\ "users" \in s.tables => SM!In("users", SM!LegacyUnique) \subseteq Unique(s)

\* What each revision has made of a schema.
BillingTables == {"subscriptions", "usage_tracking", "billing_events"}
BillingUnique == SM!In("subscriptions", {"user_id", "stripe_subscription_id"})
                   \cup SM!In("usage_tracking", {"period_start"})
                   \cup SM!In("billing_events", {"stripe_event_id"})
Consolidated(s) ==
    /\ {"users", "refresh_tokens"} \subseteq s.tables
    /\ SM!In("users", SM!AuthColumns) \subseteq s.columns
    /\ SM!In("users", SM!TokenColumns) \cup SM!In("refresh_tokens", {"token_hash"})
         \subseteq Unique(s)
    /\ SM!In("refresh_tokens", SM!TokenReferences) \subseteq s.fkeys
Billed(s) == BillingTables \subseteq s.tables /\ BillingUnique \subseteq Unique(s)
Hardened(s) ==
    /\ "auth_events" \in s.tables
    /\ SM!In("users", SM!HardeningColumns) \cup SM!In("subscriptions", SM!GraceColumns)
         \cup SM!In("refresh_tokens", {"last_used_at"}) \subseteq s.columns
    /\ SM!In("users", SM!PendingColumns) \subseteq Unique(s)
    /\ s.naive = {}
Routed(s) ==
    /\ "saved_routes" \in s.tables
    /\ SM!In("saved_routes", {"normalized_name"}) \subseteq Unique(s)
OptedOut(s) == SM!In("users", SM!OptOutColumns) \subseteq s.columns
Compliant(s) == SM!In("users", SM!ComplianceColumns) \subseteq s.columns
Defaulted(s) == SM!Timestamps \subseteq s.defaults

\* What a schema does not have yet.
Unbilled(s) == s.tables \cap BillingTables = {}
Soft(s) == SM!In("users", SM!HardeningColumns) \cap s.columns = {}
Unrouted(s) == "saved_routes" \notin s.tables

\* A schema to which k revisions are applied, on the way up or down.
At(k, s) ==
    /\ Sound(s)
    /\ k >= 2 => Consolidated(s)
    /\ IF k >= 3 THEN Billed(s) ELSE Unbilled(s)
    /\ IF k >= 4 THEN Hardened(s) ELSE Soft(s)
    /\ IF k >= 5 THEN Routed(s) ELSE Unrouted(s)
    /\ k >= 6 => OptedOut(s)
    /\ k >= 7 => Compliant(s)
    /\ k >= 8 => Defaulted(s)

\* r has all that s has.
Larger(s, r) ==
    /\ s.tables \subseteq r.tables /\ s.columns \subseteq r.columns
    /\ Unique(s) \subseteq Unique(r) /\ s.fkeys \subseteq r.fkeys
    /\ s.defaults \subseteq r.defaults

\* What an upgrade has at work is on the way to its goal and has all that is
\* committed.
Climbing ==
    SM!Running /\ x3.goal > x2 => x3.at \in x2 .. x3.goal /\ Larger(x1, x3.work)

\* The invariant: the committed schema and the one at work are as far as their
\* revisions say.
Migrated ==
    /\ x2 \in 0 .. SM!HeadRevision /\ At(x2, x1)
    /\ x3 \in [goal : 0 .. SM!HeadRevision, at : 0 .. SM!HeadRevision, work : Schemas]
    /\ At(x3.at, x3.work)
    /\ SM!Running /\ "users" \in x1.tables => "users" \in x3.work.tables
    /\ Climbing

-----------------------------------------------------------------------------
(* Names.                                                                    *)

LEMMA InPairs ==
    ASSUME NEW t, NEW names, NEW c
    PROVE  /\ c \in SM!In(t, names) => c = <<c[1], c[2]>> /\ c[1] = t /\ c[2] \in names
           /\ c = <<c[1], c[2]>> /\ c[1] = t /\ c[2] \in names => c \in SM!In(t, names)
<1>1. ASSUME c \in SM!In(t, names) PROVE c = <<c[1], c[2]>> /\ c[1] = t /\ c[2] \in names
  BY <1>1 DEF SM!In
<1>2. ASSUME c = <<c[1], c[2]>>, c[1] = t, c[2] \in names PROVE c \in SM!In(t, names)
  <2>1. PICK n \in names : c = <<t, n>>
    BY <1>2
  <2> QED
    BY <2>1 DEF SM!In
<1> QED
  BY <1>1, <1>2

LEMMA InColumns ==
    ASSUME NEW t \in SM!Registered, NEW names \in SUBSET Names
    PROVE  SM!In(t, names) \in SUBSET Columns
BY DEF SM!In, Columns

LEMMA InApart ==
    ASSUME NEW t, NEW names, NEW u, NEW others, t # u \/ names \cap others = {}
    PROVE  SM!In(t, names) \cap SM!In(u, others) = {}
BY DEF SM!In

LEMMA InGrows ==
    ASSUME NEW t, NEW names, NEW more, names \subseteq more
    PROVE  SM!In(t, names) \subseteq SM!In(t, more)
BY DEF SM!In

LEMMA NamesWithin ==
    /\ SM!LegacyUnique \subseteq SM!BaseColumns /\ SM!NaiveColumns \subseteq SM!BaseColumns
    /\ SM!TokenColumns \subseteq SM!AuthColumns /\ SM!PendingColumns \subseteq SM!HardeningColumns
    /\ SM!TokenReferences \subseteq SM!RefreshColumns /\ "token_hash" \in SM!RefreshColumns
    /\ {"user_id", "stripe_subscription_id"} \subseteq SM!SubscriptionColumns
    /\ "period_start" \in SM!UsageColumns /\ "stripe_event_id" \in SM!BillingEventColumns
    /\ "normalized_name" \in SM!RouteColumns
    /\ "created_at" \in SM!BaseColumns /\ "updated_at" \in SM!AuthColumns
<1>1. SM!LegacyUnique \subseteq SM!BaseColumns /\ SM!NaiveColumns \subseteq SM!BaseColumns
  BY DEF SM!LegacyUnique, SM!NaiveColumns, SM!BaseColumns
<1>2. SM!TokenColumns \subseteq SM!AuthColumns /\ SM!PendingColumns \subseteq SM!HardeningColumns
  BY DEF SM!TokenColumns, SM!AuthColumns, SM!PendingColumns, SM!HardeningColumns
<1>3. SM!TokenReferences \subseteq SM!RefreshColumns /\ "token_hash" \in SM!RefreshColumns
  BY DEF SM!RefreshColumns
<1>4. /\ {"user_id", "stripe_subscription_id"} \subseteq SM!SubscriptionColumns
      /\ "period_start" \in SM!UsageColumns /\ "stripe_event_id" \in SM!BillingEventColumns
      /\ "normalized_name" \in SM!RouteColumns
  BY DEF SM!SubscriptionColumns, SM!UsageColumns, SM!BillingEventColumns, SM!RouteColumns
<1>5. "created_at" \in SM!BaseColumns /\ "updated_at" \in SM!AuthColumns
  BY DEF SM!BaseColumns, SM!AuthColumns
<1> QED
  BY <1>1, <1>2, <1>3, <1>4, <1>5

\* The columns of a table that a downgrade drops are none of those it is made
\* with, nor of those another revision adds.
LEMMA NamesApart ==
    /\ SM!AuthColumns \cap SM!BaseColumns = {}
    /\ SM!HardeningColumns \cap (SM!BaseColumns \cup SM!AuthColumns) = {}
    /\ SM!OptOutColumns \cap (SM!BaseColumns \cup SM!AuthColumns \cup SM!HardeningColumns) = {}
    /\ SM!ComplianceColumns \cap (SM!BaseColumns \cup SM!AuthColumns \cup SM!HardeningColumns
                                 \cup SM!OptOutColumns) = {}
    /\ "last_used_at" \notin SM!RefreshColumns
    /\ SM!GraceColumns \cap SM!SubscriptionColumns = {}
<1>1. SM!AuthColumns \cap SM!BaseColumns = {}
  BY DEF SM!AuthColumns, SM!BaseColumns
<1>2. SM!HardeningColumns \cap (SM!BaseColumns \cup SM!AuthColumns) = {}
  BY DEF SM!HardeningColumns, SM!BaseColumns, SM!AuthColumns
<1>3. SM!OptOutColumns \cap (SM!BaseColumns \cup SM!AuthColumns \cup SM!HardeningColumns) = {}
  BY DEF SM!OptOutColumns, SM!BaseColumns, SM!AuthColumns, SM!HardeningColumns
<1>4. SM!ComplianceColumns \cap (SM!BaseColumns \cup SM!AuthColumns \cup SM!HardeningColumns
                                \cup SM!OptOutColumns) = {}
  BY DEF SM!ComplianceColumns, SM!BaseColumns, SM!AuthColumns, SM!HardeningColumns,
      SM!OptOutColumns
<1>5. "last_used_at" \notin SM!RefreshColumns
  BY DEF SM!RefreshColumns, SM!TokenReferences
<1>6. SM!GraceColumns \cap SM!SubscriptionColumns = {}
  BY DEF SM!GraceColumns, SM!SubscriptionColumns
<1> QED
  BY <1>1, <1>2, <1>3, <1>4, <1>5, <1>6

LEMMA OriginalNames ==
    /\ Original("users") = SM!BaseColumns /\ Original("refresh_tokens") = SM!RefreshColumns
    /\ Original("subscriptions") = SM!SubscriptionColumns
    /\ Original("usage_tracking") = SM!UsageColumns
    /\ Original("billing_events") = SM!BillingEventColumns
    /\ Original("auth_events") = SM!AuthEventColumns
    /\ Original("saved_routes") = SM!RouteColumns
BY DEF Original

LEMMA TablesAre == SM!AccountTables \subseteq SM!Registered
BY DEF SM!Registered

-----------------------------------------------------------------------------
(* Growing.                                                                  *)

LEMMA AddColumnsFields ==
    ASSUME NEW s \in Schemas, NEW t \in SM!Registered, NEW names \in SUBSET Names
    PROVE  /\ SM!AddColumns(s, t, names) \in Schemas
           /\ SM!AddColumns(s, t, names).columns = s.columns \cup SM!In(t, names)
           /\ SM!AddColumns(s, t, names).tables = s.tables
           /\ SM!AddColumns(s, t, names).uniques = s.uniques
           /\ SM!AddColumns(s, t, names).indexes = s.indexes
           /\ SM!AddColumns(s, t, names).fkeys = s.fkeys
           /\ SM!AddColumns(s, t, names).naive = s.naive
           /\ SM!AddColumns(s, t, names).defaults = s.defaults
BY InColumns DEF SM!AddColumns, Schemas

LEMMA LargerKeeps ==
    ASSUME NEW s, NEW r, Larger(s, r)
    PROVE  /\ Consolidated(s) => Consolidated(r)
           /\ Billed(s) => Billed(r)
           /\ Hardened(s) /\ r.naive \subseteq s.naive => Hardened(r)
           /\ Routed(s) => Routed(r)
           /\ OptedOut(s) => OptedOut(r)
           /\ Compliant(s) => Compliant(r)
           /\ Defaulted(s) => Defaulted(r)
BY DEF Larger, Consolidated, Billed, Hardened, Routed, OptedOut, Compliant, Defaulted

LEMMA LargerTrans ==
    ASSUME NEW s, NEW r, NEW q, Larger(s, r), Larger(r, q)
    PROVE  Larger(s, q)
BY DEF Larger

\* r is s with table t and these columns of it, and perhaps more constraints,
\* indexes, foreign keys and defaults.
Grown(s, r, t, names) ==
    /\ r \in Schemas /\ Larger(s, r)
    /\ r.tables = s.tables \cup {t} /\ r.columns = s.columns \cup SM!In(t, names)
    /\ Unique(r) \cup r.fkeys \cup r.defaults \subseteq r.columns
    /\ r.naive = s.naive

LEMMA GrownSound ==
    ASSUME NEW s, NEW r, NEW t, NEW names, Sound(s), Grown(s, r, t, names),
           t \in s.tables \/ (t # "users" /\ Original(t) \subseteq names)
    PROVE  Sound(r)
<1>1. \A c \in r.columns : c[1] \in r.tables
  BY InPairs DEF Sound, Grown
<1>2. ASSUME NEW u \in r.tables PROVE SM!In(u, Original(u)) \subseteq r.columns
  <2>1. CASE u \in s.tables
    BY <2>1 DEF Sound, Grown
  <2>2. CASE u \notin s.tables
    <3>1. u = t /\ Original(t) \subseteq names
      BY <1>2, <2>2 DEF Grown
    <3> QED
      BY <3>1, InGrows DEF Grown
  <2> QED
    BY <2>1, <2>2
<1>3. /\ Unique(r) \cup r.fkeys \cup r.naive \cup r.defaults \subseteq r.columns
      /\ r.naive \subseteq SM!In("users", SM!NaiveColumns)
  BY DEF Sound, Grown
<1>4. "users" \in r.tables => SM!In("users", SM!LegacyUnique) \subseteq Unique(r)
  BY DEF Sound, Grown, Larger
<1> QED
  BY <1>1, <1>2, <1>3, <1>4 DEF Sound, Grown

\* Columns that are only added.
LEMMA AddColumnsGrows ==
    ASSUME NEW s, Sound(s), NEW t \in s.tables, NEW names \in SUBSET Names
    PROVE  Grown(s, SM!AddColumns(s, t, names), t, names)
<1>1. s \in Schemas /\ t \in SM!Registered
  BY DEF Sound, Schemas
<1>2. PICK r : r = SM!AddColumns(s, t, names)
  OBVIOUS
<1>3. Grown(s, r, t, names)
  BY <1>1, <1>2, AddColumnsFields DEF Grown, Larger, Unique, Sound
<1> QED
  BY <1>2, <1>3

\* A table, some of its columns unique by constraint and by index, some with a
\* foreign key: what the Create operators make.
Created(s, t, names, uniques, indexes, fkeys) ==
    [SM!AddColumns(s, t, names)
       EXCEPT !.tables = @ \cup {t}, !.uniques = @ \cup SM!In(t, uniques),
              !.indexes = @ \cup SM!In(t, indexes), !.fkeys = @ \cup SM!In(t, fkeys)]

LEMMA CreatedGrows ==
    ASSUME NEW s, Sound(s), NEW t \in SM!Registered, NEW names \in SUBSET Names,
           NEW uniques \in SUBSET names, NEW indexes \in SUBSET names,
           NEW fkeys \in SUBSET names
    PROVE  LET r == Created(s, t, names, uniques, indexes, fkeys)
           IN  /\ Grown(s, r, t, names)
               /\ SM!In(t, uniques) \subseteq Unique(r)
               /\ SM!In(t, fkeys) \subseteq r.fkeys
<1>1. s \in Schemas
  BY DEF Sound
<1>2. PICK a : a = SM!AddColumns(s, t, names)
  OBVIOUS
<1>3. PICK r : r = Created(s, t, names, uniques, indexes, fkeys)
  OBVIOUS
<1>4. /\ a \in Schemas /\ a.columns = s.columns \cup SM!In(t, names) /\ a.tables = s.tables
      /\ a.uniques = s.uniques /\ a.indexes = s.indexes /\ a.fkeys = s.fkeys
      /\ a.naive = s.naive /\ a.defaults = s.defaults
  BY <1>1, <1>2, AddColumnsFields
<1>5. /\ SM!In(t, uniques) \in SUBSET Columns /\ SM!In(t, indexes) \in SUBSET Columns
      /\ SM!In(t, fkeys) \in SUBSET Columns
  BY InColumns
<1>6. /\ SM!In(t, uniques) \subseteq SM!In(t, names) /\ SM!In(t, indexes) \subseteq SM!In(t, names)
      /\ SM!In(t, fkeys) \subseteq SM!In(t, names)
  BY InGrows
<1>7. /\ r \in Schemas /\ r.columns = a.columns /\ r.tables = a.tables \cup {t}
      /\ r.uniques = a.uniques \cup SM!In(t, uniques)
      /\ r.indexes = a.indexes \cup SM!In(t, indexes)
      /\ r.fkeys = a.fkeys \cup SM!In(t, fkeys)
      /\ r.naive = a.naive /\ r.defaults = a.defaults
  BY <1>2, <1>3, <1>4, <1>5 DEF Created, Schemas
<1>8. /\ Unique(s) \cup s.fkeys \cup s.defaults \subseteq s.columns
  BY DEF Sound
<1>9. Larger(s, r)
  BY <1>4, <1>7 DEF Larger, Unique
<1>10. Unique(r) \cup r.fkeys \cup r.defaults \subseteq r.columns
  BY <1>4, <1>6, <1>7, <1>8 DEF Unique
<1>11. Grown(s, r, t, names)
  BY <1>4, <1>7, <1>9, <1>10 DEF Grown
<1> QED
  BY <1>3, <1>7, <1>11 DEF Unique

LEMMA InNothing == ASSUME NEW t PROVE SM!In(t, {}) = {}
BY DEF SM!In

\* The schema itself may be written with the fields that do not change.
LEMMA SameFields ==
    ASSUME NEW s \in Schemas, NEW t \in SM!Registered
    PROVE  /\ s.uniques \cup SM!In(t, {}) = s.uniques
           /\ s.indexes \cup SM!In(t, {}) = s.indexes
           /\ s.fkeys \cup SM!In(t, {}) = s.fkeys
BY InNothing

-----------------------------------------------------------------------------
(* The tables that the migrations create.                                    *)

LEMMA CreateRefreshTokensIs ==
    ASSUME NEW s \in Schemas
    PROVE  SM!CreateRefreshTokens(s)
             = Created(s, "refresh_tokens", SM!RefreshColumns, {}, {}, SM!TokenReferences)
<1>1. "refresh_tokens" \in SM!Registered /\ SM!RefreshColumns \in SUBSET Names
  BY DEF SM!Registered, SM!AccountTables, Names
<1>2. PICK a : a = SM!AddColumns(s, "refresh_tokens", SM!RefreshColumns)
  OBVIOUS
<1>3. a \in Schemas
  BY <1>1, <1>2, AddColumnsFields
<1> QED
  BY <1>2, <1>3, InNothing DEF SM!CreateRefreshTokens, Created, Schemas

LEMMA CreateSubscriptionsIs ==
    ASSUME NEW s \in Schemas
    PROVE  SM!CreateSubscriptions(s)
             = Created(s, "subscriptions", SM!SubscriptionColumns,
                       {"user_id", "stripe_subscription_id"},
                       {"user_id", "stripe_subscription_id"}, {})
<1>1. "subscriptions" \in SM!Registered /\ SM!SubscriptionColumns \in SUBSET Names
  BY DEF SM!Registered, SM!AccountTables, Names
<1>2. PICK a : a = SM!AddColumns(s, "subscriptions", SM!SubscriptionColumns)
  OBVIOUS
<1>3. a \in Schemas
  BY <1>1, <1>2, AddColumnsFields
<1> QED
  BY <1>2, <1>3, InNothing DEF SM!CreateSubscriptions, Created, Schemas

LEMMA CreateUsageTrackingIs ==
    ASSUME NEW s \in Schemas
    PROVE  SM!CreateUsageTracking(s)
             = Created(s, "usage_tracking", SM!UsageColumns, {"period_start"}, {}, {})
<1>1. "usage_tracking" \in SM!Registered /\ SM!UsageColumns \in SUBSET Names
  BY DEF SM!Registered, SM!AccountTables, Names
<1>2. PICK a : a = SM!AddColumns(s, "usage_tracking", SM!UsageColumns)
  OBVIOUS
<1>3. a \in Schemas
  BY <1>1, <1>2, AddColumnsFields
<1> QED
  BY <1>2, <1>3, InNothing DEF SM!CreateUsageTracking, Created, Schemas

LEMMA CreateBillingEventsIs ==
    ASSUME NEW s \in Schemas
    PROVE  SM!CreateBillingEvents(s)
             = Created(s, "billing_events", SM!BillingEventColumns,
                       {"stripe_event_id"}, {"stripe_event_id"}, {})
<1>1. "billing_events" \in SM!Registered /\ SM!BillingEventColumns \in SUBSET Names
  BY DEF SM!Registered, SM!AccountTables, Names
<1>2. PICK a : a = SM!AddColumns(s, "billing_events", SM!BillingEventColumns)
  OBVIOUS
<1>3. a \in Schemas
  BY <1>1, <1>2, AddColumnsFields
<1> QED
  BY <1>2, <1>3, InNothing DEF SM!CreateBillingEvents, Created, Schemas

LEMMA CreateAuthEventsIs ==
    ASSUME NEW s \in Schemas
    PROVE  SM!CreateAuthEvents(s)
             = Created(s, "auth_events", SM!AuthEventColumns, {}, {}, {})
<1>1. "auth_events" \in SM!Registered /\ SM!AuthEventColumns \in SUBSET Names
  BY DEF SM!Registered, SM!AccountTables, Names
<1>2. PICK a : a = SM!AddColumns(s, "auth_events", SM!AuthEventColumns)
  OBVIOUS
<1>3. a \in Schemas
  BY <1>1, <1>2, AddColumnsFields
<1> QED
  BY <1>2, <1>3, InNothing DEF SM!CreateAuthEvents, Created, Schemas

LEMMA CreateSavedRoutesIs ==
    ASSUME NEW s \in Schemas, "saved_routes" \notin s.tables
    PROVE  SM!CreateSavedRoutes(s)
             = Created(s, "saved_routes", SM!RouteColumns, {"normalized_name"}, {}, {})
<1>1. "saved_routes" \in SM!Registered /\ SM!RouteColumns \in SUBSET Names
  BY DEF SM!Registered, SM!AccountTables, Names
<1>2. PICK a : a = SM!AddColumns(s, "saved_routes", SM!RouteColumns)
  OBVIOUS
<1>3. a \in Schemas
  BY <1>1, <1>2, AddColumnsFields
<1> QED
  BY <1>2, <1>3, InNothing DEF SM!CreateSavedRoutes, Created, Schemas

-----------------------------------------------------------------------------
(* c7e0a9f13b42 up: Consolidate.                                             *)

LEMMA EnsureUsersColumnsGrows ==
    ASSUME NEW s, Sound(s), "users" \in s.tables
    PROVE  Grown(s, SM!EnsureUsersColumns(s), "users", SM!AuthColumns)
<1>1. /\ s \in Schemas /\ "users" \in SM!Registered /\ SM!AuthColumns \in SUBSET Names
      /\ {"updated_at"} \in SUBSET Names /\ {"updated_at"} \subseteq SM!AuthColumns
  BY NamesWithin DEF Sound, SM!Registered, SM!AccountTables, Names, SM!UserColumns
<1>2. PICK a : a = SM!AddColumns(s, "users", SM!AuthColumns)
  OBVIOUS
<1>3. Grown(s, a, "users", SM!AuthColumns)
  BY <1>1, <1>2, AddColumnsGrows
<1>4. PICK d : d = SM!In("users", {"updated_at"}) \ s.columns
  OBVIOUS
<1>5. d \in SUBSET Columns /\ d \subseteq SM!In("users", SM!AuthColumns)
  BY <1>1, <1>4, InColumns, InGrows
<1>6. SM!EnsureUsersColumns(s) = [a EXCEPT !.defaults = @ \cup d]
  BY <1>2, <1>4 DEF SM!EnsureUsersColumns
<1>7. PICK r : r = SM!EnsureUsersColumns(s)
  OBVIOUS
<1>8. /\ r \in Schemas /\ r.tables = a.tables /\ r.columns = a.columns
      /\ r.uniques = a.uniques /\ r.indexes = a.indexes /\ r.fkeys = a.fkeys
      /\ r.naive = a.naive /\ r.defaults = a.defaults \cup d
  BY <1>3, <1>5, <1>6, <1>7 DEF Grown, Schemas
<1>9. Grown(s, r, "users", SM!AuthColumns)
  BY <1>3, <1>5, <1>8 DEF Grown, Larger, Unique
<1> QED
  BY <1>7, <1>9

LEMMA CreateUsersSound ==
    ASSUME NEW s, Sound(s), "users" \notin s.tables
    PROVE  /\ Sound(SM!CreateUsers(s)) /\ Larger(s, SM!CreateUsers(s))
           /\ SM!CreateUsers(s).tables = s.tables \cup {"users"}
           /\ SM!CreateUsers(s).columns
                = s.columns \cup SM!In("users", SM!BaseColumns \cup SM!AuthColumns)
<1> DEFINE names == SM!BaseColumns \cup SM!AuthColumns
           unique == SM!In("users", SM!LegacyUnique \cup SM!TokenColumns)
<1>1. /\ s \in Schemas /\ "users" \in SM!Registered /\ names \in SUBSET Names
  BY DEF Sound, SM!Registered, SM!AccountTables, Names, SM!UserColumns
<1>2. PICK a : a = SM!AddColumns(s, "users", names)
  OBVIOUS
<1>3. /\ a \in Schemas /\ a.columns = s.columns \cup SM!In("users", names)
      /\ a.tables = s.tables /\ a.uniques = s.uniques /\ a.indexes = s.indexes
      /\ a.fkeys = s.fkeys /\ a.naive = s.naive /\ a.defaults = s.defaults
  BY <1>1, <1>2, AddColumnsFields
<1>4. /\ unique \subseteq SM!In("users", names)
      /\ SM!In("users", SM!LegacyUnique) \subseteq unique
      /\ SM!In("users", SM!BaseColumns) \subseteq SM!In("users", names)
      /\ SM!In("users", SM!NaiveColumns) \subseteq SM!In("users", names)
      /\ SM!In("users", {"created_at", "updated_at"}) \subseteq SM!In("users", names)
      /\ SM!In("users", names) \in SUBSET Columns
  BY <1>1, NamesWithin, InGrows, InColumns
<1>5. PICK r : r = SM!CreateUsers(s)
  OBVIOUS
<1>6. r = [a EXCEPT !.tables = @ \cup {"users"},
                    !.uniques = @ \cup unique, !.indexes = @ \cup unique,
                    !.naive = @ \cup SM!In("users", SM!NaiveColumns),
                    !.defaults = @ \cup SM!In("users", {"created_at", "updated_at"})]
  BY <1>2, <1>5 DEF SM!CreateUsers
<1>7. /\ unique \in SUBSET Columns /\ SM!In("users", SM!NaiveColumns) \in SUBSET Columns
      /\ SM!In("users", {"created_at", "updated_at"}) \in SUBSET Columns
  BY <1>4
<1> HIDE DEF unique, names
<1>8. /\ r \in Schemas /\ r.tables = a.tables \cup {"users"} /\ r.columns = a.columns
      /\ r.uniques = a.uniques \cup unique /\ r.indexes = a.indexes \cup unique
      /\ r.fkeys = a.fkeys /\ r.naive = a.naive \cup SM!In("users", SM!NaiveColumns)
      /\ r.defaults = a.defaults \cup SM!In("users", {"created_at", "updated_at"})
  BY <1>1, <1>3, <1>6, <1>7 DEF Schemas
<1>9. \A c \in r.columns : c[1] \in r.tables
  BY <1>3, <1>8, InPairs DEF Sound
<1>10. \A t \in r.tables : SM!In(t, Original(t)) \subseteq r.columns
  BY <1>3, <1>4, <1>8, OriginalNames DEF Sound
<1>11. Unique(r) \cup r.fkeys \cup r.naive \cup r.defaults \subseteq r.columns
  BY <1>3, <1>4, <1>8 DEF Sound, Unique
<1>12. /\ r.naive \subseteq SM!In("users", SM!NaiveColumns)
       /\ SM!In("users", SM!LegacyUnique) \subseteq Unique(r)
  BY <1>3, <1>4, <1>8 DEF Sound, Unique
<1>13. Sound(r)
  BY <1>8, <1>9, <1>10, <1>11, <1>12 DEF Sound
<1>14. Larger(s, r)
  BY <1>3, <1>8 DEF Larger, Unique
<1> QED
  BY <1>3, <1>5, <1>8, <1>13, <1>14 DEF names

LEMMA EnsureUniqueIndexesGrows ==
    ASSUME NEW s, Sound(s), NEW t \in s.tables, NEW names,
           SM!In(t, names) \subseteq s.columns
    PROVE  /\ Grown(s, SM!EnsureUniqueIndexes(s, t, names), t, {})
           /\ SM!In(t, names) \subseteq Unique(SM!EnsureUniqueIndexes(s, t, names))
<1>1. s \in Schemas
  BY DEF Sound
<1>2. PICK d : d = SM!In(t, names) \ (s.uniques \cup s.indexes)
  OBVIOUS
<1>3. d \in SUBSET Columns
  BY <1>1, <1>2 DEF Schemas
<1>4. PICK r : r = SM!EnsureUniqueIndexes(s, t, names)
  OBVIOUS
<1>5. r = [s EXCEPT !.indexes = @ \cup d]
  BY <1>2, <1>4 DEF SM!EnsureUniqueIndexes
<1>6. /\ r \in Schemas /\ r.tables = s.tables /\ r.columns = s.columns
      /\ r.uniques = s.uniques /\ r.indexes = s.indexes \cup d
      /\ r.fkeys = s.fkeys /\ r.naive = s.naive /\ r.defaults = s.defaults
  BY <1>1, <1>3, <1>5 DEF Schemas
<1>7. Grown(s, r, t, {})
  BY <1>2, <1>6, InNothing DEF Grown, Larger, Unique, Sound
<1> QED
  BY <1>2, <1>4, <1>6, <1>7 DEF Unique

LEMMA EnsureForeignKeysGrows ==
    ASSUME NEW s, Sound(s), "refresh_tokens" \in s.tables
    PROVE  /\ Grown(s, SM!EnsureForeignKeys(s), "refresh_tokens", {})
           /\ SM!In("refresh_tokens", SM!TokenReferences) \subseteq SM!EnsureForeignKeys(s).fkeys
<1>1. s \in Schemas /\ SM!In("refresh_tokens", SM!RefreshColumns) \subseteq s.columns
  BY OriginalNames DEF Sound
<1>2. PICK d : d = SM!In("refresh_tokens", SM!TokenReferences)
  OBVIOUS
<1>3. d \subseteq s.columns
  BY <1>1, <1>2, NamesWithin, InGrows
<1>4. d \in SUBSET Columns
  BY <1>1, <1>3 DEF Schemas
<1>5. PICK r : r = SM!EnsureForeignKeys(s)
  OBVIOUS
<1>6. r = [s EXCEPT !.fkeys = @ \cup d]
  BY <1>2, <1>5 DEF SM!EnsureForeignKeys
<1>7. /\ r \in Schemas /\ r.tables = s.tables /\ r.columns = s.columns
      /\ r.uniques = s.uniques /\ r.indexes = s.indexes
      /\ r.fkeys = s.fkeys \cup d /\ r.naive = s.naive /\ r.defaults = s.defaults
  BY <1>1, <1>4, <1>6 DEF Schemas
<1>8. Grown(s, r, "refresh_tokens", {})
  BY <1>3, <1>7, InNothing DEF Grown, Larger, Unique, Sound
<1> QED
  BY <1>2, <1>5, <1>7, <1>8

\* Nothing of the later revisions comes early.
Early(s) == Unbilled(s) /\ Soft(s) /\ Unrouted(s)

LEMMA GrownEarly ==
    ASSUME NEW s, NEW r, NEW t, NEW names, Grown(s, r, t, names), Early(s),
           t \notin BillingTables \cup {"saved_routes"},
           t # "users" \/ names \cap SM!HardeningColumns = {}
    PROVE  Early(r)
<1>1. SM!In(t, names) \cap SM!In("users", SM!HardeningColumns) = {}
  BY InApart
<1> QED
  BY <1>1 DEF Grown, Early, Unbilled, Soft, Unrouted

LEMMA ConsolidateUp ==
    ASSUME NEW s, At(1, s)
    PROVE  At(2, SM!Consolidate(s)) /\ Larger(s, SM!Consolidate(s))
<1>1. Sound(s) /\ Early(s)
  BY DEF At, Early
<1>2. PICK u : u = IF "users" \in s.tables THEN SM!EnsureUsersColumns(s) ELSE SM!CreateUsers(s)
  OBVIOUS
<1>3. /\ Sound(u) /\ Early(u) /\ Larger(s, u)
      /\ u.tables = s.tables \cup {"users"}
      /\ SM!In("users", SM!AuthColumns) \subseteq u.columns
  <2>1. CASE "users" \in s.tables
    <3>1. Grown(s, u, "users", SM!AuthColumns)
      BY <1>1, <1>2, <2>1, EnsureUsersColumnsGrows
    <3>2. Sound(u) /\ Early(u)
      BY <1>1, <2>1, <3>1, GrownSound, GrownEarly, NamesApart DEF BillingTables
    <3> QED
      BY <3>1, <3>2 DEF Grown
  <2>2. CASE "users" \notin s.tables
    <3>1. /\ Sound(u) /\ Larger(s, u) /\ u.tables = s.tables \cup {"users"}
          /\ u.columns = s.columns \cup SM!In("users", SM!BaseColumns \cup SM!AuthColumns)
      BY <1>1, <1>2, <2>2, CreateUsersSound
    <3>2. SM!In("users", SM!BaseColumns \cup SM!AuthColumns) \cap SM!In("users", SM!HardeningColumns) = {}
      BY InApart, NamesApart
    <3>3. SM!In("users", SM!AuthColumns) \subseteq SM!In("users", SM!BaseColumns \cup SM!AuthColumns)
      BY InGrows
    <3>4. Early(u)
      BY <1>1, <3>1, <3>2 DEF Early, Unbilled, Soft, Unrouted, BillingTables
    <3> QED
      BY <3>1, <3>3, <3>4
  <2> QED
    BY <2>1, <2>2
<1>4. PICK i : i = SM!EnsureUniqueIndexes(u, "users", SM!TokenColumns)
  OBVIOUS
<1>5. /\ Sound(i) /\ Early(i) /\ Larger(u, i) /\ i.tables = u.tables
      /\ SM!In("users", SM!TokenColumns) \subseteq Unique(i)
  <2>1. SM!In("users", SM!TokenColumns) \subseteq u.columns
    BY <1>3, NamesWithin, InGrows
  <2>2. Grown(u, i, "users", {}) /\ SM!In("users", SM!TokenColumns) \subseteq Unique(i)
    BY <1>3, <1>4, <2>1, EnsureUniqueIndexesGrows
  <2>3. Sound(i) /\ Early(i)
    BY <1>3, <2>2, GrownSound, GrownEarly DEF BillingTables
  <2> QED
    BY <1>3, <2>2, <2>3 DEF Grown
<1>6. PICK k : k = IF "refresh_tokens" \in s.tables THEN i ELSE SM!CreateRefreshTokens(i)
  OBVIOUS
<1>7. /\ Sound(k) /\ Early(k) /\ Larger(i, k)
      /\ k.tables = i.tables \cup {"refresh_tokens"}
  <2>1. CASE "refresh_tokens" \in s.tables
    BY <1>3, <1>5, <1>6, <2>1 DEF Larger
  <2>2. CASE "refresh_tokens" \notin s.tables
    <3>1. Grown(i, k, "refresh_tokens", SM!RefreshColumns)
      <4>1. /\ i \in Schemas /\ "refresh_tokens" \in SM!Registered
            /\ SM!RefreshColumns \in SUBSET Names /\ SM!TokenReferences \in SUBSET SM!RefreshColumns
        BY <1>5, NamesWithin DEF Sound, SM!Registered, SM!AccountTables, Names
      <4>2. k = Created(i, "refresh_tokens", SM!RefreshColumns, {}, {}, SM!TokenReferences)
        BY <1>6, <2>2, <4>1, CreateRefreshTokensIs
      <4> QED
        BY <1>5, <4>1, <4>2, CreatedGrows
    <3>2. Sound(k) /\ Early(k)
      BY <1>5, <3>1, GrownSound, GrownEarly, OriginalNames DEF BillingTables
    <3> QED
      BY <3>1, <3>2 DEF Grown
  <2> QED
    BY <2>1, <2>2
<1>8. PICK f : f = SM!EnsureForeignKeys(k)
  OBVIOUS
<1>9. /\ Sound(f) /\ Early(f) /\ Larger(k, f) /\ f.tables = k.tables
      /\ SM!In("refresh_tokens", SM!TokenReferences) \subseteq f.fkeys
  <2>1. /\ Grown(k, f, "refresh_tokens", {})
        /\ SM!In("refresh_tokens", SM!TokenReferences) \subseteq f.fkeys
    BY <1>7, <1>8, EnsureForeignKeysGrows
  <2>2. Sound(f) /\ Early(f)
    BY <1>7, <2>1, GrownSound, GrownEarly DEF BillingTables
  <2> QED
    BY <1>7, <2>1, <2>2 DEF Grown
<1>10. PICK r : r = SM!EnsureUniqueIndexes(f, "refresh_tokens", {"token_hash"})
  OBVIOUS
<1>11. /\ Sound(r) /\ Early(r) /\ Larger(f, r) /\ r.tables = f.tables
       /\ SM!In("refresh_tokens", {"token_hash"}) \subseteq Unique(r)
  <2>1. SM!In("refresh_tokens", {"token_hash"}) \subseteq f.columns
    <3>1. SM!In("refresh_tokens", SM!RefreshColumns) \subseteq f.columns
      BY <1>7, <1>9, OriginalNames DEF Sound
    <3> QED
      BY <3>1, NamesWithin, InGrows
  <2>2. /\ Grown(f, r, "refresh_tokens", {})
        /\ SM!In("refresh_tokens", {"token_hash"}) \subseteq Unique(r)
    BY <1>7, <1>9, <1>10, <2>1, EnsureUniqueIndexesGrows
  <2>3. Sound(r) /\ Early(r)
    BY <1>7, <1>9, <2>2, GrownSound, GrownEarly DEF BillingTables
  <2> QED
    BY <1>7, <1>9, <2>2, <2>3 DEF Grown
<1>12. Consolidated(r)
  <2>1. Larger(u, f) /\ Larger(i, r)
    BY <1>5, <1>7, <1>9, <1>11, LargerTrans
  <2>2. Larger(u, r)
    BY <1>11, <2>1, LargerTrans
  <2> QED
    BY <1>3, <1>5, <1>7, <1>9, <1>11, <2>1, <2>2 DEF Consolidated, Larger
<1>13. At(2, r)
  BY <1>11, <1>12 DEF At, Early
<1>14. Larger(s, i) /\ Larger(s, k) /\ Larger(s, f) /\ Larger(s, r)
  BY <1>3, <1>5, <1>7, <1>9, <1>11, LargerTrans
<1> QED
  BY <1>2, <1>4, <1>6, <1>8, <1>10, <1>3, <1>5, <1>13, <1>14 DEF SM!Consolidate

-----------------------------------------------------------------------------
(* The other revisions up.                                                   *)

\* A table that is there with its first columns.
LEMMA TableUp ==
    ASSUME NEW s, NEW r, NEW t, NEW names, Sound(s), Grown(s, r, t, names),
           t # "users", Original(t) \subseteq names
    PROVE  /\ Sound(r) /\ Larger(s, r) /\ r.tables = s.tables \cup {t}
           /\ r.naive = s.naive /\ (Soft(s) => Soft(r))
<1>1. Sound(r)
  BY GrownSound
<1>2. SM!In(t, names) \cap SM!In("users", SM!HardeningColumns) = {}
  BY InApart
<1>3. Soft(s) => Soft(r)
  BY <1>2 DEF Soft, Grown
<1> QED
  BY <1>1, <1>3 DEF Grown

LEMMA BillingUp ==
    ASSUME NEW s, At(2, s)
    PROVE  At(3, SM!Billing(s)) /\ Larger(s, SM!Billing(s))
<1>1. Sound(s) /\ Consolidated(s) /\ Unbilled(s) /\ Soft(s) /\ Unrouted(s)
  BY DEF At
<1>2. /\ "subscriptions" \in SM!Registered /\ "usage_tracking" \in SM!Registered
      /\ "billing_events" \in SM!Registered
  BY DEF SM!Registered, SM!AccountTables
<1>3. /\ SM!SubscriptionColumns \in SUBSET Names /\ SM!UsageColumns \in SUBSET Names
      /\ SM!BillingEventColumns \in SUBSET Names
  BY DEF Names
<1>4. PICK a : a = SM!CreateSubscriptions(s)
  OBVIOUS
<1>5. /\ Sound(a) /\ Larger(s, a) /\ a.tables = s.tables \cup {"subscriptions"}
      /\ SM!In("subscriptions", {"user_id", "stripe_subscription_id"}) \subseteq Unique(a)
      /\ Soft(a)
  <2>1. a = Created(s, "subscriptions", SM!SubscriptionColumns,
                    {"user_id", "stripe_subscription_id"},
                    {"user_id", "stripe_subscription_id"}, {})
    BY <1>1, <1>4, CreateSubscriptionsIs DEF Sound
  <2>2. {"user_id", "stripe_subscription_id"} \in SUBSET SM!SubscriptionColumns
    BY NamesWithin
  <2>3. /\ Grown(s, a, "subscriptions", SM!SubscriptionColumns)
        /\ SM!In("subscriptions", {"user_id", "stripe_subscription_id"}) \subseteq Unique(a)
    BY <1>1, <1>2, <1>3, <2>1, <2>2, CreatedGrows
  <2> QED
    BY <1>1, <2>3, TableUp, OriginalNames
<1>6. PICK b : b = SM!CreateUsageTracking(a)
  OBVIOUS
<1>7. /\ Sound(b) /\ Larger(a, b) /\ b.tables = a.tables \cup {"usage_tracking"}
      /\ SM!In("usage_tracking", {"period_start"}) \subseteq Unique(b) /\ Soft(b)
  <2>1. b = Created(a, "usage_tracking", SM!UsageColumns, {"period_start"}, {}, {})
    BY <1>5, <1>6, CreateUsageTrackingIs DEF Sound
  <2>2. {"period_start"} \in SUBSET SM!UsageColumns /\ {} \in SUBSET SM!UsageColumns
    BY NamesWithin
  <2>3. /\ Grown(a, b, "usage_tracking", SM!UsageColumns)
        /\ SM!In("usage_tracking", {"period_start"}) \subseteq Unique(b)
    BY <1>5, <1>2, <1>3, <2>1, <2>2, CreatedGrows
  <2> QED
    BY <1>5, <2>3, TableUp, OriginalNames
<1>8. PICK r : r = SM!CreateBillingEvents(b)
  OBVIOUS
<1>9. /\ Sound(r) /\ Larger(b, r) /\ r.tables = b.tables \cup {"billing_events"}
      /\ SM!In("billing_events", {"stripe_event_id"}) \subseteq Unique(r) /\ Soft(r)
  <2>1. r = Created(b, "billing_events", SM!BillingEventColumns,
                    {"stripe_event_id"}, {"stripe_event_id"}, {})
    BY <1>7, <1>8, CreateBillingEventsIs DEF Sound
  <2>2. {"stripe_event_id"} \in SUBSET SM!BillingEventColumns
    BY NamesWithin
  <2>3. /\ Grown(b, r, "billing_events", SM!BillingEventColumns)
        /\ SM!In("billing_events", {"stripe_event_id"}) \subseteq Unique(r)
    BY <1>7, <1>2, <1>3, <2>1, <2>2, CreatedGrows
  <2> QED
    BY <1>7, <2>3, TableUp, OriginalNames
<1>10. SM!Billing(s) = r
  BY <1>1, <1>4, <1>5, <1>6, <1>7, <1>8 DEF SM!Billing, Unbilled, BillingTables
<1>11. Larger(a, r) /\ Larger(s, r)
  BY <1>5, <1>7, <1>9, LargerTrans
<1>12. Billed(r)
  BY <1>5, <1>7, <1>9, <1>11 DEF Billed, BillingTables, BillingUnique, Larger
<1>13. Consolidated(r) /\ Unrouted(r)
  BY <1>1, <1>5, <1>7, <1>9, <1>11, LargerKeeps DEF Unrouted
<1> QED
  BY <1>9, <1>10, <1>11, <1>12, <1>13 DEF At

LEMMA EnsureUserHardeningGrows ==
    ASSUME NEW s, Sound(s), "users" \in s.tables
    PROVE  /\ Grown(s, SM!EnsureUserHardening(s), "users", SM!HardeningColumns)
           /\ SM!In("users", SM!PendingColumns) \subseteq Unique(SM!EnsureUserHardening(s))
<1>1. /\ s \in Schemas /\ "users" \in SM!Registered /\ SM!HardeningColumns \in SUBSET Names
      /\ SM!PendingColumns \in SUBSET SM!HardeningColumns
  BY NamesWithin DEF Sound, SM!Registered, SM!AccountTables, Names, SM!UserColumns
<1>2. PICK a : a = SM!AddColumns(s, "users", SM!HardeningColumns)
  OBVIOUS
<1>3. Grown(s, a, "users", SM!HardeningColumns)
  BY <1>1, <1>2, AddColumnsGrows
<1>4. PICK d : d = SM!In("users", SM!PendingColumns)
  OBVIOUS
<1>5. d \in SUBSET Columns /\ d \subseteq SM!In("users", SM!HardeningColumns)
  BY <1>1, <1>4, InColumns, InGrows
<1>6. PICK r : r = SM!EnsureUserHardening(s)
  OBVIOUS
<1>7. r = [a EXCEPT !.uniques = @ \cup d]
  BY <1>2, <1>4, <1>6 DEF SM!EnsureUserHardening
<1>8. /\ r \in Schemas /\ r.tables = a.tables /\ r.columns = a.columns
      /\ r.uniques = a.uniques \cup d /\ r.indexes = a.indexes /\ r.fkeys = a.fkeys
      /\ r.naive = a.naive /\ r.defaults = a.defaults
  BY <1>3, <1>5, <1>7 DEF Grown, Schemas
<1>9. Grown(s, r, "users", SM!HardeningColumns)
  BY <1>3, <1>5, <1>8 DEF Grown, Larger, Unique
<1> QED
  BY <1>4, <1>6, <1>8, <1>9 DEF Unique

LEMMA DropDuplicatesKeeps ==
    ASSUME NEW s, Sound(s)
    PROVE  LET r == SM!DropDuplicates(SM!WithZone(s))
           IN  Sound(r) /\ Larger(s, r) /\ r.tables = s.tables /\ r.naive = {}
<1>1. s \in Schemas
  BY DEF Sound
<1>2. PICK z : z = SM!WithZone(s)
  OBVIOUS
<1>3. /\ z \in Schemas /\ z.tables = s.tables /\ z.columns = s.columns
      /\ z.uniques = s.uniques /\ z.indexes = s.indexes /\ z.fkeys = s.fkeys
      /\ z.naive = s.naive \ SM!In("users", SM!NaiveColumns) /\ z.defaults = s.defaults
  BY <1>1, <1>2 DEF SM!WithZone, Schemas
<1>4. PICK r : r = SM!DropDuplicates(z)
  OBVIOUS
<1>5. /\ r \in Schemas /\ r.tables = z.tables /\ r.columns = z.columns
      /\ r.uniques = z.uniques /\ r.indexes = z.indexes \ (SM!Duplicates \cap z.uniques)
      /\ r.fkeys = z.fkeys /\ r.naive = z.naive /\ r.defaults = z.defaults
  BY <1>3, <1>4 DEF SM!DropDuplicates, Schemas
<1>6. Unique(r) = Unique(s)
  BY <1>3, <1>5 DEF Unique
<1>7. r.naive = {}
  BY <1>3, <1>5 DEF Sound
<1>8. Sound(r) /\ Larger(s, r)
  BY <1>3, <1>5, <1>6, <1>7 DEF Sound, Larger
<1> QED
  BY <1>2, <1>3, <1>4, <1>5, <1>7, <1>8

LEMMA HardenUp ==
    ASSUME NEW s, At(3, s)
    PROVE  At(4, SM!Harden(s)) /\ Larger(s, SM!Harden(s))
<1>1. Sound(s) /\ Consolidated(s) /\ Billed(s) /\ Unrouted(s)
  BY DEF At
<1>2. /\ "users" \in s.tables /\ "refresh_tokens" \in s.tables
      /\ "subscriptions" \in s.tables
  BY <1>1 DEF Consolidated, Billed, BillingTables
<1>3. PICK u : u = SM!EnsureUserHardening(s)
  OBVIOUS
<1>4. /\ Sound(u) /\ Larger(s, u) /\ u.tables = s.tables
      /\ SM!In("users", SM!HardeningColumns) \subseteq u.columns
      /\ SM!In("users", SM!PendingColumns) \subseteq Unique(u)
  <2>1. /\ Grown(s, u, "users", SM!HardeningColumns)
        /\ SM!In("users", SM!PendingColumns) \subseteq Unique(u)
    BY <1>1, <1>2, <1>3, EnsureUserHardeningGrows
  <2>2. Sound(u)
    BY <1>1, <1>2, <2>1, GrownSound
  <2> QED
    BY <1>2, <2>1, <2>2 DEF Grown
<1>5. PICK k : k = SM!AddColumns(u, "refresh_tokens", {"last_used_at"})
  OBVIOUS
<1>6. /\ Sound(k) /\ Larger(u, k) /\ k.tables = u.tables
      /\ SM!In("refresh_tokens", {"last_used_at"}) \subseteq k.columns
  <2>1. Grown(u, k, "refresh_tokens", {"last_used_at"})
    BY <1>2, <1>4, <1>5, AddColumnsGrows DEF Names
  <2>2. Sound(k)
    BY <1>2, <1>4, <2>1, GrownSound
  <2> QED
    BY <1>2, <1>4, <2>1, <2>2 DEF Grown
<1>7. PICK b : b = SM!AddColumns(k, "subscriptions", SM!GraceColumns)
  OBVIOUS
<1>8. /\ Sound(b) /\ Larger(k, b) /\ b.tables = k.tables
      /\ SM!In("subscriptions", SM!GraceColumns) \subseteq b.columns
  <2>1. Grown(k, b, "subscriptions", SM!GraceColumns)
    BY <1>2, <1>4, <1>6, <1>7, AddColumnsGrows DEF Names
  <2>2. Sound(b)
    BY <1>2, <1>4, <1>6, <2>1, GrownSound
  <2> QED
    BY <1>2, <1>4, <1>6, <2>1, <2>2 DEF Grown
<1>9. PICK e : e = IF "auth_events" \in b.tables THEN b ELSE SM!CreateAuthEvents(b)
  OBVIOUS
<1>10. Sound(e) /\ Larger(b, e) /\ e.tables = b.tables \cup {"auth_events"}
  <2>1. CASE "auth_events" \in b.tables
    BY <1>8, <1>9, <2>1 DEF Larger
  <2>2. CASE "auth_events" \notin b.tables
    <3>1. /\ "auth_events" \in SM!Registered /\ SM!AuthEventColumns \in SUBSET Names
          /\ {} \in SUBSET SM!AuthEventColumns
      BY DEF SM!Registered, SM!AccountTables, Names
    <3>2. e = Created(b, "auth_events", SM!AuthEventColumns, {}, {}, {})
      BY <1>8, <1>9, <2>2, CreateAuthEventsIs DEF Sound
    <3>3. Grown(b, e, "auth_events", SM!AuthEventColumns)
      BY <1>8, <3>1, <3>2, CreatedGrows
    <3> QED
      BY <1>8, <3>3, TableUp, OriginalNames
  <2> QED
    BY <2>1, <2>2
<1>11. PICK r : r = SM!DropDuplicates(SM!WithZone(e))
  OBVIOUS
<1>12. Sound(r) /\ Larger(e, r) /\ r.tables = e.tables /\ r.naive = {}
  BY <1>10, <1>11, DropDuplicatesKeeps
<1>13. SM!Harden(s) = r
  BY <1>2, <1>3, <1>4, <1>5, <1>6, <1>7, <1>8, <1>9, <1>11 DEF SM!Harden
<1>14. Larger(b, r) /\ Larger(k, r) /\ Larger(u, r) /\ Larger(s, r)
  BY <1>4, <1>6, <1>8, <1>10, <1>12, LargerTrans
<1>15. Hardened(r)
  BY <1>4, <1>6, <1>8, <1>10, <1>12, <1>14 DEF Hardened, Larger
<1>16. Consolidated(r) /\ Billed(r) /\ Unrouted(r)
  BY <1>1, <1>4, <1>6, <1>8, <1>10, <1>12, <1>14, LargerKeeps DEF Unrouted
<1> QED
  BY <1>12, <1>13, <1>14, <1>15, <1>16 DEF At

LEMMA SavedRoutesUp ==
    ASSUME NEW s, At(4, s)
    PROVE  At(5, SM!CreateSavedRoutes(s)) /\ Larger(s, SM!CreateSavedRoutes(s))
<1>1. Sound(s) /\ Consolidated(s) /\ Billed(s) /\ Hardened(s) /\ Unrouted(s)
  BY DEF At
<1>2. PICK r : r = SM!CreateSavedRoutes(s)
  OBVIOUS
<1>3. r = Created(s, "saved_routes", SM!RouteColumns, {"normalized_name"}, {}, {})
  BY <1>1, <1>2, CreateSavedRoutesIs DEF Sound, Unrouted
<1>4. /\ "saved_routes" \in SM!Registered /\ SM!RouteColumns \in SUBSET Names
      /\ {"normalized_name"} \in SUBSET SM!RouteColumns /\ {} \in SUBSET SM!RouteColumns
  BY NamesWithin DEF SM!Registered, SM!AccountTables, Names
<1>5. /\ Sound(r) /\ Larger(s, r) /\ r.tables = s.tables \cup {"saved_routes"}
      /\ r.naive = s.naive /\ SM!In("saved_routes", {"normalized_name"}) \subseteq Unique(r)
  <2>1. /\ Grown(s, r, "saved_routes", SM!RouteColumns)
        /\ SM!In("saved_routes", {"normalized_name"}) \subseteq Unique(r)
    BY <1>1, <1>3, <1>4, CreatedGrows
  <2> QED
    BY <1>1, <2>1, TableUp, OriginalNames
<1>6. Consolidated(r) /\ Billed(r) /\ Hardened(r) /\ Routed(r)
  BY <1>1, <1>5, LargerKeeps DEF Routed
<1> QED
  BY <1>2, <1>5, <1>6 DEF At

\* Columns of users that are added and are no hardening columns.
LEMMA UsersUp ==
    ASSUME NEW s, Sound(s), "users" \in s.tables, NEW names \in SUBSET Names
    PROVE  LET r == SM!AddColumns(s, "users", names)
           IN  /\ Sound(r) /\ Larger(s, r) /\ r.naive = s.naive
               /\ SM!In("users", names) \subseteq r.columns
<1>1. PICK r : r = SM!AddColumns(s, "users", names)
  OBVIOUS
<1>2. Grown(s, r, "users", names)
  BY <1>1, AddColumnsGrows
<1>3. Sound(r)
  BY <1>2, GrownSound
<1> QED
  BY <1>1, <1>2, <1>3 DEF Grown

LEMMA LaterUp ==
    ASSUME NEW s
    PROVE  /\ At(5, s) => At(6, SM!AddOptOut(s)) /\ Larger(s, SM!AddOptOut(s))
           /\ At(6, s) => At(7, SM!AddCompliance(s)) /\ Larger(s, SM!AddCompliance(s))
           /\ At(7, s) => At(8, SM!SetDefaults(s)) /\ Larger(s, SM!SetDefaults(s))
<1>1. SM!OptOutColumns \in SUBSET Names /\ SM!ComplianceColumns \in SUBSET Names
  BY DEF Names, SM!UserColumns
<1>2. ASSUME At(5, s) PROVE At(6, SM!AddOptOut(s)) /\ Larger(s, SM!AddOptOut(s))
  <2>1. Sound(s) /\ Consolidated(s) /\ Billed(s) /\ Hardened(s) /\ Routed(s)
    BY <1>2 DEF At
  <2>2. PICK r : r = SM!AddOptOut(s)
    OBVIOUS
  <2>3. /\ Sound(r) /\ Larger(s, r) /\ r.naive = s.naive
        /\ SM!In("users", SM!OptOutColumns) \subseteq r.columns
    BY <1>1, <2>1, <2>2, UsersUp DEF SM!AddOptOut, Consolidated
  <2> QED
    BY <2>1, <2>2, <2>3, LargerKeeps DEF At, OptedOut
<1>3. ASSUME At(6, s) PROVE At(7, SM!AddCompliance(s)) /\ Larger(s, SM!AddCompliance(s))
  <2>1. /\ Sound(s) /\ Consolidated(s) /\ Billed(s) /\ Hardened(s) /\ Routed(s)
        /\ OptedOut(s)
    BY <1>3 DEF At
  <2>2. PICK r : r = SM!AddCompliance(s)
    OBVIOUS
  <2>3. /\ Sound(r) /\ Larger(s, r) /\ r.naive = s.naive
        /\ SM!In("users", SM!ComplianceColumns) \subseteq r.columns
    BY <1>1, <2>1, <2>2, UsersUp DEF SM!AddCompliance, Consolidated
  <2> QED
    BY <2>1, <2>2, <2>3, LargerKeeps DEF At, Compliant
<1>4. ASSUME At(7, s) PROVE At(8, SM!SetDefaults(s)) /\ Larger(s, SM!SetDefaults(s))
  <2>1. /\ Sound(s) /\ Consolidated(s) /\ Billed(s) /\ Hardened(s) /\ Routed(s)
        /\ OptedOut(s) /\ Compliant(s)
    BY <1>4 DEF At
  <2>2. SM!Timestamps \subseteq s.columns
    <3>1. SM!In("users", SM!BaseColumns) \subseteq s.columns
      BY <2>1, OriginalNames DEF Sound, Consolidated
    <3>2. SM!In("users", SM!AuthColumns) \subseteq s.columns
      BY <2>1 DEF Consolidated
    <3> QED
      BY <3>1, <3>2, NamesWithin DEF SM!Timestamps, SM!In
  <2>3. s \in Schemas
    BY <2>1 DEF Sound
  <2>4. SM!Timestamps \in SUBSET Columns
    BY <2>2, <2>3 DEF Schemas
  <2>5. PICK r : r = SM!SetDefaults(s)
    OBVIOUS
  <2>6. /\ r \in Schemas /\ r.tables = s.tables /\ r.columns = s.columns
        /\ r.uniques = s.uniques /\ r.indexes = s.indexes /\ r.fkeys = s.fkeys
        /\ r.naive = s.naive /\ r.defaults = s.defaults \cup SM!Timestamps
    BY <2>3, <2>4, <2>5 DEF SM!SetDefaults, Schemas
  <2>7. Larger(s, r)
    BY <2>6 DEF Larger, Unique
  <2>8. Sound(r)
    BY <2>1, <2>2, <2>6 DEF Sound, Unique
  <2> QED
    BY <2>1, <2>5, <2>6, <2>7, <2>8, LargerKeeps DEF At, Defaulted
<1> QED
  BY <1>2, <1>3, <1>4

-----------------------------------------------------------------------------
(* Shrinking.                                                                *)

\* r is s without the columns D.
Without(s, r, D) ==
    /\ r \in Schemas
    /\ r.columns = s.columns \ D /\ r.uniques = s.uniques \ D
    /\ r.indexes = s.indexes \ D /\ r.fkeys = s.fkeys \ D
    /\ r.naive = s.naive \ D /\ r.defaults = s.defaults \ D

LEMMA DropColumnsFields ==
    ASSUME NEW s \in Schemas, NEW t, NEW names
    PROVE  /\ Without(s, SM!DropColumns(s, t, names), SM!In(t, names))
           /\ SM!DropColumns(s, t, names).tables = s.tables
BY DEF SM!DropColumns, Schemas, Without

\* All columns of a table go with it.
Of(s, t) == {c \in s.columns : c[1] = t}

LEMMA InOf ==
    ASSUME NEW s, NEW t, NEW names, NEW u, t # u
    PROVE  SM!In(t, names) \cap Of(s, u) = {}
BY DEF SM!In, Of

LEMMA DropTableFields ==
    ASSUME NEW s, Sound(s), NEW t
    PROVE  /\ Without(s, SM!DropTable(s, t), Of(s, t))
           /\ SM!DropTable(s, t).tables = s.tables \ {t}
<1> DEFINE gone == {c \in s.columns : c[1] = t}
           names == {c[2] : c \in gone}
           d == SM!DropColumns(s, t, names)
<1>1. Without(s, d, SM!In(t, names)) /\ d.tables = s.tables
  BY DropColumnsFields DEF Sound
<1>2. SM!DropTable(s, t) = [d EXCEPT !.tables = @ \ {t}]
  BY DEF SM!DropTable
<1>3. \A c \in s.columns : c \in SM!In(t, names) <=> c \in Of(s, t)
  <2> SUFFICES ASSUME NEW c \in s.columns PROVE c \in SM!In(t, names) <=> c \in Of(s, t)
    OBVIOUS
  <2>1. c = <<c[1], c[2]>>
    BY DEF Sound, Schemas, Columns
  <2>2. ASSUME c[1] = t PROVE c \in SM!In(t, names)
    BY <2>1, <2>2, InPairs
  <2>3. ASSUME c \in SM!In(t, names) PROVE c[1] = t
    BY <2>3, InPairs
  <2> QED
    BY <2>1, <2>2, <2>3 DEF Of
<1>4. /\ s.uniques \subseteq s.columns /\ s.indexes \subseteq s.columns
      /\ s.fkeys \subseteq s.columns /\ s.naive \subseteq s.columns
      /\ s.defaults \subseteq s.columns
  BY DEF Sound, Unique
<1>5. Without(s, d, Of(s, t))
  BY <1>1, <1>3, <1>4 DEF Without
<1> QED
  BY <1>1, <1>2, <1>5 DEF Without, Schemas

\* What goes does not touch what a revision made.
LEMMA WithoutKeeps ==
    ASSUME NEW s, NEW r, NEW D, NEW T, Without(s, r, D), r.tables = s.tables \ T
    PROVE  /\ /\ Consolidated(s) /\ T \cap {"users", "refresh_tokens"} = {}
              /\ D \cap SM!In("users", SM!AuthColumns) = {}
              /\ D \cap SM!In("refresh_tokens", SM!RefreshColumns) = {}
              => Consolidated(r)
           /\ Billed(s) /\ T \cap BillingTables = {} /\ D \cap BillingUnique = {}
              => Billed(r)
           /\ /\ Hardened(s) /\ "auth_events" \notin T
              /\ D \cap SM!In("users", SM!HardeningColumns) = {}
              /\ D \cap SM!In("subscriptions", SM!GraceColumns) = {}
              /\ D \cap SM!In("refresh_tokens", {"last_used_at"}) = {}
              => Hardened(r)
           /\ /\ Routed(s) /\ "saved_routes" \notin T
              /\ D \cap SM!In("saved_routes", SM!RouteColumns) = {}
              => Routed(r)
           /\ OptedOut(s) /\ D \cap SM!In("users", SM!OptOutColumns) = {} => OptedOut(r)
           /\ Compliant(s) /\ D \cap SM!In("users", SM!ComplianceColumns) = {} => Compliant(r)
           /\ (Unbilled(s) => Unbilled(r)) /\ (Soft(s) => Soft(r))
           /\ (Unrouted(s) => Unrouted(r))
<1>1. ASSUME Consolidated(s), T \cap {"users", "refresh_tokens"} = {},
             D \cap SM!In("users", SM!AuthColumns) = {},
             D \cap SM!In("refresh_tokens", SM!RefreshColumns) = {}
      PROVE  Consolidated(r)
  <2>1. /\ SM!In("users", SM!TokenColumns) \subseteq SM!In("users", SM!AuthColumns)
        /\ SM!In("refresh_tokens", SM!TokenReferences)
             \subseteq SM!In("refresh_tokens", SM!RefreshColumns)
        /\ SM!In("refresh_tokens", {"token_hash"})
             \subseteq SM!In("refresh_tokens", SM!RefreshColumns)
    BY NamesWithin, InGrows
  <2> QED
    BY <1>1, <2>1 DEF Consolidated, Without, Unique
<1>2. Billed(s) /\ T \cap BillingTables = {} /\ D \cap BillingUnique = {} => Billed(r)
  BY DEF Billed, Without, Unique
<1>3. ASSUME Hardened(s), "auth_events" \notin T,
             D \cap SM!In("users", SM!HardeningColumns) = {},
             D \cap SM!In("subscriptions", SM!GraceColumns) = {},
             D \cap SM!In("refresh_tokens", {"last_used_at"}) = {}
      PROVE  Hardened(r)
  <2>1. SM!In("users", SM!PendingColumns) \subseteq SM!In("users", SM!HardeningColumns)
    BY NamesWithin, InGrows
  <2> QED
    BY <1>3, <2>1 DEF Hardened, Without, Unique
<1>4. ASSUME Routed(s), "saved_routes" \notin T,
             D \cap SM!In("saved_routes", SM!RouteColumns) = {}
      PROVE  Routed(r)
  <2>1. SM!In("saved_routes", {"normalized_name"}) \subseteq SM!In("saved_routes", SM!RouteColumns)
    BY NamesWithin, InGrows
  <2> QED
    BY <1>4, <2>1 DEF Routed, Without, Unique
<1>5. /\ OptedOut(s) /\ D \cap SM!In("users", SM!OptOutColumns) = {} => OptedOut(r)
      /\ Compliant(s) /\ D \cap SM!In("users", SM!ComplianceColumns) = {} => Compliant(r)
      /\ (Unbilled(s) => Unbilled(r)) /\ (Soft(s) => Soft(r))
      /\ (Unrouted(s) => Unrouted(r))
  BY DEF OptedOut, Compliant, Unbilled, Soft, Unrouted, Without
<1> QED
  BY <1>1, <1>2, <1>3, <1>4, <1>5

\* The downgrades drop columns that a revision added to a table.
LEMMA DropColumnsSound ==
    ASSUME NEW s, Sound(s), NEW t, NEW names, names \cap Original(t) = {}
    PROVE  Sound(SM!DropColumns(s, t, names))
<1>1. PICK r : r = SM!DropColumns(s, t, names)
  OBVIOUS
<1>2. Without(s, r, SM!In(t, names)) /\ r.tables = s.tables
  BY <1>1, DropColumnsFields DEF Sound
<1>3. ASSUME NEW u \in s.tables PROVE SM!In(u, Original(u)) \subseteq r.columns
  <2>1. SM!In(t, names) \cap SM!In(u, Original(u)) = {}
    BY InApart
  <2> QED
    BY <1>2, <2>1 DEF Sound, Without
<1>4. "users" \in s.tables => SM!In("users", SM!LegacyUnique) \cap SM!In(t, names) = {}
  <2>1. t # "users" \/ SM!LegacyUnique \cap names = {}
    BY OriginalNames, NamesWithin
  <2> QED
    BY <2>1, InApart
<1>5. Sound(r)
  BY <1>2, <1>3, <1>4 DEF Sound, Without, Unique
<1> QED
  BY <1>1, <1>5

LEMMA DropTableSound ==
    ASSUME NEW s, Sound(s), NEW t, t # "users"
    PROVE  Sound(SM!DropTable(s, t))
<1>1. PICK r : r = SM!DropTable(s, t)
  OBVIOUS
<1>2. Without(s, r, Of(s, t)) /\ r.tables = s.tables \ {t}
  BY <1>1, DropTableFields
<1>3. SM!In("users", SM!LegacyUnique) \cap Of(s, t) = {}
  BY InOf
<1>4. \A c \in r.columns : c[1] \in r.tables
  BY <1>2 DEF Without, Of, Sound
<1>5. ASSUME NEW u \in r.tables PROVE SM!In(u, Original(u)) \subseteq r.columns
  <2>1. SM!In(u, Original(u)) \cap Of(s, t) = {} /\ u \in s.tables
    BY <1>2, InOf
  <2> QED
    BY <1>2, <2>1 DEF Sound, Without
<1>6. Sound(r)
  BY <1>2, <1>3, <1>4, <1>5 DEF Sound, Without, Unique
<1> QED
  BY <1>1, <1>6

\* Everything but a table and its columns.
LEMMA DropTableKeeps ==
    ASSUME NEW s, Sound(s), NEW t, t # "users", NEW r, r = SM!DropTable(s, t)
    PROVE  /\ Sound(r) /\ r.tables = s.tables \ {t}
           /\ Consolidated(s) /\ t # "refresh_tokens" => Consolidated(r)
           /\ Billed(s) /\ t \notin BillingTables => Billed(r)
           /\ /\ Hardened(s) /\ t \notin {"auth_events", "subscriptions", "refresh_tokens"}
              => Hardened(r)
           /\ (Unbilled(s) => Unbilled(r)) /\ (Soft(s) => Soft(r))
           /\ (Unrouted(s) => Unrouted(r))
<1>1. Without(s, r, Of(s, t)) /\ r.tables = s.tables \ {t}
  BY DropTableFields
<1>2. Of(s, t) \cap SM!In("users", SM!AuthColumns) = {} /\ Of(s, t) \cap SM!In("users", SM!HardeningColumns) = {}
  BY InOf
<1>3. /\ t # "refresh_tokens" => /\ Of(s, t) \cap SM!In("refresh_tokens", SM!RefreshColumns) = {}
                                 /\ Of(s, t) \cap SM!In("refresh_tokens", {"last_used_at"}) = {}
      /\ t # "subscriptions" => Of(s, t) \cap SM!In("subscriptions", SM!GraceColumns) = {}
  BY InOf
<1>4. t \notin BillingTables => Of(s, t) \cap BillingUnique = {}
  BY DEF BillingTables, BillingUnique, SM!In, Of
<1>5. /\ t # "refresh_tokens" => {t} \cap {"users", "refresh_tokens"} = {}
      /\ t \notin BillingTables => {t} \cap BillingTables = {}
  OBVIOUS
<1>6. Consolidated(s) /\ t # "refresh_tokens" => Consolidated(r)
  BY <1>1, <1>2, <1>3, <1>5, WithoutKeeps
<1>7. Billed(s) /\ t \notin BillingTables => Billed(r)
  BY <1>1, <1>4, <1>5, WithoutKeeps
<1>8. /\ Hardened(s) /\ t \notin {"auth_events", "subscriptions", "refresh_tokens"}
      => Hardened(r)
  BY <1>1, <1>2, <1>3, WithoutKeeps
<1>9. (Unbilled(s) => Unbilled(r)) /\ (Soft(s) => Soft(r)) /\ (Unrouted(s) => Unrouted(r))
  BY <1>1, WithoutKeeps
<1> QED
  BY <1>1, <1>6, <1>7, <1>8, <1>9, DropTableSound

LEMMA DropColumnsKeeps ==
    ASSUME NEW s, Sound(s), NEW t, NEW names, names \cap Original(t) = {},
           t = "users" => names \cap SM!AuthColumns = {},
           NEW r, r = SM!DropColumns(s, t, names)
    PROVE  /\ Sound(r) /\ r.tables = s.tables /\ r.columns = s.columns \ SM!In(t, names)
           /\ Consolidated(s) => Consolidated(r)
           /\ Billed(s) => Billed(r)
           /\ (Unrouted(s) => Unrouted(r)) /\ (Routed(s) => Routed(r))
           /\ Hardened(s) /\ t = "users" /\ names \cap SM!HardeningColumns = {} => Hardened(r)
           /\ OptedOut(s) /\ t = "users" /\ names \cap SM!OptOutColumns = {} => OptedOut(r)
<1>1. PICK D : D = SM!In(t, names)
  OBVIOUS
<1>2. Without(s, r, D) /\ r.tables = s.tables \ {}
  BY <1>1, DropColumnsFields DEF Sound
<1>3. D \cap SM!In("users", SM!AuthColumns) = {}
  BY <1>1, InApart
<1>4. D \cap SM!In("refresh_tokens", SM!RefreshColumns) = {}
  <2>1. t # "refresh_tokens" \/ names \cap SM!RefreshColumns = {}
    BY OriginalNames
  <2> QED
    BY <1>1, <2>1, InApart
<1>5. D \cap BillingUnique = {}
  <2>1. /\ t # "subscriptions" \/ names \cap {"user_id", "stripe_subscription_id"} = {}
        /\ t # "usage_tracking" \/ names \cap {"period_start"} = {}
        /\ t # "billing_events" \/ names \cap {"stripe_event_id"} = {}
    BY OriginalNames, NamesWithin
  <2>2. D \cap SM!In("subscriptions", {"user_id", "stripe_subscription_id"}) = {}
    BY <1>1, <2>1, InApart
  <2>3. D \cap SM!In("usage_tracking", {"period_start"}) = {}
    BY <1>1, <2>1, InApart
  <2>4. D \cap SM!In("billing_events", {"stripe_event_id"}) = {}
    BY <1>1, <2>1, InApart
  <2> QED
    BY <2>2, <2>3, <2>4 DEF BillingUnique
<1>6. D \cap SM!In("saved_routes", SM!RouteColumns) = {}
  <2>1. t # "saved_routes" \/ names \cap SM!RouteColumns = {}
    BY OriginalNames
  <2> QED
    BY <1>1, <2>1, InApart
<1>7. ASSUME Hardened(s), t = "users", names \cap SM!HardeningColumns = {}
      PROVE  Hardened(r)
  <2>1. /\ D \cap SM!In("users", SM!HardeningColumns) = {}
        /\ D \cap SM!In("subscriptions", SM!GraceColumns) = {}
        /\ D \cap SM!In("refresh_tokens", {"last_used_at"}) = {}
    BY <1>1, <1>7, InApart
  <2> QED
    BY <1>2, <1>7, <2>1, WithoutKeeps
<1>8. ASSUME OptedOut(s), names \cap SM!OptOutColumns = {} PROVE OptedOut(r)
  <2>1. D \cap SM!In("users", SM!OptOutColumns) = {}
    BY <1>1, <1>8, InApart
  <2> QED
    BY <1>2, <1>8, <2>1, WithoutKeeps
<1>9. Sound(r)
  BY DropColumnsSound
<1>10. Consolidated(s) => Consolidated(r)
  <2>1. {} \cap {"users", "refresh_tokens"} = {}
    OBVIOUS
  <2> QED
    BY <1>2, <1>3, <1>4, <2>1, WithoutKeeps
<1>11. (Billed(s) => Billed(r)) /\ (Unrouted(s) => Unrouted(r))
  <2>1. {} \cap BillingTables = {}
    OBVIOUS
  <2>2. Billed(s) => Billed(r)
    BY <1>2, <1>5, <2>1, WithoutKeeps
  <2>3. Unrouted(s) => Unrouted(r)
    BY <1>2, WithoutKeeps
  <2> QED
    BY <2>2, <2>3
<1>12. Routed(s) => Routed(r)
  BY <1>2, <1>6, WithoutKeeps
<1>13. r.tables = s.tables /\ r.columns = s.columns \ SM!In(t, names)
  BY <1>1, <1>2 DEF Without
<1> QED
  BY <1>7, <1>8, <1>9, <1>10, <1>11, <1>12, <1>13

-----------------------------------------------------------------------------
(* The revisions down.                                                       *)

LEMMA ConsolidateDown ==
    ASSUME NEW s, At(2, s)
    PROVE  At(1, SM!Unconsolidate(s)) /\ "users" \in SM!Unconsolidate(s).tables
<1>1. Sound(s) /\ Unbilled(s) /\ Soft(s) /\ Unrouted(s) /\ "users" \in s.tables
  BY DEF At, Consolidated
<1>2. PICK d : d = SM!DropTable(s, "refresh_tokens")
  OBVIOUS
<1>3. Sound(d) /\ Unbilled(d) /\ Soft(d) /\ Unrouted(d) /\ "users" \in d.tables
  BY <1>1, <1>2, DropTableKeeps
<1>4. PICK r : r = SM!DropColumns(d, "users", SM!AuthColumns)
  OBVIOUS
<1>5. Sound(r)
  BY <1>3, <1>4, DropColumnsSound, OriginalNames, NamesApart
<1>6. r.tables = d.tables /\ r.columns = d.columns \ SM!In("users", SM!AuthColumns)
  BY <1>3, <1>4, DropColumnsFields DEF Sound, Without
<1>7. Unbilled(r) /\ Soft(r) /\ Unrouted(r)
  BY <1>3, <1>6 DEF Unbilled, Soft, Unrouted
<1> QED
  BY <1>2, <1>3, <1>4, <1>5, <1>6, <1>7 DEF At, SM!Unconsolidate

LEMMA BillingDown == ASSUME NEW s, At(3, s) PROVE At(2, SM!Unbilling(s))
<1>1. Sound(s) /\ Consolidated(s) /\ Soft(s) /\ Unrouted(s)
  BY DEF At
<1>2. PICK a : a = SM!DropTable(s, "billing_events")
  OBVIOUS
<1>3. /\ Sound(a) /\ Consolidated(a) /\ Soft(a) /\ Unrouted(a)
      /\ a.tables = s.tables \ {"billing_events"}
  BY <1>1, <1>2, DropTableKeeps
<1>4. PICK b : b = SM!DropTable(a, "usage_tracking")
  OBVIOUS
<1>5. /\ Sound(b) /\ Consolidated(b) /\ Soft(b) /\ Unrouted(b)
      /\ b.tables = a.tables \ {"usage_tracking"}
  BY <1>3, <1>4, DropTableKeeps
<1>6. PICK r : r = SM!DropTable(b, "subscriptions")
  OBVIOUS
<1>7. /\ Sound(r) /\ Consolidated(r) /\ Soft(r) /\ Unrouted(r)
      /\ r.tables = b.tables \ {"subscriptions"}
  BY <1>5, <1>6, DropTableKeeps
<1>8. Unbilled(r)
  BY <1>3, <1>5, <1>7 DEF Unbilled, BillingTables
<1> QED
  BY <1>2, <1>4, <1>6, <1>7, <1>8 DEF At, SM!Unbilling

LEMMA RecreateDuplicatesKeeps ==
    ASSUME NEW s, Sound(s), Consolidated(s), Billed(s),
           NEW r, r = SM!WithoutZone(SM!RecreateDuplicates(s))
    PROVE  Sound(r) /\ Larger(s, r) /\ r.tables = s.tables
<1>1. s \in Schemas
  BY DEF Sound
<1>2. SM!Duplicates \subseteq s.columns
  <2>1. /\ SM!In("users", SM!BaseColumns) \subseteq s.columns
        /\ SM!In("subscriptions", SM!SubscriptionColumns) \subseteq s.columns
        /\ SM!In("billing_events", SM!BillingEventColumns) \subseteq s.columns
        /\ SM!In("users", SM!AuthColumns) \subseteq s.columns
    BY OriginalNames DEF Sound, Consolidated, Billed, BillingTables
  <2>2. /\ SM!In("users", SM!LegacyUnique \cup SM!TokenColumns)
             \subseteq SM!In("users", SM!BaseColumns) \cup SM!In("users", SM!AuthColumns)
    BY NamesWithin DEF SM!In
  <2>3. /\ SM!In("subscriptions", {"user_id", "stripe_subscription_id"})
             \subseteq SM!In("subscriptions", SM!SubscriptionColumns)
        /\ SM!In("billing_events", {"stripe_event_id"})
             \subseteq SM!In("billing_events", SM!BillingEventColumns)
    BY NamesWithin, InGrows
  <2> QED
    BY <2>1, <2>2, <2>3 DEF SM!Duplicates
<1>3. PICK d : d = {c \in SM!Duplicates : c[1] \in s.tables}
  OBVIOUS
<1>4. d \subseteq s.columns /\ d \in SUBSET Columns
  BY <1>1, <1>2, <1>3 DEF Schemas
<1>5. PICK a : a = SM!RecreateDuplicates(s)
  OBVIOUS
<1>6. a = [s EXCEPT !.indexes = @ \cup d]
  BY <1>3, <1>5 DEF SM!RecreateDuplicates
<1>7. /\ a \in Schemas /\ a.tables = s.tables /\ a.columns = s.columns
      /\ a.uniques = s.uniques /\ a.indexes = s.indexes \cup d
      /\ a.fkeys = s.fkeys /\ a.naive = s.naive /\ a.defaults = s.defaults
  BY <1>1, <1>4, <1>6 DEF Schemas
<1>8. PICK z : z = SM!In("users", SM!NaiveColumns) \cap a.columns
  OBVIOUS
<1>9. z \subseteq s.columns /\ z \in SUBSET Columns /\ z \subseteq SM!In("users", SM!NaiveColumns)
  BY <1>7, <1>8 DEF Schemas
<1>10. r = [a EXCEPT !.naive = @ \cup z]
  BY <1>5, <1>8 DEF SM!WithoutZone
<1>11. /\ r \in Schemas /\ r.tables = a.tables /\ r.columns = a.columns
       /\ r.uniques = a.uniques /\ r.indexes = a.indexes
       /\ r.fkeys = a.fkeys /\ r.naive = a.naive \cup z /\ r.defaults = a.defaults
  BY <1>7, <1>9, <1>10 DEF Schemas
<1>12. Larger(s, r)
  BY <1>7, <1>11 DEF Larger, Unique
<1>13. Sound(r)
  BY <1>4, <1>7, <1>9, <1>11 DEF Sound, Unique
<1> QED
  BY <1>7, <1>11, <1>12, <1>13

LEMMA HardenDown == ASSUME NEW s, At(4, s) PROVE At(3, SM!Unharden(s))
<1>1. Sound(s) /\ Consolidated(s) /\ Billed(s) /\ Unrouted(s)
  BY DEF At
<1>2. PICK z : z = SM!WithoutZone(SM!RecreateDuplicates(s))
  OBVIOUS
<1>3. Sound(z) /\ Consolidated(z) /\ Billed(z) /\ Unrouted(z)
  <2>1. Sound(z) /\ Larger(s, z) /\ z.tables = s.tables
    BY <1>1, <1>2, RecreateDuplicatesKeeps
  <2> QED
    BY <1>1, <2>1, LargerKeeps DEF Unrouted
<1>4. PICK p : p = SM!DropTable(z, "auth_events")
  OBVIOUS
<1>5. Sound(p) /\ Consolidated(p) /\ Billed(p) /\ Unrouted(p)
  BY <1>3, <1>4, DropTableKeeps DEF BillingTables
<1>6. PICK b : b = SM!DropColumns(p, "subscriptions", SM!GraceColumns)
  OBVIOUS
<1>7. Sound(b) /\ Consolidated(b) /\ Billed(b) /\ Unrouted(b)
  <2>1. SM!GraceColumns \cap Original("subscriptions") = {}
    BY OriginalNames, NamesApart
  <2> QED
    BY <1>5, <1>6, <2>1, DropColumnsKeeps
<1>8. PICK k : k = SM!DropColumns(b, "refresh_tokens", {"last_used_at"})
  OBVIOUS
<1>9. Sound(k) /\ Consolidated(k) /\ Billed(k) /\ Unrouted(k)
  <2>1. {"last_used_at"} \cap Original("refresh_tokens") = {}
    BY OriginalNames, NamesApart
  <2> QED
    BY <1>7, <1>8, <2>1, DropColumnsKeeps
<1>10. PICK r : r = SM!DropColumns(k, "users", SM!HardeningColumns)
  OBVIOUS
<1>11. /\ Sound(r) /\ Consolidated(r) /\ Billed(r) /\ Unrouted(r)
       /\ r.columns = k.columns \ SM!In("users", SM!HardeningColumns)
  <2>1. /\ SM!HardeningColumns \cap Original("users") = {}
        /\ SM!HardeningColumns \cap SM!AuthColumns = {}
    BY OriginalNames, NamesApart
  <2> QED
    BY <1>9, <1>10, <2>1, DropColumnsKeeps
<1>12. Soft(r)
  BY <1>11 DEF Soft
<1>13. r = SM!Unharden(s)
  BY <1>2, <1>4, <1>6, <1>8, <1>10 DEF SM!Unharden
<1> QED
  BY <1>11, <1>12, <1>13 DEF At

LEMMA LaterDown ==
    ASSUME NEW s
    PROVE  /\ At(5, s) => At(4, SM!DropSavedRoutes(s))
           /\ At(6, s) => At(5, SM!DropOptOut(s))
           /\ At(7, s) => At(6, SM!DropCompliance(s))
           /\ At(8, s) => At(7, SM!DropDefaults(s))
<1>1. ASSUME At(5, s) PROVE At(4, SM!DropSavedRoutes(s))
  <2>1. Sound(s) /\ Consolidated(s) /\ Billed(s) /\ Hardened(s)
    BY <1>1 DEF At
  <2>2. PICK r : r = SM!DropTable(s, "saved_routes")
    OBVIOUS
  <2>3. /\ Sound(r) /\ Consolidated(r) /\ Billed(r) /\ Hardened(r)
        /\ r.tables = s.tables \ {"saved_routes"}
    BY <2>1, <2>2, DropTableKeeps DEF BillingTables
  <2> QED
    BY <2>2, <2>3 DEF At, SM!DropSavedRoutes, Unrouted
<1>2. ASSUME At(6, s) PROVE At(5, SM!DropOptOut(s))
  <2>1. Sound(s) /\ Consolidated(s) /\ Billed(s) /\ Hardened(s) /\ Routed(s)
    BY <1>2 DEF At
  <2>2. PICK r : r = SM!DropColumns(s, "users", SM!OptOutColumns)
    OBVIOUS
  <2>3. /\ SM!OptOutColumns \cap Original("users") = {}
        /\ SM!OptOutColumns \cap SM!AuthColumns = {}
        /\ SM!OptOutColumns \cap SM!HardeningColumns = {}
    BY OriginalNames, NamesApart
  <2>4. Sound(r) /\ Consolidated(r) /\ Billed(r) /\ Hardened(r) /\ Routed(r)
    BY <2>1, <2>2, <2>3, DropColumnsKeeps
  <2> QED
    BY <2>2, <2>4 DEF At, SM!DropOptOut
<1>3. ASSUME At(7, s) PROVE At(6, SM!DropCompliance(s))
  <2>1. /\ Sound(s) /\ Consolidated(s) /\ Billed(s) /\ Hardened(s) /\ Routed(s)
        /\ OptedOut(s)
    BY <1>3 DEF At
  <2>2. PICK r : r = SM!DropColumns(s, "users", SM!ComplianceColumns)
    OBVIOUS
  <2>3. /\ SM!ComplianceColumns \cap Original("users") = {}
        /\ SM!ComplianceColumns \cap SM!AuthColumns = {}
        /\ SM!ComplianceColumns \cap SM!HardeningColumns = {}
        /\ SM!ComplianceColumns \cap SM!OptOutColumns = {}
    BY OriginalNames, NamesApart
  <2>4. /\ Sound(r) /\ Consolidated(r) /\ Billed(r) /\ Hardened(r) /\ Routed(r)
        /\ OptedOut(r)
    BY <2>1, <2>2, <2>3, DropColumnsKeeps
  <2> QED
    BY <2>2, <2>4 DEF At, SM!DropCompliance
<1>4. ASSUME At(8, s) PROVE At(7, SM!DropDefaults(s))
  <2>1. /\ Sound(s) /\ Consolidated(s) /\ Billed(s) /\ Hardened(s) /\ Routed(s)
        /\ OptedOut(s) /\ Compliant(s)
    BY <1>4 DEF At
  <2>2. PICK r : r = SM!DropDefaults(s)
    OBVIOUS
  <2>3. /\ r \in Schemas /\ r.tables = s.tables /\ r.columns = s.columns
        /\ r.uniques = s.uniques /\ r.indexes = s.indexes /\ r.fkeys = s.fkeys
        /\ r.naive = s.naive /\ r.defaults = s.defaults \ SM!Timestamps
    BY <2>1, <2>2 DEF SM!DropDefaults, Schemas, Sound
  <2>4. Sound(r)
    BY <2>1, <2>3 DEF Sound, Unique
  <2>5. Consolidated(r) /\ Billed(r) /\ Hardened(r) /\ Routed(r) /\ OptedOut(r) /\ Compliant(r)
    BY <2>1, <2>3 DEF Consolidated, Billed, Hardened, Routed, OptedOut, Compliant, Unique
  <2> QED
    BY <2>2, <2>4, <2>5 DEF At
<1> QED
  BY <1>1, <1>2, <1>3, <1>4

-----------------------------------------------------------------------------
(* The chain of revisions.                                                   *)

LEMMA HeadIs8 == SM!HeadRevision = 8
BY DEF SM!HeadRevision, SM!Chain

LEMMA UsersFromTwo ==
    ASSUME NEW k \in 0 .. 8, NEW s, At(k, s), k >= 2
    PROVE  "users" \in s.tables
BY DEF At, Consolidated

LEMMA UpgradedAt ==
    ASSUME NEW k \in 1 .. 8, NEW s, At(k - 1, s)
    PROVE  At(k, SM!Upgraded(k, s)) /\ Larger(s, SM!Upgraded(k, s))
<1>1. At(k, SM!Upgraded(k, s)) /\ Larger(s, SM!Upgraded(k, s))
  <2>1. CASE k = 1
    BY <2>1 DEF SM!Upgraded, At, Larger
  <2>2. CASE k = 2
    BY <2>2, ConsolidateUp DEF SM!Upgraded
  <2>3. CASE k = 3
    BY <2>3, BillingUp DEF SM!Upgraded
  <2>4. CASE k = 4
    BY <2>4, HardenUp DEF SM!Upgraded
  <2>5. CASE k = 5
    BY <2>5, SavedRoutesUp DEF SM!Upgraded
  <2>6. CASE k = 6
    BY <2>6, LaterUp DEF SM!Upgraded
  <2>7. CASE k = 7
    BY <2>7, LaterUp DEF SM!Upgraded
  <2>8. CASE k = 8
    BY <2>8, LaterUp DEF SM!Upgraded
  <2> QED
    BY <2>1, <2>2, <2>3, <2>4, <2>5, <2>6, <2>7, <2>8
<1> QED
  BY <1>1

LEMMA DowngradedAt ==
    ASSUME NEW k \in 1 .. 8, NEW s, At(k, s)
    PROVE  /\ At(k - 1, SM!Downgraded(k, s))
           /\ "users" \in s.tables => "users" \in SM!Downgraded(k, s).tables
<1>1. At(k - 1, SM!Downgraded(k, s))
  <2>1. CASE k = 1
    BY <2>1 DEF SM!Downgraded, At
  <2>2. CASE k = 2
    BY <2>2, ConsolidateDown DEF SM!Downgraded
  <2>3. CASE k = 3
    BY <2>3, BillingDown DEF SM!Downgraded
  <2>4. CASE k = 4
    BY <2>4, HardenDown DEF SM!Downgraded
  <2>5. CASE k = 5
    BY <2>5, LaterDown DEF SM!Downgraded
  <2>6. CASE k = 6
    BY <2>6, LaterDown DEF SM!Downgraded
  <2>7. CASE k = 7
    BY <2>7, LaterDown DEF SM!Downgraded
  <2>8. CASE k = 8
    BY <2>8, LaterDown DEF SM!Downgraded
  <2> QED
    BY <2>1, <2>2, <2>3, <2>4, <2>5, <2>6, <2>7, <2>8
<1>2. CASE k = 1
  BY <1>1, <1>2 DEF SM!Downgraded
<1>3. CASE k = 2
  BY <1>1, <1>3, ConsolidateDown DEF SM!Downgraded
<1>4. CASE k \notin {1, 2}
  <2>1. k - 1 \in 0 .. 8 /\ k - 1 >= 2
    BY <1>4
  <2> QED
    BY <1>1, <2>1, UsersFromTwo
<1> QED
  BY <1>2, <1>3, <1>4

-----------------------------------------------------------------------------
(* The invariant.                                                            *)

LEMMA EmptyAt == At(0, SM!Empty)
<1>1. SM!Empty \in Schemas
  BY DEF SM!Empty, Schemas
<1>2. Sound(SM!Empty)
  BY <1>1 DEF Sound, SM!Empty, Unique
<1> QED
  BY <1>2 DEF At, Unbilled, Soft, Unrouted, SM!Empty

LEMMA LegacyAt ==
    ASSUME SM!SchemaAssumption, NEW columns \in SUBSET LegacyColumns,
           NEW constrained \in BOOLEAN, NEW naive \in BOOLEAN, NEW tokens \in BOOLEAN
    PROVE  At(0, SM!Legacy(columns, constrained, naive, tokens))
<1> DEFINE all == SM!BaseColumns \cup columns
           unique == SM!In("users", (SM!LegacyUnique \cup SM!TokenColumns) \cap all)
           users == [SM!Empty EXCEPT !.tables = {"users"}, !.columns = SM!In("users", all),
                       !.uniques = IF constrained THEN unique ELSE {},
                       !.indexes = IF constrained THEN {} ELSE unique,
                       !.naive = IF naive THEN SM!In("users", SM!NaiveColumns) ELSE {},
                       !.defaults = SM!In("users", {"created_at"})]
<1>1. PICK u : u = users
  OBVIOUS
<1>2. /\ all \in SUBSET Names /\ "users" \in SM!Registered
      /\ SM!In("users", all) \cap SM!In("users", SM!HardeningColumns) = {}
  <2>1. all \subseteq SM!BaseColumns \cup SM!AuthColumns
    BY DEF SM!SchemaAssumption
  <2>2. all \cap SM!HardeningColumns = {}
    BY <2>1, NamesApart
  <2> QED
    BY <2>1, <2>2, InApart DEF Names, SM!UserColumns, SM!Registered, SM!AccountTables
<1>3. /\ SM!In("users", all) \in SUBSET Columns /\ unique \subseteq SM!In("users", all)
      /\ SM!In("users", SM!NaiveColumns) \subseteq SM!In("users", all)
      /\ SM!In("users", {"created_at"}) \subseteq SM!In("users", all)
      /\ SM!In("users", SM!BaseColumns) \subseteq SM!In("users", all)
      /\ SM!In("users", SM!LegacyUnique) \subseteq unique
  BY <1>2, NamesWithin, InGrows, InColumns
<1>4. PICK a : a = SM!In("users", all)
  OBVIOUS
<1>5. PICK q : q = unique
  OBVIOUS
<1>6. PICK n : n = SM!In("users", SM!NaiveColumns)
  OBVIOUS
<1>7. PICK d : d = SM!In("users", {"created_at"})
  OBVIOUS
<1>8. /\ a \in SUBSET Columns /\ q \in SUBSET Columns /\ n \in SUBSET Columns
      /\ d \in SUBSET Columns
  BY <1>3, <1>4, <1>5, <1>6, <1>7
<1>9. u = [tables |-> {"users"}, columns |-> a,
           uniques |-> IF constrained THEN q ELSE {},
           indexes |-> IF constrained THEN {} ELSE q, fkeys |-> {},
           naive |-> IF naive THEN n ELSE {}, defaults |-> d]
  BY <1>1, <1>4, <1>5, <1>6, <1>7 DEF SM!Empty
<1>10. /\ u \in Schemas /\ u.tables = {"users"} /\ u.columns = a /\ u.fkeys = {}
       /\ Unique(u) = q /\ u.naive \subseteq n /\ u.defaults = d
  BY <1>2, <1>8, <1>9 DEF Schemas, Unique
<1>11. Sound(u)
  <2>1. \A c \in u.columns : c[1] \in u.tables
    BY <1>4, <1>10, InPairs
  <2>2. \A t \in u.tables : SM!In(t, Original(t)) \subseteq u.columns
    BY <1>3, <1>4, <1>10, OriginalNames
  <2>3. Unique(u) \cup u.fkeys \cup u.naive \cup u.defaults \subseteq u.columns
    BY <1>3, <1>4, <1>5, <1>6, <1>7, <1>10
  <2> QED
    BY <1>3, <1>5, <1>6, <1>10, <2>1, <2>2, <2>3 DEF Sound
<1>12. Early(u)
  BY <1>2, <1>4, <1>10 DEF Early, Unbilled, Soft, Unrouted, BillingTables
<1>13. CASE ~tokens
  BY <1>1, <1>11, <1>12, <1>13 DEF SM!Legacy, At, Early
<1>14. CASE tokens
  <2>1. PICK k : k = SM!CreateRefreshTokens(u)
    OBVIOUS
  <2>2. k = Created(u, "refresh_tokens", SM!RefreshColumns, {}, {}, SM!TokenReferences)
    BY <1>10, <2>1, CreateRefreshTokensIs
  <2>3. /\ "refresh_tokens" \in SM!Registered /\ SM!RefreshColumns \in SUBSET Names
        /\ SM!TokenReferences \in SUBSET SM!RefreshColumns
    BY NamesWithin DEF SM!Registered, SM!AccountTables, Names
  <2>4. Grown(u, k, "refresh_tokens", SM!RefreshColumns)
    BY <1>11, <2>2, <2>3, CreatedGrows
  <2>5. Sound(k) /\ Early(k)
    BY <1>11, <1>12, <2>4, GrownSound, GrownEarly, OriginalNames DEF BillingTables
  <2>6. PICK r : r = [k EXCEPT !.fkeys = {}]
    OBVIOUS
  <2>7. /\ r \in Schemas /\ r.tables = k.tables /\ r.columns = k.columns
        /\ r.uniques = k.uniques /\ r.indexes = k.indexes /\ r.fkeys = {}
        /\ r.naive = k.naive /\ r.defaults = k.defaults
    BY <2>5, <2>6 DEF Sound, Schemas
  <2>8. Sound(r) /\ Early(r)
    BY <2>5, <2>7 DEF Sound, Unique, Early, Unbilled, Soft, Unrouted
  <2>9. r = SM!Legacy(columns, constrained, naive, tokens)
    BY <1>1, <1>14, <2>1, <2>6 DEF SM!Legacy
  <2> QED
    BY <2>8, <2>9 DEF At, Early
<1> QED
  BY <1>13, <1>14

LEMMA InitMigrated == SM!SchemaAssumption /\ SM!Init => Migrated
<1> SUFFICES ASSUME SM!SchemaAssumption, SM!Init PROVE Migrated
  OBVIOUS
<1>1. At(0, x1)
  BY EmptyAt, LegacyAt DEF SM!Init
<1>2. x2 = 0 /\ x3 = SM!NoRun
  BY DEF SM!Init
<1>3. SM!Empty \in Schemas
  BY EmptyAt DEF At, Sound
<1>4. x3 \in [goal : 0 .. SM!HeadRevision, at : 0 .. SM!HeadRevision, work : Schemas]
  BY <1>2, <1>3, HeadIs8 DEF SM!NoRun
<1>5. x3.at = 0 /\ x3.work = SM!Empty
  BY <1>2 DEF SM!NoRun
<1> QED
  BY <1>1, <1>2, <1>4, <1>5, EmptyAt, HeadIs8 DEF Migrated, Climbing, SM!Running

LEMMA BeginMigrated ==
    ASSUME Migrated, NEW goal \in 0 .. SM!HeadRevision, SM!Begin(goal) PROVE Migrated'
<1>1. x3' \in [goal : 0 .. SM!HeadRevision, at : 0 .. SM!HeadRevision, work : Schemas]
  BY DEF SM!Begin, Migrated, At, Sound
<1>2. /\ x3'.at = x2 /\ x3'.work = x1 /\ x3'.goal = goal
      /\ x1' = x1 /\ x2' = x2
  BY DEF SM!Begin
<1>3. At(x2', x1') /\ At(x3'.at, x3'.work) /\ x2' \in 0 .. SM!HeadRevision
  BY <1>2 DEF Migrated
<1>4. Climbing'
  <2>1. x2 \in 0 .. 8 /\ goal \in 0 .. 8
    BY HeadIs8 DEF Migrated
  <2>2. goal > x2 => x2 \in x2 .. goal
    BY <2>1
  <2> QED
    BY <1>2, <2>2 DEF Climbing, Larger
<1> QED
  BY <1>1, <1>2, <1>3, <1>4 DEF Migrated

LEMMA UpgradeMigrated == ASSUME Migrated, SM!UpgradeOne PROVE Migrated'
<1>1. x3.at \in 0 .. 8 /\ x3.goal \in 0 .. 8 /\ x3.at < x3.goal /\ At(x3.at, x3.work)
  BY HeadIs8 DEF Migrated, SM!UpgradeOne
<1>2. PICK k \in 1 .. 8 : k = x3.at + 1
  BY <1>1
<1>3. PICK w : w = SM!Upgraded(k, x3.work)
  OBVIOUS
<1>4. At(k, w) /\ Larger(x3.work, w) /\ ("users" \in x3.work.tables => "users" \in w.tables)
  <2>1. At(k - 1, x3.work)
    BY <1>1, <1>2
  <2> QED
    BY <1>3, <2>1, UpgradedAt DEF Larger
<1>5. x3' = [x3 EXCEPT !.at = k, !.work = w]
  BY <1>1, <1>2, <1>3 DEF SM!UpgradeOne
<1>6. w \in Schemas
  BY <1>4 DEF At, Sound
<1>7. /\ x3' \in [goal : 0 .. SM!HeadRevision, at : 0 .. SM!HeadRevision, work : Schemas]
      /\ x3'.at = k /\ x3'.work = w /\ x3'.goal = x3.goal
  <2>1. PICK j \in 0 .. SM!HeadRevision : j = k
    BY HeadIs8
  <2>2. PICK r : r = [x3 EXCEPT !.at = j, !.work = w]
    OBVIOUS
  <2>3. x3 \in [goal : 0 .. SM!HeadRevision, at : 0 .. SM!HeadRevision, work : Schemas]
    BY DEF Migrated
  <2>4. /\ r \in [goal : 0 .. SM!HeadRevision, at : 0 .. SM!HeadRevision, work : Schemas]
        /\ r.at = j /\ r.work = w /\ r.goal = x3.goal
    BY <1>6, <2>2, <2>3
  <2>5. x3' = r
    BY <1>5, <2>1, <2>2
  <2> QED
    BY <2>1, <2>4, <2>5
<1>8. x1' = x1 /\ x2' = x2 /\ SM!Running
  BY DEF SM!UpgradeOne
<1>9. At(x2, x1) /\ x2 \in 0 .. SM!HeadRevision
      /\ ("users" \in x1.tables => "users" \in x3.work.tables)
  BY <1>8 DEF Migrated
<1>10. At(x3'.at, x3'.work) /\ At(x2', x1')
  BY <1>4, <1>7, <1>8, <1>9
<1>11. Climbing'
  <2>1. SUFFICES ASSUME x3.goal > x2
                 PROVE  k \in x2 .. x3.goal /\ Larger(x1, w)
    BY <1>7, <1>8 DEF Climbing
  <2>2. x3.at \in x2 .. x3.goal /\ Larger(x1, x3.work)
    BY <1>8, <2>1 DEF Migrated, Climbing
  <2>3. k \in x2 .. x3.goal
    BY <1>1, <1>2, <1>9, <2>2, HeadIs8
  <2> QED
    BY <1>4, <2>2, <2>3, LargerTrans
<1> QED
  BY <1>4, <1>7, <1>8, <1>9, <1>10, <1>11 DEF Migrated

LEMMA DowngradeMigrated == ASSUME Migrated, SM!DowngradeOne PROVE Migrated'
<1>1. x3.at \in 0 .. 8 /\ x3.goal \in 0 .. 8 /\ x3.at > x3.goal /\ At(x3.at, x3.work)
  BY HeadIs8 DEF Migrated, SM!DowngradeOne
<1>2. PICK k \in 1 .. 8 : k = x3.at
  BY <1>1
<1>3. PICK w : w = SM!Downgraded(k, x3.work)
  OBVIOUS
<1>4. At(k - 1, w) /\ ("users" \in x3.work.tables => "users" \in w.tables)
  <2>1. At(k, x3.work)
    BY <1>1, <1>2
  <2> QED
    BY <1>3, <2>1, DowngradedAt
<1>5. x3' = [x3 EXCEPT !.at = k - 1, !.work = w]
  BY <1>1, <1>2, <1>3 DEF SM!DowngradeOne
<1>6. w \in Schemas
  BY <1>4 DEF At, Sound
<1>7. /\ x3' \in [goal : 0 .. SM!HeadRevision, at : 0 .. SM!HeadRevision, work : Schemas]
      /\ x3'.at = k - 1 /\ x3'.work = w /\ x3'.goal = x3.goal
  <2>1. PICK j \in 0 .. SM!HeadRevision : j = k - 1
    BY HeadIs8
  <2>2. PICK r : r = [x3 EXCEPT !.at = j, !.work = w]
    OBVIOUS
  <2>3. x3 \in [goal : 0 .. SM!HeadRevision, at : 0 .. SM!HeadRevision, work : Schemas]
    BY DEF Migrated
  <2>4. /\ r \in [goal : 0 .. SM!HeadRevision, at : 0 .. SM!HeadRevision, work : Schemas]
        /\ r.at = j /\ r.work = w /\ r.goal = x3.goal
    BY <1>6, <2>2, <2>3
  <2>5. x3' = r
    BY <1>5, <2>1, <2>2
  <2> QED
    BY <2>1, <2>4, <2>5
<1>8. x1' = x1 /\ x2' = x2 /\ SM!Running
  BY DEF SM!DowngradeOne
<1>9. At(x2, x1) /\ x2 \in 0 .. SM!HeadRevision
      /\ ("users" \in x1.tables => "users" \in x3.work.tables)
  BY <1>8 DEF Migrated
<1>10. At(x3'.at, x3'.work) /\ At(x2', x1')
  BY <1>4, <1>7, <1>8, <1>9
<1>11. Climbing'
  <2>1. ~(x3.goal > x2)
    BY <1>1, <1>8, <1>9, HeadIs8 DEF Migrated, Climbing
  <2> QED
    BY <1>7, <1>8, <2>1 DEF Climbing
<1> QED
  BY <1>4, <1>7, <1>8, <1>9, <1>10, <1>11 DEF Migrated

LEMMA NoRunIs ==
    /\ SM!NoRun \in [goal : 0 .. SM!HeadRevision, at : 0 .. SM!HeadRevision, work : Schemas]
    /\ At(SM!NoRun.at, SM!NoRun.work)
<1>1. SM!Empty \in Schemas
  BY EmptyAt DEF At, Sound
<1>2. SM!NoRun.at = 0 /\ SM!NoRun.work = SM!Empty
  BY DEF SM!NoRun
<1> QED
  BY <1>1, <1>2, EmptyAt, HeadIs8 DEF SM!NoRun

LEMMA CommitMigrated == ASSUME Migrated, SM!Commit PROVE Migrated'
<1>1. x1' = x3.work /\ x2' = x3.at /\ x3' = SM!NoRun
  BY DEF SM!Commit
<1>2. At(x2', x1') /\ x2' \in 0 .. SM!HeadRevision
  BY <1>1 DEF Migrated
<1>3. At(x3'.at, x3'.work) /\ ~SM!Running'
  BY <1>1, NoRunIs DEF SM!Running
<1>4. x3' \in [goal : 0 .. SM!HeadRevision, at : 0 .. SM!HeadRevision, work : Schemas]
  BY <1>1, NoRunIs
<1> QED
  BY <1>2, <1>3, <1>4 DEF Migrated, Climbing

LEMMA AbortMigrated == ASSUME Migrated, SM!Abort PROVE Migrated'
<1>1. x1' = x1 /\ x2' = x2 /\ x3' = SM!NoRun
  BY DEF SM!Abort
<1>2. At(x2', x1') /\ x2' \in 0 .. SM!HeadRevision
  BY <1>1 DEF Migrated
<1>3. At(x3'.at, x3'.work) /\ ~SM!Running'
  BY <1>1, NoRunIs DEF SM!Running
<1>4. x3' \in [goal : 0 .. SM!HeadRevision, at : 0 .. SM!HeadRevision, work : Schemas]
  BY <1>1, NoRunIs
<1> QED
  BY <1>2, <1>3, <1>4 DEF Migrated, Climbing

LEMMA NextMigrated == Migrated /\ [SM!Next]_SM!vars => Migrated'
<1> SUFFICES ASSUME Migrated, [SM!Next]_SM!vars PROVE Migrated'
  OBVIOUS
<1>1. ASSUME NEW goal \in 0 .. SM!HeadRevision, SM!Begin(goal) PROVE Migrated'
  BY <1>1, BeginMigrated
<1>2. CASE SM!UpgradeOne
  BY <1>2, UpgradeMigrated
<1>3. CASE SM!DowngradeOne
  BY <1>3, DowngradeMigrated
<1>4. CASE SM!Commit
  BY <1>4, CommitMigrated
<1>5. CASE SM!Abort
  BY <1>5, AbortMigrated
<1>6. CASE UNCHANGED SM!vars
  <2>1. x1' = x1 /\ x2' = x2 /\ x3' = x3
    BY <1>6 DEF SM!vars
  <2>2. At(x2', x1') /\ At(x3'.at, x3'.work) /\ (SM!Running' <=> SM!Running)
    BY <2>1 DEF Migrated, SM!Running
  <2> QED
    BY <2>1, <2>2 DEF Migrated, Climbing
<1> QED
  BY <1>1, <1>2, <1>3, <1>4, <1>5, <1>6 DEF SM!Next

LEMMA SchemaMigrated == SM!SchemaAssumption => (SM!Spec => []Migrated)
<1> SUFFICES ASSUME SM!SchemaAssumption PROVE SM!Spec => []Migrated
  OBVIOUS
<1> QED
  BY InitMigrated, NextMigrated, PTL DEF SM!Spec

-----------------------------------------------------------------------------
(* The theorems.                                                             *)

LEMMA MigratedTyped == Migrated => SM!TypeOK
<1> SUFFICES ASSUME Migrated PROVE SM!TypeOK
  OBVIOUS
<1>1. Sound(x1) /\ Sound(x3.work)
  BY DEF Migrated, At
<1>2. ASSUME NEW s \in {x1, x3.work}
      PROVE  /\ s.tables \subseteq SM!Registered
             /\ \A c \in s.columns : c[1] \in s.tables
             /\ s.uniques \cup s.indexes \cup s.fkeys \cup s.naive \cup s.defaults
                  \subseteq s.columns
  <2>1. Sound(s)
    BY <1>1, <1>2
  <2> QED
    BY <2>1 DEF Sound, Schemas, Unique
<1> QED
  BY <1>2 DEF SM!TypeOK, Migrated

\* What is unique once the second revision is there.
LEMMA AtKeepsUnique ==
    ASSUME NEW k \in 0 .. 8, k > 1, NEW s, At(k, s)
    PROVE  SM!KeptUnique(SM!MappedUnique, s)
<1>1. Sound(s) /\ Consolidated(s)
  BY DEF At
<1>2. SM!In("users", SM!LegacyUnique) \cup SM!In("users", SM!TokenColumns)
        \cup SM!In("refresh_tokens", {"token_hash"}) \subseteq Unique(s)
  BY <1>1 DEF Sound, Consolidated
<1>3. SM!In("users", SM!PendingColumns) \cap s.columns \subseteq Unique(s)
  <2>1. SM!In("users", SM!PendingColumns) \subseteq SM!In("users", SM!HardeningColumns)
    BY NamesWithin, InGrows
  <2> QED
    BY <2>1 DEF At, Hardened, Soft
<1>4. BillingUnique \cap s.columns \subseteq Unique(s)
  <2>1. CASE Billed(s)
    BY <2>1 DEF Billed
  <2>2. CASE Unbilled(s)
    <3>1. \A c \in BillingUnique : c[1] \in BillingTables
      BY DEF BillingUnique, BillingTables, SM!In
    <3> QED
      BY <1>1, <2>2, <3>1 DEF Unbilled, Sound
  <2> QED
    BY <2>1, <2>2 DEF At
<1>5. SM!In("saved_routes", {"normalized_name"}) \cap s.columns \subseteq Unique(s)
  <2>1. CASE Routed(s)
    BY <2>1 DEF Routed
  <2>2. CASE Unrouted(s)
    <3>1. \A c \in SM!In("saved_routes", {"normalized_name"}) : c[1] = "saved_routes"
      BY InPairs
    <3> QED
      BY <1>1, <2>2, <3>1 DEF Unrouted, Sound
  <2> QED
    BY <2>1, <2>2 DEF At
<1>6. SM!In("users", SM!LegacyUnique \cup SM!TokenColumns \cup SM!PendingColumns)
        \subseteq SM!In("users", SM!LegacyUnique) \cup SM!In("users", SM!TokenColumns)
                    \cup SM!In("users", SM!PendingColumns)
  BY DEF SM!In
<1>7. SM!MappedUnique \cap s.columns \subseteq Unique(s)
  <2>1. SM!MappedUnique \subseteq SM!In("users", SM!LegacyUnique) \cup SM!In("users", SM!TokenColumns)
             \cup SM!In("users", SM!PendingColumns) \cup SM!In("refresh_tokens", {"token_hash"})
             \cup BillingUnique \cup SM!In("saved_routes", {"normalized_name"})
    BY <1>6 DEF SM!MappedUnique, BillingUnique
  <2> QED
    BY <1>2, <1>3, <1>4, <1>5, <2>1
<1> QED
  BY <1>7 DEF SM!KeptUnique, Unique

LEMMA MigratedUnique == Migrated => SM!UniqueStays
<1> SUFFICES ASSUME Migrated PROVE SM!UniqueStays
  OBVIOUS
<1>1. x2 > 1 => SM!KeptUnique(SM!MappedUnique, x1)
  BY AtKeepsUnique, HeadIs8 DEF Migrated
<1>2. x3.at > 1 => SM!KeptUnique(SM!MappedUnique, x3.work)
  BY AtKeepsUnique, HeadIs8 DEF Migrated
<1>3. Sound(x1) /\ Sound(x3.work)
  BY DEF Migrated, At
<1>4. ASSUME NEW s \in {x1, x3.work}
      PROVE  /\ SM!KeptUnique(SM!In("users", SM!LegacyUnique), s)
             /\ "users" \in s.tables => SM!In("users", SM!BaseColumns) \subseteq s.columns
  <2>1. Sound(s)
    BY <1>3, <1>4
  <2>2. CASE "users" \in s.tables
    BY <2>1, <2>2, OriginalNames DEF Sound, SM!KeptUnique, Unique
  <2>3. CASE "users" \notin s.tables
    <3>1. \A c \in SM!In("users", SM!LegacyUnique) : c[1] = "users"
      BY InPairs
    <3> QED
      BY <2>1, <2>3, <3>1 DEF Sound, SM!KeptUnique
  <2> QED
    BY <2>2, <2>3
<1>5. SM!Running /\ "users" \in x1.tables => "users" \in x3.work.tables
  BY DEF Migrated
<1> QED
  BY <1>1, <1>2, <1>4, <1>5 DEF SM!UniqueStays

LEMMA AtHeadServes ==
    ASSUME NEW s, At(8, s)
    PROVE  /\ SM!AccountTables \subseteq s.tables
           /\ SM!MappedColumns \subseteq s.columns
           /\ SM!MappedUnique \subseteq s.uniques \cup s.indexes
           /\ s.naive = {} /\ SM!Timestamps \subseteq s.defaults
           /\ SM!In("refresh_tokens", SM!TokenReferences) \subseteq s.fkeys
<1>1. /\ Sound(s) /\ Consolidated(s) /\ Billed(s) /\ Hardened(s) /\ Routed(s)
      /\ OptedOut(s) /\ Compliant(s) /\ Defaulted(s)
  BY DEF At
<1>2. SM!AccountTables \subseteq s.tables
  BY <1>1 DEF SM!AccountTables, Consolidated, Billed, BillingTables, Hardened, Routed
<1>3. /\ SM!In("users", SM!BaseColumns) \subseteq s.columns
      /\ SM!In("refresh_tokens", SM!RefreshColumns) \subseteq s.columns
      /\ SM!In("auth_events", SM!AuthEventColumns) \subseteq s.columns
      /\ SM!In("subscriptions", SM!SubscriptionColumns) \subseteq s.columns
      /\ SM!In("usage_tracking", SM!UsageColumns) \subseteq s.columns
      /\ SM!In("billing_events", SM!BillingEventColumns) \subseteq s.columns
      /\ SM!In("saved_routes", SM!RouteColumns) \subseteq s.columns
  <2>1. \A t \in SM!AccountTables : SM!In(t, Original(t)) \subseteq s.columns
    BY <1>1, <1>2 DEF Sound
  <2> QED
    BY <2>1, OriginalNames DEF SM!AccountTables
<1>4. SM!In("users", SM!UserColumns) \subseteq s.columns
  <2>1. SM!In("users", SM!UserColumns)
          = SM!In("users", SM!BaseColumns) \cup SM!In("users", SM!AuthColumns)
              \cup SM!In("users", SM!HardeningColumns) \cup SM!In("users", SM!OptOutColumns)
              \cup SM!In("users", SM!ComplianceColumns)
    BY DEF SM!UserColumns, SM!In
  <2> QED
    BY <1>1, <1>3, <2>1 DEF Consolidated, Hardened, OptedOut, Compliant
<1>5. /\ SM!In("refresh_tokens", SM!RefreshColumns \cup {"last_used_at"}) \subseteq s.columns
      /\ SM!In("subscriptions", SM!SubscriptionColumns \cup SM!GraceColumns) \subseteq s.columns
  <2>1. /\ SM!In("refresh_tokens", SM!RefreshColumns \cup {"last_used_at"})
             = SM!In("refresh_tokens", SM!RefreshColumns) \cup SM!In("refresh_tokens", {"last_used_at"})
        /\ SM!In("subscriptions", SM!SubscriptionColumns \cup SM!GraceColumns)
             = SM!In("subscriptions", SM!SubscriptionColumns) \cup SM!In("subscriptions", SM!GraceColumns)
    BY DEF SM!In
  <2> QED
    BY <1>1, <1>3, <2>1 DEF Hardened
<1>6. SM!MappedColumns \subseteq s.columns
  BY <1>3, <1>4, <1>5 DEF SM!MappedColumns
<1>7. SM!MappedUnique \subseteq Unique(s)
  <2>1. SM!In("users", SM!LegacyUnique \cup SM!TokenColumns \cup SM!PendingColumns)
          = SM!In("users", SM!LegacyUnique) \cup SM!In("users", SM!TokenColumns)
              \cup SM!In("users", SM!PendingColumns)
    BY DEF SM!In
  <2> QED
    BY <1>1, <2>1 DEF SM!MappedUnique, Sound, Consolidated, Billed, BillingUnique,
        Hardened, Routed
<1> QED
  BY <1>1, <1>2, <1>6, <1>7 DEF Unique, Hardened, Defaulted, Consolidated

LEMMA MigratedServes == Migrated => SM!HeadServesModels
<1> SUFFICES ASSUME Migrated, x2 = SM!HeadRevision PROVE SM!HeadServesModels
  BY DEF SM!HeadServesModels
<1>1. At(8, x1)
  BY HeadIs8 DEF Migrated
<1> QED
  BY <1>1, AtHeadServes DEF SM!HeadServesModels

LEMMA MigratedPreserves == Migrated => SM!UpgradesPreserve
BY DEF Migrated, Climbing, Larger, Unique, SM!UpgradesPreserve, SM!Preserved

\* Every schema the migrations meet or make is one: what they add belongs to a
\* table they made, whatever auth columns the database had.
THEOREM SchemaTyped == ASSUME SM!SchemaAssumption PROVE SM!Spec => []SM!TypeOK
BY SchemaMigrated, MigratedTyped, PTL

\* A database at head serves the ORM classes.
THEOREM HeadAlwaysServes == ASSUME SM!SchemaAssumption PROVE SM!Spec => []SM!HeadServesModels
BY SchemaMigrated, MigratedServes, PTL

\* Unique columns stay unique and a users table stays with its BaseColumns, up or
\* down.
THEOREM UniqueAlwaysStays == ASSUME SM!SchemaAssumption PROVE SM!Spec => []SM!UniqueStays
BY SchemaMigrated, MigratedUnique, PTL

\* An upgrade loses nothing that the database had when it began, also one that a
\* downgrade left behind.
THEOREM UpgradesLoseNothing ==
    ASSUME SM!SchemaAssumption PROVE SM!Spec => []SM!UpgradesPreserve
BY SchemaMigrated, MigratedPreserves, PTL

-----------------------------------------------------------------------------
(* The components of MessagingProofs and WebProofs.                         *)

MP == INSTANCE MessagingProofs
        WITH now <- x1, reports <- x2, votes <- x3, msg <- x4, MaxTime <- ReportTime,
             routes <- x1, used <- x2, req <- x3, tangled <- x4,
             clock <- x1, memory <- x2, reply <- x3, named <- x4, followed <- x5
WP == INSTANCE WebProofs
        WITH server <- x1, aged <- x2, stored <- x3, mounted <- x4, session <- x5,
             armed <- x6, calls <- x7, reloads <- x8, replayed <- x9,
             user <- x1, sub <- x2, created <- x3, sessions <- x4, req <- x5,
             excused <- x6

-----------------------------------------------------------------------------
(* The reports.                                                              *)

\* The component that runs here is the one MessagingProofs is about.
LEMMA SameReports ==
    /\ MP!ReportAssumption
    /\ MP!Init <=> CR!Init
    /\ MP!Next <=> CR!Next
    /\ MP!vars = CR!vars
    /\ MP!TypeOK <=> CR!TypeOK
    /\ MP!StatusIsBacked <=> CR!StatusIsBacked
    /\ MP!LifeIsBounded <=> CR!LifeIsBounded
<1>1. \A S : MP!Cardinality(S) = CR!Cardinality(S)
  BY DEF MP!Cardinality, CR!Cardinality
<1>2. \A S : MP!IsFiniteSet(S) <=> CR!IsFiniteSet(S)
  BY DEF MP!IsFiniteSet, CR!IsFiniteSet
<1>3. MP!ReportAssumption
  BY ComponentAssumption, <1>2 DEF MP!ReportAssumption, CR!ReportAssumption
<1>4. MP!Init <=> CR!Init
  BY DEF MP!Absent, CR!Absent, MP!Idle, CR!Idle, MP!Init, CR!Init
<1>5. MP!Next <=> CR!Next
  BY DEF MP!Answers, CR!Answers, MP!Absent, CR!Absent, MP!Idle, CR!Idle, MP!Tick,
     CR!Tick, MP!PoliceReport, CR!PoliceReport, MP!Active, CR!Active, MP!ReadReport,
     CR!ReadReport, MP!Counted, CR!Counted, MP!Later, CR!Later, MP!Judged, CR!Judged,
     MP!Saved, CR!Saved, MP!CommitVote, CR!CommitVote, MP!Fail, CR!Fail, MP!Next,
     CR!Next
<1>6. MP!vars = CR!vars
  BY DEF MP!vars, CR!vars
<1>7. MP!TypeOK <=> CR!TypeOK
  BY DEF MP!Answers, CR!Answers, MP!Idle, CR!Idle, MP!Statuses, CR!Statuses, MP!Rows,
     CR!Rows, MP!Reading, CR!Reading, MP!TypeOK, CR!TypeOK
<1>8. MP!StatusIsBacked <=> CR!StatusIsBacked
  BY <1>1 DEF MP!Answers, CR!Answers, MP!Said, CR!Said, MP!StatusIsBacked,
     CR!StatusIsBacked
<1>9. MP!LifeIsBounded <=> CR!LifeIsBounded
  BY DEF MP!Absent, CR!Absent, MP!Later, CR!Later, MP!LifeIsBounded, CR!LifeIsBounded
<1> QED
  BY <1>1, <1>2, <1>3, <1>4, <1>5, <1>6, <1>7, <1>8, <1>9

-----------------------------------------------------------------------------
(* The saved routes.                                                         *)

\* The component that runs here is the one MessagingProofs is about.
LEMMA SameRoutes ==
    /\ MP!SR!RouteAssumption
    /\ MP!SR!Init <=> SR!Init
    /\ MP!SR!Next <=> SR!Next
    /\ MP!SR!vars = SR!vars
    /\ MP!SR!TypeOK <=> SR!TypeOK
    /\ MP!SR!ListedNameWorks <=> SR!ListedNameWorks
<1>1. MP!SR!RouteAssumption
  BY ComponentAssumption DEF MP!SR!RouteAssumption, SR!RouteAssumption
<1>2. MP!SR!Init <=> SR!Init
  BY DEF MP!SR!Absent, SR!Absent, MP!SR!Idle, SR!Idle, MP!SR!Init, SR!Init
<1>3. MP!SR!Next <=> SR!Next
  BY DEF MP!SR!Names, SR!Names, MP!SR!Normalized, SR!Normalized, MP!SR!Absent,
     SR!Absent, MP!SR!Idle, SR!Idle, MP!SR!Present, SR!Present, MP!SR!Available,
     SR!Available, MP!SR!ByAlias, SR!ByAlias, MP!SR!Begin, SR!Begin, MP!SR!Create,
     SR!Create, MP!SR!Renaming, SR!Renaming, MP!SR!Rename, SR!Rename, MP!SR!Edit,
     SR!Edit, MP!SR!DeleteById, SR!DeleteById, MP!SR!DeleteByAlias, SR!DeleteByAlias,
     MP!SR!UseBySms, SR!UseBySms, MP!SR!UseOnWeb, SR!UseOnWeb, MP!SR!Unique, SR!Unique,
     MP!SR!Saved, SR!Saved, MP!SR!Done, SR!Done, MP!SR!Insert, SR!Insert, MP!SR!Update,
     SR!Update, MP!SR!Delete, SR!Delete, MP!SR!Fail, SR!Fail, MP!SR!Next, SR!Next
<1>4. MP!SR!vars = SR!vars
  BY DEF MP!SR!vars, SR!vars
<1>5. MP!SR!TypeOK <=> SR!TypeOK
  BY DEF MP!SR!Names, SR!Names, MP!SR!Absent, SR!Absent, MP!SR!Present, SR!Present,
     MP!SR!Rows, SR!Rows, MP!SR!Locals, SR!Locals, MP!SR!TypeOK, SR!TypeOK
<1>6. MP!SR!ListedNameWorks <=> SR!ListedNameWorks
  BY DEF MP!SR!Normalized, SR!Normalized, MP!SR!Absent, SR!Absent, MP!SR!Present,
     SR!Present, MP!SR!ByAlias, SR!ByAlias, MP!SR!Listed, SR!Listed,
     MP!SR!ListedNameWorks, SR!ListedNameWorks
<1> QED
  BY <1>1, <1>2, <1>3, <1>4, <1>5, <1>6

-----------------------------------------------------------------------------
(* The conversation memory.                                                  *)

\* The component that runs here is the one MessagingProofs is about.
LEMMA SameMemory ==
    /\ MP!CM!MemoryAssumption
    /\ MP!CM!Init <=> CM!Init
    /\ MP!CM!Next <=> CM!Next
    /\ MP!CM!vars = CM!vars
    /\ MP!CM!TypeOK <=> CM!TypeOK
    /\ MP!CM!RecentReply <=> CM!RecentReply
<1>1. MP!CM!MemoryAssumption
  BY ComponentAssumption DEF MP!CM!MemoryAssumption, CM!MemoryAssumption
<1>2. MP!CM!Init <=> CM!Init
  BY DEF MP!CM!Things, CM!Things, MP!CM!Never, CM!Never, MP!CM!NoState, CM!NoState,
     MP!CM!NoReply, CM!NoReply, MP!CM!Init, CM!Init
<1>3. MP!CM!Next <=> CM!Next
  BY DEF MP!CM!Things, CM!Things, MP!CM!NoState, CM!NoState, MP!CM!NoReply, CM!NoReply,
     MP!CM!Tick, CM!Tick, MP!CM!Get, CM!Get, MP!CM!Record, CM!Record, MP!CM!Noted,
     CM!Noted, MP!CM!Answered, CM!Answered, MP!CM!TrafficCommand, CM!TrafficCommand,
     MP!CM!Direction, CM!Direction, MP!CM!FromOrigin, CM!FromOrigin,
     MP!CM!NothingToFollow, CM!NothingToFollow, MP!CM!Restart, CM!Restart, MP!CM!Next,
     CM!Next
<1>4. MP!CM!vars = CM!vars
  BY DEF MP!CM!vars, CM!vars
<1>5. MP!CM!TypeOK <=> CM!TypeOK
  BY DEF MP!CM!Things, CM!Things, MP!CM!NoReply, CM!NoReply, MP!CM!States, CM!States,
     MP!CM!Replies, CM!Replies, MP!CM!TypeOK, CM!TypeOK
<1>6. MP!CM!RecentReply <=> CM!RecentReply
  BY DEF MP!CM!NoReply, CM!NoReply, MP!CM!RecentReply, CM!RecentReply
<1> QED
  BY <1>1, <1>2, <1>3, <1>4, <1>5, <1>6

-----------------------------------------------------------------------------
(* The customer.                                                             *)

\* The component that runs here is the one WebProofs is about.
LEMMA SameCustomer ==
    /\ WP!CP!CustomerAssumption
    /\ WP!CP!Init <=> CP!Init
    /\ WP!CP!Next <=> CP!Next
    /\ WP!CP!vars = CP!vars
    /\ WP!CP!TypeOK <=> CP!TypeOK
    /\ WP!CP!PaidIsLinked <=> CP!PaidIsLinked
<1>1. WP!CP!CustomerAssumption
  BY ComponentAssumption DEF WP!CP!CustomerAssumption, CP!CustomerAssumption
<1>2. WP!CP!Init <=> CP!Init
  BY DEF WP!CP!NoRow, CP!NoRow, WP!CP!Row, CP!Row, WP!CP!Idle, CP!Idle, WP!CP!Init,
     CP!Init
<1>3. WP!CP!Next <=> CP!Next
  BY DEF WP!CP!NoRow, CP!NoRow, WP!CP!Row, CP!Row, WP!CP!Idle, CP!Idle, WP!CP!Busy,
     CP!Busy, WP!CP!Started, CP!Started, WP!CP!Goes, CP!Goes, WP!CP!Begin, CP!Begin,
     WP!CP!FindSubscription, CP!FindSubscription, WP!CP!InsertSubscription,
     CP!InsertSubscription, WP!CP!UseExisting, CP!UseExisting, WP!CP!CreateCustomer,
     CP!CreateCustomer, WP!CP!SaveCustomer, CP!SaveCustomer, WP!CP!Done, CP!Done,
     WP!CP!Checkout, CP!Checkout, WP!CP!Completed, CP!Completed, WP!CP!TakeOver,
     CP!TakeOver, WP!CP!SyncSubscription, CP!SyncSubscription, WP!CP!Mirror, CP!Mirror,
     WP!CP!Fail, CP!Fail, WP!CP!Next, CP!Next
<1>4. WP!CP!vars = CP!vars
  BY DEF WP!CP!vars, CP!vars
<1>5. WP!CP!TypeOK <=> CP!TypeOK
  BY DEF WP!CP!Columns, CP!Columns, WP!CP!SubRows, CP!SubRows, WP!CP!Locals, CP!Locals,
     WP!CP!TypeOK, CP!TypeOK
<1>6. WP!CP!PaidIsLinked <=> CP!PaidIsLinked
  BY DEF WP!CP!Row, CP!Row, WP!CP!Busy, CP!Busy, WP!CP!PaidIsLinked, CP!PaidIsLinked
<1> QED
  BY <1>1, <1>2, <1>3, <1>4, <1>5, <1>6

-----------------------------------------------------------------------------
(* The browser's session.                                                    *)

\* The component that runs here is the one WebProofs is about.
LEMMA SameClient ==
    /\ WP!ClientAssumption
    /\ WP!Init <=> CS!Init
    /\ WP!Next <=> CS!Next
    /\ WP!vars = CS!vars
    /\ WP!TypeOK <=> CS!TypeOK
    /\ WP!NeverReplays <=> CS!NeverReplays
<1>1. \A S : WP!Cardinality(S) = CS!Cardinality(S)
  BY DEF WP!Cardinality, CS!Cardinality
<1>2. \A S : WP!IsFiniteSet(S) <=> CS!IsFiniteSet(S)
  BY DEF WP!IsFiniteSet, CS!IsFiniteSet
<1>3. WP!ClientAssumption
  BY ComponentAssumption, <1>2 DEF WP!ClientAssumption, CS!ClientAssumption
<1>4. WP!Init <=> CS!Init
  BY DEF WP!Functions, CS!Functions, WP!Idle, CS!Idle, WP!Init, CS!Init
<1>5. WP!Next <=> CS!Next
  BY DEF WP!Cardinality, CS!Cardinality, WP!client, CS!client, WP!Functions,
     CS!Functions, WP!Idle, CS!Idle, WP!Sent, CS!Sent, WP!Live, CS!Live, WP!MayAct,
     CS!MayAct, WP!Initialized, CS!Initialized, WP!Answer, CS!Answer, WP!Ended,
     CS!Ended, WP!ServeMe, CS!ServeMe, WP!ServeRefresh, CS!ServeRefresh, WP!ServeLogin,
     CS!ServeLogin, WP!ServeLogout, CS!ServeLogout, WP!Serve, CS!Serve, WP!EndElsewhere,
     CS!EndElsewhere, WP!GrowOld, CS!GrowOld, WP!Keep, CS!Keep, WP!Drop, CS!Drop,
     WP!Become, CS!Become, WP!Mount, CS!Mount, WP!Leave, CS!Leave, WP!Fire, CS!Fire,
     WP!Login, CS!Login, WP!Logout, CS!Logout, WP!Load, CS!Load, WP!AfterRefresh,
     CS!AfterRefresh, WP!AfterRotation, CS!AfterRotation, WP!AfterCheck, CS!AfterCheck,
     WP!AfterLogin, CS!AfterLogin, WP!AfterLoad, CS!AfterLoad, WP!AfterLogout,
     CS!AfterLogout, WP!Continue, CS!Continue, WP!Next, CS!Next
<1>6. WP!vars = CS!vars
  BY DEF WP!vars, CS!vars
<1>7. WP!TypeOK <=> CS!TypeOK
  BY DEF WP!Functions, CS!Functions, WP!RequestKinds, CS!RequestKinds, WP!TypeOK,
     CS!TypeOK
<1>8. WP!NeverReplays <=> CS!NeverReplays
  BY <1>1 DEF WP!NeverReplays, CS!NeverReplays
<1> QED
  BY <1>1, <1>2, <1>3, <1>4, <1>5, <1>6, <1>7, <1>8

-----------------------------------------------------------------------------
(* Running one component.                                                   *)

\* Where "reports" runs, a step of MCSpec is one of it.
LEMMA ReportsRun ==
    /\ MCInit /\ subject = "reports" => MP!Init
    /\ (subject = "reports") /\ [MCNext]_MCVars => [MP!Next]_MP!vars
    /\ (subject = "reports") /\ [MCNext]_MCVars => (subject = "reports")'
    /\ ~(subject = "reports") /\ [MCNext]_MCVars => ~(subject = "reports")'
<1>1. MCInit /\ subject = "reports" => MP!Init
  BY SameReports DEF MCInit
<1>2. (subject = "reports") /\ [MCNext]_MCVars => [MP!Next]_MP!vars
  BY SameReports DEF MCNext, MCVars, MP!vars
<1>3. [MCNext]_MCVars => subject' = subject
  BY DEF MCNext, MCVars
<1> QED
  BY <1>1, <1>2, <1>3

\* Where "routes" runs, a step of MCSpec is one of it.
LEMMA RoutesRun ==
    /\ MCInit /\ subject = "routes" => MP!SR!Init
    /\ (subject = "routes") /\ [MCNext]_MCVars => [MP!SR!Next]_MP!SR!vars
    /\ (subject = "routes") /\ [MCNext]_MCVars => (subject = "routes")'
    /\ ~(subject = "routes") /\ [MCNext]_MCVars => ~(subject = "routes")'
<1>1. MCInit /\ subject = "routes" => MP!SR!Init
  BY SameRoutes DEF MCInit
<1>2. (subject = "routes") /\ [MCNext]_MCVars => [MP!SR!Next]_MP!SR!vars
  BY SameRoutes DEF MCNext, MCVars, MP!SR!vars
<1>3. [MCNext]_MCVars => subject' = subject
  BY DEF MCNext, MCVars
<1> QED
  BY <1>1, <1>2, <1>3

\* Where "memory" runs, a step of MCSpec is one of it.
LEMMA MemoryRun ==
    /\ MCInit /\ subject = "memory" => MP!CM!Init
    /\ (subject = "memory") /\ [MCNext]_MCVars => [MP!CM!Next]_MP!CM!vars
    /\ (subject = "memory") /\ [MCNext]_MCVars => (subject = "memory")'
    /\ ~(subject = "memory") /\ [MCNext]_MCVars => ~(subject = "memory")'
<1>1. MCInit /\ subject = "memory" => MP!CM!Init
  BY SameMemory DEF MCInit
<1>2. (subject = "memory") /\ [MCNext]_MCVars => [MP!CM!Next]_MP!CM!vars
  BY SameMemory DEF MCNext, MCVars, MP!CM!vars
<1>3. [MCNext]_MCVars => subject' = subject
  BY DEF MCNext, MCVars
<1> QED
  BY <1>1, <1>2, <1>3

\* Where "customer" runs, a step of MCSpec is one of it.
LEMMA CustomerRun ==
    /\ MCInit /\ subject = "customer" => WP!CP!Init
    /\ (subject = "customer") /\ [MCNext]_MCVars => [WP!CP!Next]_WP!CP!vars
    /\ (subject = "customer") /\ [MCNext]_MCVars => (subject = "customer")'
    /\ ~(subject = "customer") /\ [MCNext]_MCVars => ~(subject = "customer")'
<1>1. MCInit /\ subject = "customer" => WP!CP!Init
  BY SameCustomer DEF MCInit
<1>2. (subject = "customer") /\ [MCNext]_MCVars => [WP!CP!Next]_WP!CP!vars
  BY SameCustomer DEF MCNext, MCVars, WP!CP!vars
<1>3. [MCNext]_MCVars => subject' = subject
  BY DEF MCNext, MCVars
<1> QED
  BY <1>1, <1>2, <1>3

\* Where "client" runs, a step of MCSpec is one of it.
LEMMA ClientRun ==
    /\ MCInit /\ subject = "client" => WP!Init
    /\ (subject = "client") /\ [MCNext]_MCVars => [WP!Next]_WP!vars
    /\ (subject = "client") /\ [MCNext]_MCVars => (subject = "client")'
    /\ ~(subject = "client") /\ [MCNext]_MCVars => ~(subject = "client")'
<1>1. MCInit /\ subject = "client" => WP!Init
  BY SameClient DEF MCInit
<1>2. (subject = "client") /\ [MCNext]_MCVars => [WP!Next]_WP!vars
  BY SameClient DEF MCNext, MCVars, WP!vars
<1>3. [MCNext]_MCVars => subject' = subject
  BY DEF MCNext, MCVars
<1> QED
  BY <1>1, <1>2, <1>3

\* Where "schema" runs, a step of MCSpec is one of it.
LEMMA SchemaRun ==
    /\ MCInit /\ subject = "schema" => SM!Init
    /\ (subject = "schema") /\ [MCNext]_MCVars => [SM!Next]_SM!vars
    /\ (subject = "schema") /\ [MCNext]_MCVars => (subject = "schema")'
    /\ ~(subject = "schema") /\ [MCNext]_MCVars => ~(subject = "schema")'
<1>1. MCInit /\ subject = "schema" => SM!Init
  BY DEF MCInit
<1>2. (subject = "schema") /\ [MCNext]_MCVars => [SM!Next]_SM!vars
  BY DEF MCNext, MCVars, SM!vars
<1>3. [MCNext]_MCVars => subject' = subject
  BY DEF MCNext, MCVars
<1> QED
  BY <1>1, <1>2, <1>3

\* SMS consent makes its own steps or stands still.
LEMMA ConsentRun == (MCInit => Init) /\ ([MCNext]_MCVars => [Next]_vars)
BY DEF MCInit, MCNext, MCVars

\* A report never counts or owes its status to more answers than phones gave,
\* however their votes overlap (CommunityReports).
THEOREM ReportsBacked == MCSpec => []StatusIsBacked
<1>1. MP!Spec => []MP!StatusIsBacked
  BY SameReports, MP!StatusAlwaysBacked
<1>2. MP!StatusIsBacked => StatusIsBacked
  BY SameReports DEF StatusIsBacked
<1>3. ~(subject = "reports") => StatusIsBacked
  BY DEF StatusIsBacked
<1> QED
  BY <1>1, <1>2, <1>3, ReportsRun, PTL DEF MCSpec, MP!Spec

\* No vote ends a report early or keeps it longer than a confirmation made by
\* now could (CommunityReports).
THEOREM ReportsBounded == MCSpec => []LifeIsBounded
<1>1. MP!Spec => []MP!LifeIsBounded
  BY SameReports, MP!LifeAlwaysBounded
<1>2. MP!LifeIsBounded => LifeIsBounded
  BY SameReports DEF LifeIsBounded
<1>3. ~(subject = "reports") => LifeIsBounded
  BY DEF LifeIsBounded
<1> QED
  BY <1>1, <1>2, <1>3, ReportsRun, PTL DEF MCSpec, MP!Spec

\* A route's listed name finds that route, however requests overlap, unless two
\* renames of it did (SavedRoutes).
THEOREM ListedNamesWork == MCSpec => []ListedNameWorks
<1>1. MP!SR!Spec => []MP!SR!ListedNameWorks
  BY SameRoutes, MP!ListedNameAlwaysWorks
<1>2. MP!SR!ListedNameWorks => ListedNameWorks
  BY SameRoutes DEF ListedNameWorks
<1>3. ~(subject = "routes") => ListedNameWorks
  BY DEF ListedNameWorks
<1> QED
  BY <1>1, <1>2, <1>3, RoutesRun, PTL DEF MCSpec, MP!SR!Spec

\* What was paid is linked, unless its request overlapped another or died
\* (CustomerProvisioning).
THEOREM PaidCustomersLinked == MCSpec => []PaidIsLinked
<1>1. WP!CP!Spec => []WP!CP!PaidIsLinked
  BY SameCustomer, WP!PaidAlwaysLinked
<1>2. WP!CP!PaidIsLinked => PaidIsLinked
  BY SameCustomer DEF PaidIsLinked
<1>3. ~(subject = "customer") => PaidIsLinked
  BY DEF PaidIsLinked
<1> QED
  BY <1>1, <1>2, <1>3, CustomerRun, PTL DEF MCSpec, WP!CP!Spec

\* A single tab that nobody reloads and that is answered in time sends no token
\* again after the API rotated it (ClientSession).
THEOREM TokensAreSentOnce == MCSpec => []NeverReplays
<1>1. WP!Spec => []WP!NeverReplays
  BY SameClient, WP!NothingIsReplayed
<1>2. WP!NeverReplays => NeverReplays
  BY SameClient DEF NeverReplays
<1>3. ~(subject = "client") => NeverReplays
  BY DEF NeverReplays
<1> QED
  BY <1>1, <1>2, <1>3, ClientRun, PTL DEF MCSpec, WP!Spec

\* A database at head has what the account tables' classes map, whatever it was
\* before and whichever runs failed (SchemaMigrations).
THEOREM HeadServes == MCSpec => []HeadServesModels
<1>1. SM!Spec => []SM!HeadServesModels
  BY ComponentAssumption, HeadAlwaysServes
<1> QED
  BY <1>1, SchemaRun, PTL DEF MCSpec, HeadServesModels, SM!Spec

\* Unique columns stay unique and a users table stays with its BaseColumns, up or
\* down (SchemaMigrations).
THEOREM UniqueColumnsStay == MCSpec => []UniqueStays
<1>1. SM!Spec => []SM!UniqueStays
  BY ComponentAssumption, UniqueAlwaysStays
<1> QED
  BY <1>1, SchemaRun, PTL DEF MCSpec, UniqueStays, SM!Spec

\* An upgrade loses nothing that the database had when it began
\* (SchemaMigrations).
THEOREM UpgradesKeepAll == MCSpec => []UpgradesPreserve
<1>1. SM!Spec => []SM!UpgradesPreserve
  BY ComponentAssumption, UpgradesLoseNothing
<1> QED
  BY <1>1, SchemaRun, PTL DEF MCSpec, UpgradesPreserve, SM!Spec

\* A follow-up is answered about something its phone named, and named or asked
\* about within the lifetime of a conversation (ConversationMemory).
THEOREM FollowUpsRecent == MCSpec => FollowUpIsRecent
<1>1. MP!CM!Spec => [][MP!CM!RecentReply]_MP!CM!vars
  BY SameMemory, MP!FollowUpsAreRecent DEF MP!CM!FollowUpIsRecent
<1>2. /\ subject = "memory" /\ [MCNext]_MCVars /\ [MP!CM!RecentReply]_MP!CM!vars
      => [subject = "memory" => CM!RecentReply]_<<subject, x1, x2, x3, x4, x5>>
  BY SameMemory DEF MP!CM!vars, MCNext, MCVars
<1>3. ~(subject = "memory") /\ [MCNext]_MCVars
      => [subject = "memory" => CM!RecentReply]_<<subject, x1, x2, x3, x4, x5>>
  OBVIOUS
<1> QED
  BY <1>1, <1>2, <1>3, MemoryRun, PTL DEF MCSpec, MP!CM!Spec, FollowUpIsRecent

\* Every component's state keeps its types.
THEOREM ComponentsAreTyped == MCSpec => []ComponentsTyped
<1>1. MCSpec => []TypeOK
  BY TypeCorrect, ConsentRun, PTL DEF MCSpec, Spec
<1>2. MCSpec => []((subject = "reports") => MP!TypeOK)
  <2>1. MP!Spec => []MP!TypeOK
    BY SameReports, MP!ReportsTyped
  <2> QED
    BY <2>1, ReportsRun, PTL DEF MCSpec, MP!Spec
<1>3. MCSpec => []((subject = "routes") => MP!SR!TypeOK)
  <2>1. MP!SR!Spec => []MP!SR!TypeOK
    BY SameRoutes, MP!RoutesTyped
  <2> QED
    BY <2>1, RoutesRun, PTL DEF MCSpec, MP!SR!Spec
<1>4. MCSpec => []((subject = "customer") => WP!CP!TypeOK)
  <2>1. WP!CP!Spec => []WP!CP!TypeOK
    BY SameCustomer, WP!CustomersTyped
  <2> QED
    BY <2>1, CustomerRun, PTL DEF MCSpec, WP!CP!Spec
<1>5. MCSpec => []((subject = "memory") => MP!CM!TypeOK)
  <2>1. MP!CM!Spec => []MP!CM!TypeOK
    BY SameMemory, MP!MemoryTyped
  <2> QED
    BY <2>1, MemoryRun, PTL DEF MCSpec, MP!CM!Spec
<1>6. MCSpec => []((subject = "schema") => SM!TypeOK)
  <2>1. SM!Spec => []SM!TypeOK
    BY ComponentAssumption, SchemaTyped
  <2> QED
    BY <2>1, SchemaRun, PTL DEF MCSpec, SM!Spec
<1>7. MCSpec => []((subject = "client") => WP!TypeOK)
  <2>1. WP!Spec => []WP!TypeOK
    BY SameClient, WP!SessionsTyped
  <2> QED
    BY <2>1, ClientRun, PTL DEF MCSpec, WP!Spec
<1>8. /\ TypeOK
      /\ (subject = "reports") => MP!TypeOK
      /\ (subject = "routes") => MP!SR!TypeOK
      /\ (subject = "customer") => WP!CP!TypeOK
      /\ (subject = "memory") => MP!CM!TypeOK
      /\ (subject = "schema") => SM!TypeOK
      /\ (subject = "client") => WP!TypeOK
      => ComponentsTyped
  BY SameReports, SameRoutes, SameCustomer, SameMemory, SameClient DEF ComponentsTyped
<1> QED
  BY <1>1, <1>2, <1>3, <1>4, <1>5, <1>6, <1>7, <1>8, PTL
=============================================================================
