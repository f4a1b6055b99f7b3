----------------------- MODULE SubscriptionSyncProofs -----------------------
(* Theorems about SubscriptionSync, for any number of handlers, events,      *)
(* plans and crashes, and any length of the grace period.                    *)
EXTENDS SubscriptionSync, SequenceTheorems, TLAPS

LEMMA NewRowTyped ==
    ASSUME NEW linked \in BOOLEAN
    PROVE  NewRow(linked) \in Rows /\ NewRow(linked).status = "inactive"
BY DEF NewRow, Rows

LEMMA MirrorTyped ==
    ASSUME NEW row \in Rows
    PROVE  MirrorOf(row) \in UserColumns
BY DEF MirrorOf, Rows, UserColumns

\* A slot without a handler.
LEMMA IdleSteady ==
    ASSUME NEW evs, NEW done
    PROVE  Idle \in Locals /\ Steady(Idle, evs, done)
<1>1. NewRow(FALSE) \in Rows /\ MirrorOf(NewRow(FALSE)) \in UserColumns
  BY NewRowTyped, MirrorTyped
<1> QED
  BY <1>1 DEF Idle, Locals, UserColumns, Steps, Steady, NoEvent

\* A column-wise save of typed rows gives a typed row.
LEMMA MergeTyped ==
    ASSUME NEW a \in Rows, NEW b \in Rows, NEW c \in Rows
    PROVE  /\ Merge(a, b, c) \in Rows
           /\ Merge(a, b, c).status \in {b.status, c.status}
BY DEF Merge, Column, Rows

LEMMA SyncedTyped ==
    ASSUME NEW row \in Rows, NEW object \in Objects, NEW t \in 0 .. MaxTime
    PROVE  Synced(row, object, t) \in Rows
<1>1. t + GraceLength \in 0 .. (MaxTime + GraceLength)
  BY SyncAssumption
<1>2. object.status \in StripeStatuses /\ object.plan \in PaidPlans
  BY DEF Objects
<1>3. PICK g : g = IF object.status \notin PastDueStatuses THEN NoGrace
                   ELSE IF row.grace = NoGrace \/ row.grace < t
                   THEN t + GraceLength ELSE row.grace
  OBVIOUS
<1>4. g \in 0 .. (MaxTime + GraceLength) \cup {NoGrace}
  BY <1>1, <1>3 DEF Rows
<1>5. PICK new : new = [row EXCEPT !.status = object.status,
                                   !.plan = object.plan,
                                   !.grace = g, !.linked = TRUE]
  OBVIOUS
<1>6. new \in Rows
  BY <1>2, <1>4, <1>5 DEF Rows
<1>7. HasAccess(new, t) \in BOOLEAN
  BY DEF HasAccess
<1>8. [new EXCEPT !.access = HasAccess(new, t)] \in Rows
  BY <1>6, <1>7 DEF Rows
<1> QED
  BY <1>3, <1>5, <1>8 DEF Synced

LEMMA ShortSequences ==
    ASSUME NEW S, NEW a \in S, NEW b \in S
    PROVE  <<a>> \in Seq(S) /\ <<a, b>> \in Seq(S)
OBVIOUS

LEMMA EmitGrows ==
    ASSUME events \in Seq(Events), NEW es \in Seq(Events), Emit(es)
    PROVE  /\ events' \in Seq(Events)
           /\ Len(events) <= Len(events') /\ Len(events') <= MaxEvents
<1>1. events \o es \in Seq(Events) /\ Len(events \o es) = Len(events) + Len(es)
  BY ConcatProperties
<1>2. Len(es) \in Nat /\ Len(events) \in Nat
  BY LenProperties
<1> QED
  BY <1>1, <1>2 DEF Emit

LEMMA InitAccounted == Init => Accounted
<1> SUFFICES ASSUME Init PROVE Accounted
  OBVIOUS
<1>1. HandlersSteady
  BY IdleSteady DEF Init, HandlersSteady
<1>2. mirror = MirrorOf(sub) /\ loc \in [Workers -> Locals]
      /\ now \in 0 .. MaxTime /\ crashes \in 0 .. MaxCrashes /\ skipped = {}
  BY IdleSteady, SyncAssumption DEF Init
<1>3. CASE NewUser
  <2>1. PICK linked \in BOOLEAN : sub = NewRow(linked)
    BY <1>3 DEF NewUser
  <2>2. sub \in Rows /\ sub.status = "inactive" /\ mirror \in UserColumns
    BY <1>2, <2>1, NewRowTyped, MirrorTyped
  <2>3. events \in Seq(Events) /\ Len(events) = 0
    BY <1>3 DEF NewUser
  <2>4. TypeOK
    BY <1>2, <1>3, <2>2, <2>3, SyncAssumption DEF NewUser, TypeOK
  <2>5. QuietBeforeCheckout /\ NothingForgotten
    BY <1>3, <2>2 DEF Init, NewUser, QuietBeforeCheckout, NothingForgotten
  <2> QED
    BY <1>1, <2>4, <2>5 DEF Accounted
<1>4. CASE Subscriber
  <2>1. PICK p \in PaidPlans :
          /\ stripe = [status |-> "active", plan |-> p]
          /\ sub = SubscribedRow(p)
          /\ events = <<[kind |-> "checkout", snap |-> stripe]>>
    BY <1>4 DEF Subscriber
  <2>2. stripe \in Objects
    BY <2>1 DEF Objects, StripeStatuses, ActiveStatuses
  <2>3. sub \in Rows /\ mirror \in UserColumns
    <3>1. sub \in Rows
      BY <2>1, SyncAssumption
      DEF SubscribedRow, Rows, StripeStatuses, ActiveStatuses
    <3> QED
      BY <1>2, <3>1, MirrorTyped
  <2>4. events \in Seq(Events) /\ Len(events) = 1
    <3>1. [kind |-> "checkout", snap |-> stripe] \in Events
      BY <2>2 DEF Events, EventKinds
    <3> QED
      BY <2>1, <3>1
  <2>5. 1 \in Ids
    BY SyncAssumption DEF Ids
  <2>6. TypeOK
    BY <1>2, <1>4, <2>2, <2>3, <2>4, <2>5, SyncAssumption
    DEF Subscriber, TypeOK
  <2>7. QuietBeforeCheckout /\ NothingForgotten
    <3>1. stripe # Absent
      BY <2>1 DEF Absent
    <3> QED
      BY <1>4, <3>1 DEF Subscriber, QuietBeforeCheckout, NothingForgotten
  <2> QED
    BY <1>1, <2>6, <2>7 DEF Accounted
<1> QED
  BY <1>3, <1>4 DEF Init

-----------------------------------------------------------------------------
(* One handler moves on.                                                   *)

\* Events and what is accounted for only grow.
HistoryGrows ==
    /\ Len(events) <= Len(events')
    /\ applied \subseteq applied' /\ skipped \subseteq skipped'

LEMMA GotoKeepsSteady ==
    ASSUME Accounted, HistoryGrows,
           Len(events) \in Nat, Len(events') \in Nat,
           NEW w \in Workers, NEW l \in Locals,
           Goto(w, l), Steady(l, events', applied' \cup skipped')
    PROVE  loc' \in [Workers -> Locals] /\ HandlersSteady'
<1>1. loc' \in [Workers -> Locals]
  BY DEF Accounted, TypeOK, Goto
<1>2. ASSUME NEW v \in Workers
      PROVE  Steady(loc'[v], events', applied' \cup skipped')
  <2>1. CASE v = w
    BY <2>1 DEF Goto, Accounted, TypeOK
  <2>2. CASE v # w
    <3>1. loc'[v] = loc[v] /\ loc[v] \in Locals
      BY <2>2 DEF Goto, Accounted, TypeOK
    <3>2. Steady(loc[v], events, applied \cup skipped)
      BY DEF Accounted, HandlersSteady
    <3> QED
      BY <3>1, <3>2 DEF Steady, HistoryGrows, Locals, Ids
  <2> QED
    BY <2>1, <2>2
<1> QED
  BY <1>1, <1>2 DEF HandlersSteady

\* A step of one handler keeps the invariant if what it commits is typed and
\* keeps the books.
LEMMA HandlerStep ==
    ASSUME Accounted, stripe # Absent,
           NEW w \in Workers, NEW l \in Locals, Goto(w, l),
           Steady(l, events', applied' \cup skipped'),
           HistoryGrows, UNCHANGED now,
           stripe' \in Objects,
           events' \in Seq(Events), Len(events') <= MaxEvents,
           acked' \subseteq Ids, ledger' \subseteq Ids,
           sub' \in Rows, mirror' \in UserColumns, crashes' \in 0 .. MaxCrashes,
           applied' \subseteq Ids, skipped' \subseteq Ids,
           NothingForgotten'
    PROVE  Accounted'
<1>1. Len(events) \in Nat /\ Len(events') \in Nat
  BY LenProperties DEF Accounted, TypeOK
<1>2. loc' \in [Workers -> Locals] /\ HandlersSteady'
  BY <1>1, GotoKeepsSteady
<1>3. TypeOK'
  BY <1>2 DEF Accounted, TypeOK
<1>4. stripe' # Absent
  BY DEF Objects, Absent, StripeStatuses, ActiveStatuses, PastDueStatuses
<1>5. QuietBeforeCheckout'
  BY <1>4 DEF QuietBeforeCheckout
<1> QED
  BY <1>2, <1>3, <1>5 DEF Accounted

\* A handler in flight means that Stripe has a subscription.
LEMMA InFlightMeansSubscribed ==
    ASSUME Accounted, NEW w \in Workers, loc[w].pc # "idle"
    PROVE  stripe # Absent /\ stripe \in Objects
<1>1. Idle.pc = "idle"
  BY DEF Idle
<1>2. stripe # Absent
  BY <1>1 DEF Accounted, QuietBeforeCheckout
<1> QED
  BY <1>2 DEF Accounted, TypeOK

\* The current copy of a handler, with everything the invariant says of it.
LEMMA HandlerFacts ==
    ASSUME Accounted, NEW w \in Workers
    PROVE  /\ loc[w] \in Locals
           /\ Steady(loc[w], events, applied \cup skipped)
           /\ events \in Seq(Events) /\ Len(events) \in Nat
BY LenProperties DEF Accounted, TypeOK, HandlersSteady

\* A handler step that changes nothing but what the handler holds.
LEMMA PrivateStep ==
    ASSUME Accounted, stripe # Absent,
           NEW w \in Workers, NEW l \in Locals, Goto(w, l),
           Steady(l, events, applied \cup skipped),
           UNCHANGED <<now, stripe, events, acked, sub, mirror, ledger, crashes,
                       applied, skipped>>
    PROVE  Accounted'
<1>1. HistoryGrows
  BY LenProperties DEF Accounted, TypeOK, HistoryGrows
<1>2. NothingForgotten'
  BY DEF Accounted, NothingForgotten
<1> QED
  BY <1>1, <1>2, HandlerStep DEF Accounted, TypeOK

-----------------------------------------------------------------------------
(* One lemma per action.                                                   *)

LEMMA ReceiveStep ==
    ASSUME Accounted, NEW w \in Workers, NEW e \in DOMAIN events, Receive(w, e)
    PROVE  Accounted'
<1>1. e \in 1 .. Len(events) /\ e \in Ids /\ e # NoEvent /\ Len(events) \in Nat
  <2>1. events \in Seq(Events) /\ Len(events) <= MaxEvents
    BY DEF Accounted, TypeOK
  <2>2. DOMAIN events = 1 .. Len(events) /\ Len(events) \in Nat
    BY <2>1, LenProperties
  <2> QED
    BY <2>1, <2>2, SyncAssumption DEF Ids, NoEvent
<1>2. stripe # Absent /\ stripe \in Objects
  BY <1>1 DEF Accounted, TypeOK, QuietBeforeCheckout
<1>3. HistoryGrows
  BY <1>1 DEF Receive, HistoryGrows
<1>4. CASE e \in ledger
  <2>1. acked' = acked \cup {e} /\ loc' = loc
    BY <1>4 DEF Receive
  <2>2. UNCHANGED <<now, stripe, events, sub, mirror, ledger, crashes, applied,
                    skipped>>
    BY DEF Receive
  <2>3. TypeOK' /\ HandlersSteady' /\ QuietBeforeCheckout'
    BY <1>1, <1>2, <2>1, <2>2
    DEF Accounted, TypeOK, HandlersSteady, QuietBeforeCheckout
  <2>4. NothingForgotten'
    BY <1>4, <2>1, <2>2 DEF Accounted, NothingForgotten
  <2> QED
    BY <2>3, <2>4 DEF Accounted
<1>5. CASE e \notin ledger
  <2>1. PICK l : l = [Idle EXCEPT !.pc = "lookup", !.event = e]
    OBVIOUS
  <2>2. Goto(w, l) /\ UNCHANGED <<now, stripe, events, acked, sub, mirror,
                                  ledger, crashes, applied, skipped>>
    BY <1>5, <2>1 DEF Receive
  <2>3. l \in Locals
    BY <1>1, <2>1, IdleSteady DEF Locals, Steps
  <2>4. Steady(l, events, applied \cup skipped)
    BY <1>1, <2>1 DEF Steady, Idle
  <2> QED
    BY <1>2, <2>2, <2>3, <2>4, PrivateStep
<1> QED
  BY <1>4, <1>5

LEMMA LookupStep ==
    ASSUME Accounted, NEW w \in Workers, Lookup(w)
    PROVE  Accounted'
<1>1. PICK m \in Locals : m = loc[w]
  BY HandlerFacts
<1>2. /\ m.pc = "lookup" /\ stripe # Absent /\ stripe \in Objects
      /\ Steady(m, events, applied \cup skipped)
      /\ events \in Seq(Events) /\ Len(events) \in Nat
  BY <1>1, HandlerFacts, InFlightMeansSubscribed DEF Lookup
<1>3. /\ m.event # NoEvent /\ m.event \in 1 .. Len(events) /\ m.event \in Ids
  BY <1>2 DEF Steady, Locals
<1>4. PICK e \in Events : e = events[m.event]
  BY <1>2, <1>3, ElementOfSeq
<1>5. PICK l : l = [m EXCEPT !.user = mirror]
  OBVIOUS
<1>6. l \in Locals /\ l.event = m.event /\ sub \in Rows
  BY <1>5 DEF Accounted, TypeOK, Locals
<1>7. UNCHANGED <<now, stripe, events, acked, sub, mirror, ledger, crashes,
                  applied>>
  BY DEF Lookup
<1>8. CASE /\ e.kind = "checkout" /\ UNCHANGED skipped
           /\ Goto(w, [l EXCEPT !.pc = "retrieve", !.next = "load"])
  <2>1. PICK k : k = [l EXCEPT !.pc = "retrieve", !.next = "load"]
    OBVIOUS
  <2>2. k \in Locals /\ Steady(k, events, applied \cup skipped)
    BY <1>3, <1>6, <2>1 DEF Locals, Steps, Steady
  <2> QED
    BY <1>2, <1>7, <1>8, <2>1, <2>2, PrivateStep
<1>9. CASE /\ e.kind = "current" /\ UNCHANGED skipped
           /\ Goto(w, [l EXCEPT !.pc = "retrieve", !.row = sub,
                                !.next = "heal"])
  <2>1. PICK k : k = [l EXCEPT !.pc = "retrieve", !.row = sub, !.next = "heal"]
    OBVIOUS
  <2>2. k \in Locals /\ Steady(k, events, applied \cup skipped)
    BY <1>3, <1>6, <2>1 DEF Locals, Steps, Steady
  <2> QED
    BY <1>2, <1>7, <1>9, <2>1, <2>2, PrivateStep
<1>10. CASE /\ e.kind = "snapshot" /\ UNCHANGED skipped
            /\ Goto(w, [l EXCEPT !.pc = "heal", !.row = sub, !.snap = e.snap,
                                 !.next = "sync"])
  <2>1. PICK k : k = [l EXCEPT !.pc = "heal", !.row = sub, !.snap = e.snap,
                               !.next = "sync"]
    OBVIOUS
  <2>2. e.snap \in Objects
    BY DEF Events
  <2>3. k \in Locals /\ Steady(k, events, applied \cup skipped)
    BY <1>3, <1>6, <2>1, <2>2 DEF Locals, Steps, Steady
  <2> QED
    BY <1>2, <1>7, <1>10, <2>1, <2>3, PrivateStep
<1>11. CASE /\ skipped' = skipped \cup {l.event}
            /\ Goto(w, [l EXCEPT !.pc = "recheck"])
  <2>1. PICK k : k = [l EXCEPT !.pc = "recheck"]
    OBVIOUS
  <2>2. k \in Locals /\ Steady(k, events', applied' \cup skipped')
    BY <1>3, <1>6, <1>7, <1>11, <2>1 DEF Locals, Steps, Steady
  <2>3. HistoryGrows /\ NothingForgotten'
    BY <1>2, <1>7, <1>11 DEF HistoryGrows, Accounted, NothingForgotten
  <2>4. skipped' \subseteq Ids
    BY <1>3, <1>6, <1>11 DEF Accounted, TypeOK
  <2> QED
    BY <1>2, <1>7, <1>11, <2>1, <2>2, <2>3, <2>4, HandlerStep
    DEF Accounted, TypeOK
<1> QED
  BY <1>1, <1>4, <1>5, <1>8, <1>9, <1>10, <1>11 DEF Lookup

LEMMA RetrieveStep ==
    ASSUME Accounted, NEW w \in Workers, Retrieve(w)
    PROVE  Accounted'
<1>1. PICK m \in Locals : m = loc[w]
  BY HandlerFacts
<1>2. /\ m.pc = "retrieve" /\ stripe # Absent /\ stripe \in Objects
      /\ Steady(m, events, applied \cup skipped)
  BY <1>1, HandlerFacts, InFlightMeansSubscribed DEF Retrieve
<1>3. PICK k : k = [m EXCEPT !.pc = m.next, !.snap = stripe, !.next = "sync"]
  OBVIOUS
<1>4. k \in Locals /\ Steady(k, events, applied \cup skipped)
  BY <1>2, <1>3 DEF Locals, Steps, Steady
<1> QED
  BY <1>1, <1>2, <1>3, <1>4, PrivateStep DEF Retrieve

LEMMA LoadStep ==
    ASSUME Accounted, NEW w \in Workers, Load(w)
    PROVE  Accounted'
<1>1. PICK m \in Locals : m = loc[w]
  BY HandlerFacts
<1>2. /\ m.pc = "load" /\ stripe # Absent /\ sub \in Rows
      /\ Steady(m, events, applied \cup skipped)
  BY <1>1, HandlerFacts, InFlightMeansSubscribed DEF Load, Accounted, TypeOK
<1>3. PICK k : k = [m EXCEPT !.pc = "heal", !.row = sub]
  OBVIOUS
<1>4. k \in Locals /\ Steady(k, events, applied \cup skipped)
  BY <1>2, <1>3 DEF Locals, Steps, Steady
<1> QED
  BY <1>1, <1>2, <1>3, <1>4, PrivateStep DEF Load

LEMMA HealStep ==
    ASSUME Accounted, NEW w \in Workers, Heal(w)
    PROVE  Accounted'
<1>1. PICK m \in Locals : m = loc[w]
  BY HandlerFacts
<1>2. /\ m.pc = "heal" /\ stripe # Absent /\ stripe \in Objects /\ sub \in Rows
      /\ Steady(m, events, applied \cup skipped)
      /\ m.row \in Rows
  BY <1>1, HandlerFacts, InFlightMeansSubscribed
  DEF Heal, Accounted, TypeOK, Locals
<1>3. PICK new : new = [m.row EXCEPT !.access = HasAccess(m.row, now)]
  OBVIOUS
<1>4. new \in Rows
  <2>1. HasAccess(m.row, now) \in BOOLEAN
    BY DEF HasAccess
  <2> QED
    BY <1>2, <1>3, <2>1 DEF Rows
<1>5. PICK row : row = Merge(m.row, new, sub)
  OBVIOUS
<1>6. row \in Rows
  BY <1>2, <1>4, <1>5, MergeTyped
<1>7. PICK k : k = [m EXCEPT !.pc = m.next, !.next = "heal",
                             !.row = IF new # m.row THEN row ELSE m.row]
  OBVIOUS
<1>8. sub' = row /\ Goto(w, k)
  BY <1>1, <1>3, <1>5, <1>7 DEF Heal
<1>9. UNCHANGED <<now, stripe, events, acked, mirror, ledger, crashes, applied,
                  skipped>>
  BY DEF Heal
<1>10. k \in Locals /\ Steady(k, events, applied \cup skipped)
  BY <1>2, <1>6, <1>7 DEF Locals, Steps, Steady
<1>11. HistoryGrows /\ NothingForgotten'
  BY <1>9, HandlerFacts DEF HistoryGrows, Accounted, NothingForgotten
<1> QED
  BY <1>2, <1>6, <1>8, <1>9, <1>10, <1>11, HandlerStep DEF Accounted, TypeOK

LEMMA SyncStep ==
    ASSUME Accounted, NEW w \in Workers, Sync(w)
    PROVE  Accounted'
<1>1. PICK m \in Locals : m = loc[w]
  BY HandlerFacts
<1>2. /\ m.pc = "sync" /\ stripe # Absent /\ stripe \in Objects /\ sub \in Rows
      /\ Steady(m, events, applied \cup skipped)
      /\ m.row \in Rows /\ m.snap \in Objects /\ now \in 0 .. MaxTime
  BY <1>1, HandlerFacts, InFlightMeansSubscribed
  DEF Sync, Accounted, TypeOK, Locals, Steady
<1>3. PICK row : row = Merge(m.row, Synced(m.row, m.snap, now), sub)
  OBVIOUS
<1>4. row \in Rows
  BY <1>2, <1>3, MergeTyped, SyncedTyped
<1>5. PICK k : k = [m EXCEPT !.pc = "user", !.row = row]
  OBVIOUS
<1>6. /\ sub' = row /\ Goto(w, k)
      /\ applied' = applied \cup ({m.event} \ {NoEvent})
      /\ UNCHANGED <<now, stripe, events, acked, mirror, ledger, crashes,
                     skipped>>
  BY <1>1, <1>3, <1>5 DEF Sync
<1>7. k \in Locals /\ Steady(k, events', applied' \cup skipped')
  BY <1>2, <1>4, <1>5, <1>6 DEF Locals, Steps, Steady
<1>8. HistoryGrows /\ NothingForgotten'
  BY <1>6, HandlerFacts DEF HistoryGrows, Accounted, NothingForgotten
<1>9. applied' \subseteq Ids
  BY <1>6 DEF Accounted, TypeOK, Locals
<1> QED
  BY <1>2, <1>4, <1>6, <1>7, <1>8, <1>9, HandlerStep DEF Accounted, TypeOK

LEMMA SaveUserStep ==
    ASSUME Accounted, NEW w \in Workers, SaveUser(w)
    PROVE  Accounted'
<1>1. PICK m \in Locals : m = loc[w]
  BY HandlerFacts
<1>2. /\ m.pc = "user" /\ stripe # Absent /\ stripe \in Objects
      /\ Steady(m, events, applied \cup skipped)
  BY <1>1, HandlerFacts, InFlightMeansSubscribed DEF SaveUser
<1>3. mirror' \in UserColumns
  <2>1. m.user \in UserColumns /\ m.row \in Rows /\ mirror \in UserColumns
    BY DEF Accounted, TypeOK, Locals
  <2>2. mirror' = [status |-> Column(m.user.status, m.row.status, mirror.status),
                   plan |-> Column(m.user.plan, m.row.plan, mirror.plan)]
    BY <1>1 DEF SaveUser
  <2> QED
    BY <2>1, <2>2 DEF Column, UserColumns, Rows
<1>4. UNCHANGED <<now, stripe, events, acked, sub, ledger, crashes, applied,
                  skipped>>
  BY DEF SaveUser
<1>5. HistoryGrows /\ NothingForgotten'
  BY <1>4, HandlerFacts DEF HistoryGrows, Accounted, NothingForgotten
<1>6. PICK k : k = [m EXCEPT !.pc = "recheck"]
  OBVIOUS
<1>7. CASE m.event = NoEvent
  <2>1. Goto(w, Idle)
    BY <1>1, <1>7 DEF SaveUser
  <2> QED
    BY <1>2, <1>3, <1>4, <1>5, <2>1, IdleSteady, HandlerStep
    DEF Accounted, TypeOK
<1>8. CASE m.event # NoEvent
  <2>1. Goto(w, k)
    BY <1>1, <1>6, <1>8 DEF SaveUser
  <2>2. k \in Locals /\ Steady(k, events, applied \cup skipped)
    BY <1>2, <1>6, <1>8 DEF Locals, Steps, Steady
  <2> QED
    BY <1>2, <1>3, <1>4, <1>5, <2>1, <2>2, HandlerStep DEF Accounted, TypeOK
<1> QED
  BY <1>7, <1>8

LEMMA RecheckStep ==
    ASSUME Accounted, NEW w \in Workers, Recheck(w)
    PROVE  Accounted'
<1>1. PICK m \in Locals : m = loc[w]
  BY HandlerFacts
<1>2. /\ m.pc = "recheck" /\ stripe # Absent /\ stripe \in Objects
      /\ Steady(m, events, applied \cup skipped)
  BY <1>1, HandlerFacts, InFlightMeansSubscribed DEF Recheck
<1>3. UNCHANGED <<now, stripe, events, sub, mirror, ledger, crashes, applied,
                  skipped>>
  BY DEF Recheck
<1>4. HistoryGrows
  BY <1>3, HandlerFacts DEF HistoryGrows
<1>5. CASE m.event \in ledger
  <2>1. acked' = acked \cup {m.event} /\ Goto(w, Idle)
    BY <1>1, <1>5 DEF Recheck
  <2>2. NothingForgotten' /\ acked' \subseteq Ids
    BY <1>3, <1>5, <2>1 DEF Accounted, NothingForgotten, TypeOK
  <2> QED
    BY <1>2, <1>3, <1>4, <2>1, <2>2, IdleSteady, HandlerStep
    DEF Accounted, TypeOK
<1>6. CASE m.event \notin ledger
  <2>1. PICK k : k = [m EXCEPT !.pc = "record"]
    OBVIOUS
  <2>2. Goto(w, k) /\ acked' = acked
    BY <1>1, <1>6, <2>1 DEF Recheck
  <2>3. k \in Locals /\ Steady(k, events, applied \cup skipped)
    BY <1>2, <2>1 DEF Locals, Steps, Steady
  <2> QED
    BY <1>2, <1>3, <2>2, <2>3, PrivateStep
<1> QED
  BY <1>5, <1>6

LEMMA RecordStep ==
    ASSUME Accounted, NEW w \in Workers, Record(w)
    PROVE  Accounted'
<1>1. PICK m \in Locals : m = loc[w]
  BY HandlerFacts
<1>2. /\ m.pc = "record" /\ stripe # Absent /\ stripe \in Objects
      /\ Steady(m, events, applied \cup skipped)
  BY <1>1, HandlerFacts, InFlightMeansSubscribed DEF Record
<1>3. m.event \in applied \cup skipped /\ m.event \in Ids
  BY <1>2 DEF Steady, Accounted, TypeOK
<1>4. Goto(w, Idle) /\ UNCHANGED <<now, stripe, events, sub, mirror, crashes,
                                   applied, skipped>>
  BY DEF Record
<1>5. \/ UNCHANGED <<ledger, acked>>
      \/ ledger' = ledger \cup {m.event} /\ acked' = acked \cup {m.event}
  BY <1>1 DEF Record
<1>6. HistoryGrows
  BY <1>4, HandlerFacts DEF HistoryGrows
<1>7. NothingForgotten' /\ ledger' \subseteq Ids /\ acked' \subseteq Ids
  BY <1>3, <1>4, <1>5 DEF Accounted, TypeOK, NothingForgotten
<1> QED
  BY <1>2, <1>4, <1>6, <1>7, IdleSteady, HandlerStep DEF Accounted, TypeOK

LEMMA BeginEndpointStep ==
    ASSUME Accounted, NEW w \in Workers, NEW call \in {"retrieve", "modify"},
           BeginEndpoint(w, call)
    PROVE  Accounted'
<1>1. stripe # Absent
  BY DEF BeginEndpoint, Accounted, QuietBeforeCheckout
<1>2. PICK k : k = [Idle EXCEPT !.pc = "heal", !.row = sub, !.user = mirror,
                                !.next = call]
  OBVIOUS
<1>3. k \in Locals
  BY <1>2, IdleSteady DEF Accounted, TypeOK, Locals, Steps
<1>4. Steady(k, events, applied \cup skipped)
  BY <1>2 DEF Steady, Idle
<1> QED
  BY <1>1, <1>2, <1>3, <1>4, PrivateStep DEF BeginEndpoint

LEMMA ModifyStep ==
    ASSUME Accounted, NEW w \in Workers, Modify(w)
    PROVE  Accounted'
<1>1. PICK m \in Locals : m = loc[w]
  BY HandlerFacts
<1>2. /\ m.pc = "modify" /\ stripe # Absent /\ stripe \in Objects
      /\ Steady(m, events, applied \cup skipped)
  BY <1>1, HandlerFacts, InFlightMeansSubscribed DEF Modify
<1>3. PICK p \in PaidPlans : /\ stripe' = [stripe EXCEPT !.plan = p]
                             /\ Emit(<<Event("snapshot", stripe')>>)
  BY DEF Modify
<1>4. stripe' \in Objects
  BY <1>2, <1>3 DEF Objects
<1>5. Event("snapshot", stripe') \in Events
  BY <1>4 DEF Event, Events, EventKinds
<1>6. /\ events' \in Seq(Events)
      /\ Len(events) <= Len(events') /\ Len(events') <= MaxEvents
  <2>1. PICK es \in Seq(Events) : es = <<Event("snapshot", stripe')>>
    BY <1>5, ShortSequences
  <2> QED
    BY <1>3, <2>1, EmitGrows DEF Accounted, TypeOK
<1>7. PICK k : k = [m EXCEPT !.pc = "heal", !.snap = stripe', !.next = "sync"]
  OBVIOUS
<1>8. Goto(w, k) /\ UNCHANGED <<now, acked, sub, mirror, ledger, crashes,
                                applied, skipped>>
  BY <1>1, <1>7 DEF Modify
<1>9. k \in Locals
  BY <1>4, <1>7 DEF Locals, Steps
<1>10. Len(events) \in Nat /\ Len(events') \in Nat
  BY <1>6, LenProperties DEF Accounted, TypeOK
<1>11. Steady(k, events', applied' \cup skipped')
  BY <1>2, <1>4, <1>6, <1>7, <1>10 DEF Locals, Ids, Steady
<1>12. HistoryGrows /\ NothingForgotten'
  BY <1>6, <1>8 DEF HistoryGrows, Accounted, NothingForgotten
<1> QED
  BY <1>2, <1>4, <1>6, <1>8, <1>9, <1>11, <1>12, HandlerStep
  DEF Accounted, TypeOK

LEMMA ModifyFailsStep ==
    ASSUME Accounted, NEW w \in Workers, ModifyFails(w)
    PROVE  Accounted'
<1>1. stripe # Absent
  BY InFlightMeansSubscribed DEF ModifyFails
<1> QED
  BY <1>1, IdleSteady, PrivateStep DEF ModifyFails

LEMMA CrashStep ==
    ASSUME Accounted, NEW w \in Workers, Crash(w)
    PROVE  Accounted'
<1>1. stripe # Absent /\ stripe \in Objects
  BY InFlightMeansSubscribed DEF Crash
<1>2. HistoryGrows /\ NothingForgotten'
  BY HandlerFacts DEF Crash, HistoryGrows, Accounted, NothingForgotten
<1>3. crashes' \in 0 .. MaxCrashes
  BY SyncAssumption DEF Crash, Accounted, TypeOK
<1> QED
  BY <1>1, <1>2, <1>3, IdleSteady, HandlerStep DEF Crash, Accounted, TypeOK

\* What Stripe does on its own is an event or two about a subscription.
LEMMA StripeStep ==
    ASSUME Accounted, stripe' \in Objects,
           events' \in Seq(Events), Len(events) <= Len(events'),
           Len(events') <= MaxEvents,
           UNCHANGED <<now, acked>>, UNCHANGED server
    PROVE  Accounted'
<1>1. Len(events) \in Nat /\ Len(events') \in Nat
  BY LenProperties DEF Accounted, TypeOK
<1>2. TypeOK' /\ NothingForgotten'
  BY DEF Accounted, TypeOK, NothingForgotten, server
<1>3. HandlersSteady'
  <2> SUFFICES ASSUME NEW w \in Workers
               PROVE  Steady(loc[w], events', applied \cup skipped)
    BY DEF HandlersSteady, server
  <2>1. loc[w] \in Locals /\ Steady(loc[w], events, applied \cup skipped)
    BY HandlerFacts
  <2> QED
    BY <1>1, <2>1 DEF Steady, Locals, Ids
<1>4. stripe' # Absent
  BY DEF Objects, Absent, StripeStatuses, ActiveStatuses, PastDueStatuses
<1> QED
  BY <1>2, <1>3, <1>4 DEF Accounted, QuietBeforeCheckout

LEMMA StripeSteps ==
    ASSUME Accounted, CheckoutCompleted \/ StatusChanged \/ InvoiceSettled
    PROVE  Accounted'
<1>1. events \in Seq(Events) /\ stripe \in Objects \cup {Absent}
  BY DEF Accounted, TypeOK
<1>2. \A o \in Objects, k \in EventKinds : Event(k, o) \in Events
  BY DEF Event, Events
<1>3. CASE CheckoutCompleted
  <2>1. PICK p \in PaidPlans :
          /\ stripe' = [status |-> "active", plan |-> p]
          /\ Emit(<<Event("snapshot", stripe'), Event("checkout", stripe')>>)
    BY <1>3 DEF CheckoutCompleted
  <2>2. stripe' \in Objects
    BY <2>1 DEF Objects, StripeStatuses, ActiveStatuses
  <2>3. PICK es \in Seq(Events) :
          es = <<Event("snapshot", stripe'), Event("checkout", stripe')>>
    BY <1>2, <2>2, ShortSequences DEF EventKinds
  <2> QED
    BY <1>1, <1>3, <2>1, <2>2, <2>3, EmitGrows, StripeStep
    DEF CheckoutCompleted
<1>4. CASE StatusChanged
  <2>1. PICK s \in StripeStatuses \ {stripe.status} :
          /\ stripe' = [stripe EXCEPT !.status = s]
          /\ Emit(<<Event("snapshot", stripe')>>)
    BY <1>4 DEF StatusChanged
  <2>2. stripe' \in Objects
    BY <1>1, <1>4, <2>1 DEF Objects, StatusChanged
  <2>3. PICK es \in Seq(Events) : es = <<Event("snapshot", stripe')>>
    BY <1>2, <2>2, ShortSequences DEF EventKinds
  <2> QED
    BY <1>1, <1>4, <2>1, <2>2, <2>3, EmitGrows, StripeStep DEF StatusChanged
<1>5. CASE InvoiceSettled
  <2>1. stripe \in Objects /\ stripe' = stripe
    BY <1>1, <1>5 DEF InvoiceSettled
  <2>2. PICK es \in Seq(Events) : es = <<Event("current", stripe)>>
    BY <1>2, <2>1, ShortSequences DEF EventKinds
  <2> QED
    BY <1>1, <1>5, <2>1, <2>2, EmitGrows, StripeStep DEF InvoiceSettled
<1> QED
  BY <1>3, <1>4, <1>5

LEMMA TickStep ==
    ASSUME Accounted, Tick
    PROVE  Accounted'
<1>1. TypeOK'
  BY SyncAssumption DEF Tick, server, Accounted, TypeOK
<1> QED
  BY <1>1
  DEF Tick, server, Accounted, NothingForgotten, HandlersSteady,
      QuietBeforeCheckout

-----------------------------------------------------------------------------
(* The theorems.                                                           *)

LEMMA NextAccounted == Accounted /\ [Next]_vars => Accounted'
<1> SUFFICES ASSUME Accounted, [Next]_vars PROVE Accounted'
  OBVIOUS
<1>1. CASE CheckoutCompleted \/ StatusChanged \/ InvoiceSettled \/ Tick
  BY <1>1, StripeSteps, TickStep
<1>2. CASE \E w \in Workers : \E e \in DOMAIN events : Receive(w, e)
  BY <1>2, ReceiveStep
<1>3. CASE \E w \in Workers : BeginReconcile(w) \/ BeginModify(w)
  BY <1>3, BeginEndpointStep DEF BeginReconcile, BeginModify
<1>4. CASE \E w \in Workers : Advance(w)
  BY <1>4, LookupStep, RetrieveStep, LoadStep, HealStep, SyncStep,
     SaveUserStep, RecheckStep, RecordStep, ModifyStep, ModifyFailsStep
  DEF Advance
<1>5. CASE \E w \in Workers : Crash(w)
  BY <1>5, CrashStep
<1>6. CASE UNCHANGED vars
  BY <1>6
  DEF vars, Accounted, TypeOK, NothingForgotten, HandlersSteady,
      QuietBeforeCheckout
<1> QED
  BY <1>1, <1>2, <1>3, <1>4, <1>5, <1>6 DEF Next

\* The inductive invariant holds in every reachable state.
THEOREM AlwaysAccounted == Spec => []Accounted
BY InitAccounted, NextAccounted, PTL DEF Spec

\* Type correctness of the rows, the books and the handlers' copies.
THEOREM TypeCorrect == Spec => []TypeOK
BY AlwaysAccounted, PTL DEF Accounted

\* Stripe forgets only recorded events, and a recorded event was applied or had
\* no row, for any number of handlers, crashes and redeliveries.
THEOREM NothingIsForgotten == Spec => []NothingForgotten
BY AlwaysAccounted, PTL DEF Accounted

-----------------------------------------------------------------------------
(* The action property.                                                    *)

\* Only Sync takes a handler from "sync" to "user": any other step moves one
\* handler that is elsewhere, or none.
LEMMA SyncedBySync ==
    ASSUME Accounted, [Next]_vars, NEW v \in Workers, SyncBy(v)
    PROVE  Sync(v)
<1> loc = [u \in Workers |-> loc[u]]
  BY DEF Accounted, TypeOK
<1>1. ASSUME NEW w \in Workers, loc[w].pc # "sync",
             \A u \in Workers \ {w} : loc'[u] = loc[u]
      PROVE  FALSE
  BY <1>1 DEF SyncBy
<1>2. CASE \/ CheckoutCompleted \/ StatusChanged \/ InvoiceSettled \/ Tick
           \/ UNCHANGED vars
  <2>1. loc' = loc
    BY <1>2 DEF CheckoutCompleted, StatusChanged, InvoiceSettled, Tick, server,
                vars
  <2> QED
    BY <2>1 DEF SyncBy
<1>3. ASSUME NEW w \in Workers,
             \/ \E e \in DOMAIN events : Receive(w, e)
             \/ BeginReconcile(w) \/ BeginModify(w)
      PROVE  FALSE
  <2>1. loc[w].pc = "idle"
    BY <1>3 DEF Receive, BeginReconcile, BeginModify, BeginEndpoint
  <2>2. CASE \E e \in DOMAIN events : Receive(w, e)
    BY <1>1, <2>1, <2>2 DEF Receive, Goto
  <2>3. CASE BeginReconcile(w) \/ BeginModify(w)
    BY <1>1, <2>1, <2>3 DEF BeginReconcile, BeginModify, BeginEndpoint, Goto
  <2> QED
    BY <1>3, <2>2, <2>3
<1>4. ASSUME NEW w \in Workers, Advance(w)
      PROVE  Sync(v)
  <2>1. CASE Sync(w)
    <3>1. \A u \in Workers \ {w} : loc'[u] = loc[u]
      BY <2>1 DEF Sync, Goto
    <3> QED
      BY <2>1, <3>1 DEF SyncBy
  <2>2. ASSUME loc[w].pc # "sync", Advance(w)
        PROVE  \A u \in Workers \ {w} : loc'[u] = loc[u]
    <3>1. CASE Lookup(w)
      BY <3>1 DEF Lookup, Goto
    <3>2. CASE Retrieve(w)
      BY <3>2 DEF Retrieve, Goto
    <3>3. CASE Load(w)
      BY <3>3 DEF Load, Goto
    <3>4. CASE Heal(w)
      BY <3>4 DEF Heal, Goto
    <3>5. CASE SaveUser(w)
      BY <3>5 DEF SaveUser, Goto
    <3>6. CASE Recheck(w)
      BY <3>6 DEF Recheck, Goto
    <3>7. CASE Record(w)
      BY <3>7 DEF Record, Goto
    <3>8. CASE Modify(w)
      BY <3>8 DEF Modify, Goto
    <3>9. CASE ModifyFails(w)
      BY <3>9 DEF ModifyFails, Goto
    <3> QED
      BY <2>2, <3>1, <3>2, <3>3, <3>4, <3>5, <3>6, <3>7, <3>8, <3>9
      DEF Advance, Sync
  <2>3. CASE loc[w].pc = "sync"
    <3>1. Sync(w)
      BY <1>4, <2>3
      DEF Advance, Lookup, Retrieve, Load, Heal, SaveUser, Recheck, Record,
          Modify, ModifyFails
    <3> QED
      BY <2>1, <3>1
  <2> QED
    BY <1>1, <1>4, <2>2, <2>3
<1>5. ASSUME NEW w \in Workers, Crash(w)
      PROVE  loc' = [loc EXCEPT ![w] = Idle]
  BY <1>5 DEF Crash, Goto
<1>6. CASE \E w \in Workers : Crash(w)
  <2>1. \A u \in Workers : loc'[u] = loc[u] \/ loc'[u] = Idle
    BY <1>5, <1>6
  <2>2. Idle.pc = "idle"
    BY DEF Idle
  <2> QED
    BY <2>1, <2>2 DEF SyncBy
<1> QED
  BY <1>2, <1>3, <1>4, <1>6 DEF Next

\* What a sync writes that nobody overtook.
LEMMA SyncedFollows ==
    ASSUME NEW row \in Rows, NEW object \in Objects, NEW t \in 0 .. MaxTime,
           NEW new, new = Merge(row, Synced(row, object, t), row)
    PROVE  /\ Mirrors(new, object)
           /\ new.access = HasAccess(new, t)
           /\ new.status \in PastDueStatuses <=> new.grace # NoGrace
           /\ row.grace >= t /\ new.grace # NoGrace => new.grace = row.grace
<1>1. PICK g : g = IF object.status \notin PastDueStatuses THEN NoGrace
                   ELSE IF row.grace = NoGrace \/ row.grace < t
                   THEN t + GraceLength ELSE row.grace
  OBVIOUS
<1>2. PICK base : base = [row EXCEPT !.status = object.status, !.plan = object.plan,
                                     !.grace = g, !.linked = TRUE]
  OBVIOUS
<1>3. PICK s : s = [base EXCEPT !.access = HasAccess(base, t)]
  OBVIOUS
<1>4. Synced(row, object, t) = s
  BY <1>1, <1>2, <1>3 DEF Synced
<1>5. /\ base.status = object.status /\ base.plan = object.plan /\ base.grace = g
      /\ s.status = object.status /\ s.plan = object.plan /\ s.grace = g
      /\ s.access = HasAccess(base, t)
  BY <1>2, <1>3 DEF Rows
<1>6. HasAccess(base, t) <=> HasAccess(s, t)
  BY <1>5 DEF HasAccess
<1>7. /\ new.status = s.status /\ new.plan = s.plan /\ new.grace = s.grace
      /\ new.access = s.access
  BY <1>4 DEF Merge, Column
<1>8. HasAccess(new, t) <=> HasAccess(s, t)
  BY <1>7 DEF HasAccess
<1>9. new.access = HasAccess(new, t)
  BY <1>5, <1>6, <1>7, <1>8 DEF HasAccess
<1>10. new.status \in PastDueStatuses <=> new.grace # NoGrace
  BY <1>1, <1>5, <1>7, SyncAssumption DEF Rows, NoGrace
<1>11. row.grace >= t /\ new.grace # NoGrace => new.grace = row.grace
  BY <1>1, <1>5, <1>7, SyncAssumption DEF Rows, NoGrace
<1> QED
  BY <1>5, <1>7, <1>9, <1>10, <1>11 DEF Mirrors

\* A sync that nobody overtook since it loaded the row leaves it equal to
\* Stripe's object (sync_subscription_from_stripe).
THEOREM LoneSyncsFollowStripe == Spec => LoneSyncFollowsStripe
<1>1. ASSUME Accounted, [Next]_vars, NEW w \in Workers, SyncBy(w), loc[w].row = sub
      PROVE  /\ Mirrors(sub', loc[w].snap)
             /\ sub'.access = HasAccess(sub', now)
             /\ sub'.status \in PastDueStatuses <=> sub'.grace # NoGrace
             /\ sub.grace >= now /\ sub'.grace # NoGrace => sub'.grace = sub.grace
  <2>1. Sync(w)
    BY <1>1, SyncedBySync
  <2>2. PICK object : object = loc[w].snap
    OBVIOUS
  <2>3. object \in Objects /\ sub \in Rows /\ now \in 0 .. MaxTime
    BY <1>1, <2>1, <2>2, HandlerFacts DEF Sync, Steady, Accounted, TypeOK
  <2>4. sub' = Merge(sub, Synced(sub, object, now), sub)
    BY <1>1, <2>1, <2>2 DEF Sync
  <2> QED
    BY <2>2, <2>3, <2>4, SyncedFollows
<1>2. Accounted /\ [Next]_vars =>
        [\A w \in Workers : SyncBy(w) /\ loc[w].row = sub =>
           /\ Mirrors(sub', loc[w].snap)
           /\ sub'.access = HasAccess(sub', now)
           /\ sub'.status \in PastDueStatuses <=> sub'.grace # NoGrace
           /\ sub.grace >= now /\ sub'.grace # NoGrace => sub'.grace = sub.grace]_vars
  BY <1>1
<1> QED
  BY <1>2, AlwaysAccounted, PTL DEF Spec, LoneSyncFollowsStripe
=============================================================================
