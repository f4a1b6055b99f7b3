-------------------------- MODULE SubscriptionSync --------------------------
(***************************************************************************)
(* How one user's subscriptions row follows Stripe                         *)
(* (backend/app/billing/service.py): webhooks that Stripe delivers at      *)
(* least once and in any order, and the reconcile, change-plan and cancel  *)
(* endpoints, on several server processes and threads.                     *)
(*                                                                         *)
(* Every handler loads the row into its own session, may then call Stripe, *)
(* and commits an UPDATE of the columns that differ from what it loaded.   *)
(* A handler of an event does its work first and records the event in      *)
(* billing_events last; the unique key on stripe_event_id and the answer   *)
(* 2xx after it are what makes redelivery safe.                            *)
(*                                                                         *)
(* The billing period and the usage row that a sync also maintains are the *)
(* subject of UsageMetering; plan stands for all the columns that are      *)
(* copied from Stripe and decide nothing here.                             *)
(***************************************************************************)
EXTENDS Integers, Sequences

CONSTANTS
    Workers,      \* handler slots: how many handlers can be in flight at once
    PaidPlans,    \* "standard" and "unlimited"
    FreePlan,     \* the plan of a new row
    GraceLength,  \* settings.billing_grace_period_days
    MaxEvents,    \* bound on the events Stripe emits
    MaxTime,      \* bound on the clock
    MaxCrashes    \* bound on the handlers that die

ASSUME SyncAssumption ==
    /\ FreePlan \notin PaidPlans
    /\ GraceLength \in Nat \ {0}
    /\ MaxEvents \in Nat \ {0} /\ MaxTime \in Nat /\ MaxCrashes \in Nat

VARIABLES
    now,      \* the clock
    stripe,   \* Stripe's subscription object
    events,   \* the events Stripe emitted, by id
    acked,    \* the ids Stripe got a 2xx answer for
    sub,      \* the subscriptions row
    mirror,   \* status and plan as copied to the users row
    ledger,   \* the stripe_event_ids in billing_events
    loc,      \* what each handler in flight holds
    crashes,  \* how many handlers have died
    applied,  \* history: ids whose handler committed a sync
    skipped   \* history: ids whose handler found no subscription to sync

vars == <<now, stripe, events, acked, sub, mirror, ledger, loc, crashes,
          applied, skipped>>
server == <<sub, mirror, ledger, loc, crashes, applied, skipped>>

ActiveStatuses == {"active"}      \* and "trialing"
PastDueStatuses == {"past_due"}   \* and "unpaid"
StripeStatuses == ActiveStatuses \cup PastDueStatuses \cup {"canceled"}
NoGrace == -1
NoEvent == 0

\* Before checkout Stripe has no subscription for the user.
Absent == [status |-> "absent", plan |-> FreePlan]
Objects == [status : StripeStatuses, plan : PaidPlans]
EventKinds == {"snapshot", "current", "checkout"}
Events == [kind : EventKinds, snap : Objects]

\* linked: the row holds the customer or subscription id the events carry.
Rows == [status : StripeStatuses \cup {"inactive"},
         plan : PaidPlans \cup {FreePlan},
         grace : 0 .. (MaxTime + GraceLength) \cup {NoGrace},
         access : BOOLEAN, linked : BOOLEAN]
NewRow(linked) == [status |-> "inactive", plan |-> FreePlan, grace |-> NoGrace,
                   access |-> FALSE, linked |-> linked]
UserColumns == [status : StripeStatuses \cup {"inactive"},
                plan : PaidPlans \cup {FreePlan}]
MirrorOf(row) == [status |-> row.status, plan |-> row.plan]

Steps == {"idle", "lookup", "retrieve", "modify", "load", "heal", "sync",
          "user", "recheck", "record"}
Idle == [pc |-> "idle", event |-> NoEvent, row |-> NewRow(FALSE),
         user |-> MirrorOf(NewRow(FALSE)), snap |-> Absent, next |-> "idle"]

SubscribedRow(p) == [status |-> "active", plan |-> p, grace |-> NoGrace,
                     access |-> TRUE, linked |-> TRUE]

\* A new user's row: the customer id can be missing from it, or differ from
\* the one of the checkout, when ensure_stripe_customer was interrupted or ran
\* twice at once.
NewUser ==
    /\ stripe = Absent
    /\ sub \in {NewRow(linked) : linked \in BOOLEAN}
    /\ events = <<>>
    /\ acked = {} /\ ledger = {} /\ applied = {}

\* Or a subscriber's: the last event of the checkout has been processed.
Subscriber ==
    /\ \E p \in PaidPlans :
         /\ stripe = [status |-> "active", plan |-> p]
         /\ sub = SubscribedRow(p)
         /\ events = <<[kind |-> "checkout", snap |-> stripe]>>
    /\ acked = {1} /\ ledger = {1} /\ applied = {1}

Init ==
    /\ now \in 0 .. MaxTime
    /\ NewUser \/ Subscriber
    /\ mirror = MirrorOf(sub)
    /\ loc = [w \in Workers |-> Idle]
    /\ crashes = 0
    /\ skipped = {}

Goto(w, l) == loc' = [loc EXCEPT ![w] = l]

-----------------------------------------------------------------------------
(* Stripe.                                                                 *)

Emit(es) ==
    /\ Len(events) + Len(es) <= MaxEvents
    /\ events' = events \o es
Event(kind, object) == [kind |-> kind, snap |-> object]

\* The user pays: Stripe creates the subscription and emits both events.
CheckoutCompleted ==
    /\ stripe = Absent
    /\ \E p \in PaidPlans :
         /\ stripe' = [status |-> "active", plan |-> p]
         /\ Emit(<<Event("snapshot", stripe'), Event("checkout", stripe')>>)
    /\ UNCHANGED <<now, acked>> /\ UNCHANGED server

\* A payment fails or succeeds, or the subscription is cancelled at Stripe.
StatusChanged ==
    /\ stripe # Absent
    /\ \E s \in StripeStatuses \ {stripe.status} :
         /\ stripe' = [stripe EXCEPT !.status = s]
         /\ Emit(<<Event("snapshot", stripe')>>)
    /\ UNCHANGED <<now, acked>> /\ UNCHANGED server

\* An invoice event; its handler asks Stripe for the current subscription.
InvoiceSettled ==
    /\ stripe # Absent
    /\ Emit(<<Event("current", stripe)>>)
    /\ UNCHANGED <<now, stripe, acked>> /\ UNCHANGED server

-----------------------------------------------------------------------------
(* Reading the row.                                                        *)

\* _has_subscription_access
HasAccess(row, t) ==
    \/ row.status \in ActiveStatuses
    \/ /\ row.status \in PastDueStatuses
       /\ row.grace # NoGrace /\ row.grace >= t

\* An ORM UPDATE sends the columns that differ from the loaded copy.
Column(loaded, new, stored) == IF new # loaded THEN new ELSE stored
Merge(loaded, new, stored) ==
    [status |-> Column(loaded.status, new.status, stored.status),
     plan   |-> Column(loaded.plan, new.plan, stored.plan),
     grace  |-> Column(loaded.grace, new.grace, stored.grace),
     access |-> Column(loaded.access, new.access, stored.access),
     linked |-> Column(loaded.linked, new.linked, stored.linked)]

\* Variant that breaks LoneSyncFollowsStripe: access is decided before the
\* columns it depends on are assigned.
Synced_AccessFirst(row, object, t) ==
    LET grace == IF object.status \notin PastDueStatuses THEN NoGrace
                 ELSE IF row.grace = NoGrace \/ row.grace < t
                 THEN t + GraceLength ELSE row.grace
    IN  [row EXCEPT !.status = object.status, !.plan = object.plan,
                    !.grace = grace, !.linked = TRUE,
                    !.access = HasAccess(row, t)]

\* Variant that breaks ReconcileRepairs: the plan is only taken over with the
\* first object that links the row to Stripe.
Synced_KeepsPlan(row, object, t) ==
    [row EXCEPT !.status = object.status, !.linked = TRUE, !.grace = NoGrace,
                !.plan = IF row.linked THEN @ ELSE object.plan,
                !.access = object.status \in ActiveStatuses]

\* What sync_subscription_from_stripe makes of the loaded row: a grace period
\* starts when the row has none or an expired one, and ends with the arrears.
Synced(row, object, t) ==
    LET grace == IF object.status \notin PastDueStatuses THEN NoGrace
                 ELSE IF row.grace = NoGrace \/ row.grace < t
                 THEN t + GraceLength ELSE row.grace
        new == [row EXCEPT !.status = object.status, !.plan = object.plan,
                           !.grace = grace, !.linked = TRUE]
    IN  [new EXCEPT !.access = HasAccess(new, t)]

-----------------------------------------------------------------------------
(* The webhook handler: process_webhook.                                   *)

\* Variant that breaks NothingForgotten: the event is recorded on receipt.
Receive_RecordsFirst(w, e) ==
    /\ loc[w].pc = "idle"
    /\ e \in DOMAIN events \ ledger
    /\ ledger' = ledger \cup {e}
    /\ Goto(w, [Idle EXCEPT !.pc = "lookup", !.event = e])
    /\ UNCHANGED <<now, stripe, events, acked, sub, mirror, crashes, applied,
                   skipped>>

\* Variant that breaks EveryEventRecorded: 2xx is answered before the work.
Receive_AnswersFirst(w, e) ==
    /\ loc[w].pc = "idle"
    /\ e \in DOMAIN events \ ledger
    /\ acked' = acked \cup {e}
    /\ Goto(w, [Idle EXCEPT !.pc = "lookup", !.event = e])
    /\ UNCHANGED <<now, stripe, events, sub, mirror, ledger, crashes, applied,
                   skipped>>

\* The first duplicate test answers at once for a recorded event.
Receive(w, e) ==
    /\ loc[w].pc = "idle"
    /\ e \in DOMAIN events
    /\ IF e \in ledger
       THEN /\ acked' = acked \cup {e}
            /\ UNCHANGED loc
       ELSE /\ Goto(w, [Idle EXCEPT !.pc = "lookup", !.event = e])
            /\ UNCHANGED acked
    /\ UNCHANGED <<now, stripe, events, sub, mirror, ledger, crashes, applied,
                   skipped>>

\* A checkout names its user; other events are matched by customer or
\* subscription id, and are not applied at all when no row has it.  The row is
\* loaded here, before Stripe is asked.
Lookup(w) ==
    LET l == [loc[w] EXCEPT !.user = mirror]
        e == events[loc[w].event]
    IN  /\ loc[w].pc = "lookup"
        /\ \/ /\ e.kind = "checkout"
              /\ Goto(w, [l EXCEPT !.pc = "retrieve", !.next = "load"])
              /\ UNCHANGED skipped
           \/ /\ e.kind = "current" /\ sub.linked
              /\ Goto(w, [l EXCEPT !.pc = "retrieve", !.row = sub,
                                   !.next = "heal"])
              /\ UNCHANGED skipped
           \/ /\ e.kind = "snapshot" /\ sub.linked
              /\ Goto(w, [l EXCEPT !.pc = "heal", !.row = sub, !.snap = e.snap,
                                   !.next = "sync"])
              /\ UNCHANGED skipped
           \/ /\ e.kind # "checkout" /\ ~sub.linked
              /\ Goto(w, [l EXCEPT !.pc = "recheck"])
              /\ skipped' = skipped \cup {l.event}
        /\ UNCHANGED <<now, stripe, events, acked, sub, mirror, ledger, crashes,
                       applied>>

\* stripe_gateway.retrieve_subscription
Retrieve(w) ==
    /\ loc[w].pc = "retrieve"
    /\ Goto(w, [loc[w] EXCEPT !.pc = loc[w].next, !.snap = stripe,
                              !.next = "sync"])
    /\ UNCHANGED <<now, stripe, events, acked, sub, mirror, ledger, crashes,
                   applied, skipped>>

\* A checkout handler loads the row only after it asked Stripe.
Load(w) ==
    /\ loc[w].pc = "load"
    /\ Goto(w, [loc[w] EXCEPT !.pc = "heal", !.row = sub])
    /\ UNCHANGED <<now, stripe, events, acked, sub, mirror, ledger, crashes,
                   applied, skipped>>

\* get_or_create_subscription calls _refresh_access_state: a copy whose access
\* flag is out of date is saved, and the save rereads the row.
Heal(w) ==
    LET l == loc[w]
        new == [l.row EXCEPT !.access = HasAccess(l.row, now)]
    IN  /\ l.pc = "heal"
        /\ sub' = Merge(l.row, new, sub)
        /\ Goto(w, [l EXCEPT !.pc = l.next, !.next = "heal",
                             !.row = IF new # l.row THEN sub' ELSE l.row])
        /\ UNCHANGED <<now, stripe, events, acked, mirror, ledger, crashes,
                       applied, skipped>>

\* sync_subscription_from_stripe up to its save_subscription.
Sync(w) ==
    LET l == loc[w]
    IN  /\ l.pc = "sync"
        /\ sub' = Merge(l.row, Synced(l.row, l.snap, now), sub)
        /\ Goto(w, [l EXCEPT !.pc = "user", !.row = sub'])
        /\ applied' = applied \cup ({l.event} \ {NoEvent})
        /\ UNCHANGED <<now, stripe, events, acked, mirror, ledger, crashes,
                       skipped>>

\* _sync_user_from_subscription: the same column-wise save of the users row.
SaveUser(w) ==
    LET l == loc[w]
    IN  /\ l.pc = "user"
        /\ mirror' = [status |-> Column(l.user.status, l.row.status, mirror.status),
                      plan |-> Column(l.user.plan, l.row.plan, mirror.plan)]
        /\ Goto(w, IF l.event = NoEvent THEN Idle
                   ELSE [l EXCEPT !.pc = "recheck"])
        /\ UNCHANGED <<now, stripe, events, acked, sub, ledger, crashes, applied,
                       skipped>>

\* The second duplicate test: another handler recorded the event meanwhile.
Recheck(w) ==
    LET l == loc[w]
    IN  /\ l.pc = "recheck"
        /\ IF l.event \in ledger
           THEN /\ acked' = acked \cup {l.event}
                /\ Goto(w, Idle)
           ELSE /\ Goto(w, [l EXCEPT !.pc = "record"])
                /\ UNCHANGED acked
        /\ UNCHANGED <<now, stripe, events, sub, mirror, ledger, crashes, applied,
                       skipped>>

\* INSERT into billing_events; if the unique key refuses it the handler fails
\* and Stripe, which got no 2xx, delivers the event again.
Record(w) ==
    LET l == loc[w]
    IN  /\ l.pc = "record"
        /\ Goto(w, Idle)
        /\ IF l.event \in ledger
           THEN UNCHANGED <<ledger, acked>>
           ELSE /\ ledger' = ledger \cup {l.event}
                /\ acked' = acked \cup {l.event}
        /\ UNCHANGED <<now, stripe, events, sub, mirror, crashes, applied, skipped>>

-----------------------------------------------------------------------------
(* The endpoints, and what can happen to any handler.                      *)

\* Variant that breaks TypeOK: a user without a Stripe subscription is let in.
BeginEndpoint_NoGuard(w, call) ==
    /\ loc[w].pc = "idle"
    /\ Goto(w, [Idle EXCEPT !.pc = "heal", !.row = sub, !.user = mirror,
                            !.next = call])
    /\ UNCHANGED <<now, stripe, events, acked, sub, mirror, ledger, crashes,
                   applied, skipped>>

\* reconcile_subscription, change_plan and cancel_subscription load the row
\* and refuse a user without a Stripe subscription (no sync has run yet).
BeginEndpoint(w, call) ==
    /\ loc[w].pc = "idle"
    /\ sub.status # "inactive"
    /\ Goto(w, [Idle EXCEPT !.pc = "heal", !.row = sub, !.user = mirror,
                            !.next = call])
    /\ UNCHANGED <<now, stripe, events, acked, sub, mirror, ledger, crashes,
                   applied, skipped>>

\* The endpoint heals the row it loaded, then asks Stripe; before the sync the
\* row is healed again.
BeginReconcile(w) == BeginEndpoint(w, "retrieve")
BeginModify(w) == BeginEndpoint(w, "modify")

\* modify_subscription: another plan (change_plan), or the same one with its
\* cancellation preference changed (cancel_subscription); Stripe emits an event.
Modify(w) ==
    /\ loc[w].pc = "modify"
    /\ stripe.status # "canceled"
    /\ \E p \in PaidPlans :
         /\ stripe' = [stripe EXCEPT !.plan = p]
         /\ Emit(<<Event("snapshot", stripe')>>)
    /\ Goto(w, [loc[w] EXCEPT !.pc = "heal", !.snap = stripe', !.next = "sync"])
    /\ UNCHANGED <<now, acked, sub, mirror, ledger, crashes, applied, skipped>>

\* Stripe refuses (a canceled subscription cannot be modified) or fails.
ModifyFails(w) ==
    /\ loc[w].pc = "modify"
    /\ Goto(w, Idle)
    /\ UNCHANGED <<now, stripe, events, acked, sub, mirror, ledger, crashes,
                   applied, skipped>>

\* The process dies or the request fails; its commits stay.
Crash(w) ==
    /\ loc[w].pc # "idle" /\ crashes < MaxCrashes
    /\ crashes' = crashes + 1
    /\ Goto(w, Idle)
    /\ UNCHANGED <<now, stripe, events, acked, sub, mirror, ledger, applied,
                   skipped>>

Tick ==
    /\ now < MaxTime
    /\ now' = now + 1
    /\ UNCHANGED <<stripe, events, acked>> /\ UNCHANGED server

\* A handler that has begun goes on to its end.
Advance(w) ==
    \/ Lookup(w) \/ Retrieve(w) \/ Load(w) \/ Heal(w) \/ Sync(w) \/ SaveUser(w)
    \/ Recheck(w) \/ Record(w) \/ Modify(w) \/ ModifyFails(w)

\* Stripe delivers again what it got no 2xx for.
Redeliver(e) == e \notin acked /\ \E w \in Workers : Receive(w, e)

Next ==
    \/ CheckoutCompleted \/ StatusChanged \/ InvoiceSettled
    \/ Tick
    \/ \E w \in Workers :
         \/ \E e \in DOMAIN events : Receive(w, e)
         \/ BeginReconcile(w)
         \/ BeginModify(w)
         \/ Advance(w)
         \/ Crash(w)

Spec == Init /\ [][Next]_vars

\* The server runs what it accepted, and Stripe retries an unanswered event
\* until it is answered, whatever else occupies the handlers.
Fairness ==
    /\ \A w \in Workers : WF_vars(Advance(w))
    /\ \A e \in 1 .. MaxEvents : SF_vars(Redeliver(e))

FairSpec == Spec /\ Fairness

-----------------------------------------------------------------------------
(* Properties.                                                             *)

Ids == 1 .. MaxEvents
Locals == [pc : Steps, event : Ids \cup {NoEvent}, row : Rows,
           user : UserColumns,
           snap : Objects \cup {Absent}, next : Steps]

\* The columns and the handlers' copies have their types.
TypeOK ==
    /\ now \in 0 .. MaxTime
    /\ stripe \in Objects \cup {Absent}
    /\ events \in Seq(Events) /\ Len(events) <= MaxEvents
    /\ acked \subseteq Ids /\ ledger \subseteq Ids
    /\ sub \in Rows
    /\ mirror \in UserColumns
    /\ loc \in [Workers -> Locals]
    /\ crashes \in 0 .. MaxCrashes
    /\ applied \subseteq Ids /\ skipped \subseteq Ids

\* Whatever crashes and races there are, an event that Stripe may forget is in
\* billing_events, and an event in billing_events has been applied to the row,
\* unless its handler found no row for it (process_webhook records last).
NothingForgotten == acked \subseteq ledger /\ ledger \subseteq applied \cup skipped

\* What holds of a handler between its steps: it works on an emitted event or
\* on none, it comes to the last three steps only when its event is accounted
\* for in done, and it holds a Stripe object by the time it syncs.
Steady(l, evs, done) ==
    /\ l.event # NoEvent => l.event \in 1 .. Len(evs)
    /\ l.pc \in {"lookup", "recheck", "record"} => l.event # NoEvent
    /\ l.pc \in {"user", "recheck", "record"} /\ l.event # NoEvent
         => l.event \in done
    /\ l.pc = "retrieve" => l.next \in {"load", "heal"}
    /\ l.pc = "load" => l.next = "sync"
    /\ l.pc = "heal" => l.next \in {"retrieve", "modify", "sync"}
    /\ l.pc = "sync" \/ (l.pc \in {"heal", "load"} /\ l.next = "sync")
         => l.snap \in Objects
HandlersSteady == \A w \in Workers : Steady(loc[w], events, applied \cup skipped)

\* Nothing happens before the user has a subscription at Stripe.
QuietBeforeCheckout ==
    stripe = Absent => /\ events = <<>> /\ sub.status = "inactive"
                       /\ \A w \in Workers : loc[w] = Idle

\* The inductive invariant behind the theorems of SubscriptionSyncProofs.
Accounted ==
    TypeOK /\ NothingForgotten /\ HandlersSteady /\ QuietBeforeCheckout

SyncBy(w) == loc[w].pc = "sync" /\ loc'[w].pc = "user"
Mirrors(row, object) == row.status = object.status /\ row.plan = object.plan

\* A sync that nobody overtook since it loaded the row leaves the row equal to
\* Stripe's object, with access and grace decided by its status, and a grace
\* period that is still running is not moved.
LoneSyncFollowsStripe ==
    [][\A w \in Workers : SyncBy(w) /\ loc[w].row = sub =>
         /\ Mirrors(sub', loc[w].snap)
         /\ sub'.access = HasAccess(sub', now)
         /\ sub'.status \in PastDueStatuses <=> sub'.grace # NoGrace
         /\ sub.grace >= now /\ sub'.grace # NoGrace => sub'.grace = sub.grace]_vars

\* No event is lost: each one ends up in billing_events although handlers die,
\* deliveries are repeated and inserts collide.
EveryEventRecorded ==
    \A e \in Ids : e \in DOMAIN events ~> e \in ledger

Agrees ==
    stripe # Absent => /\ Mirrors(sub, stripe)
                       /\ sub.access = HasAccess(sub, now)
                       /\ mirror = MirrorOf(sub)

\* Late, repeated or overtaken handlers can leave the row behind Stripe; the
\* reconcile endpoint repairs it: if reconciliations keep completing, row,
\* access flag and user mirror agree with Stripe for good once Stripe is quiet.
ReconcileRepairs ==
    []<><<\E w \in Workers : loc[w].event = NoEvent /\ SaveUser(w)>>_vars
      => <>[]Agrees

\* "Fixed webhook and reconciliation state drift [...] from Stripe truth."
\* (CHANGELOG.md:32): when every event is processed the row shows Stripe's state.
NoDriftWhenQuiet ==
    /\ stripe # Absent
    /\ DOMAIN events \subseteq ledger
    /\ \A w \in Workers : loc[w].pc = "idle"
    => sub.status = stripe.status
=============================================================================
