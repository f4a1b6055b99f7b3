--------------------------- MODULE UsageMetering ---------------------------
(***************************************************************************)
(* The SMS allowance of one subscriber: the rows of usage_tracking, the    *)
(* mirror users.monthly_sms_count, and every request that reads or writes  *)
(* them (backend/app/billing/service.py, backend/app/billing/repository.py *)
(* and the traffic handler that charges).                                  *)
(*                                                                         *)
(* Requests run on two server processes and a thread pool, each with its   *)
(* own SQLAlchemy session.  A repository "save" is its own transaction, so *)
(* a request is a sequence of committed steps that other requests          *)
(* interleave with.  A session remembers the rows it loaded: a request     *)
(* works on its copies (loc) until one of its own commits refreshes them,  *)
(* and an UPDATE writes only the columns the request changed.              *)
(*                                                                         *)
(* Users do not share rows, so one subscriber stands for all of them.      *)
(***************************************************************************)
EXTENDS Integers, FiniteSets

CONSTANTS
    Workers,     \* request slots: how many requests can be in flight at once
    Plans,       \* the keys of PLAN_DEFINITIONS
    FreePlan,    \* the plan of a subscription nobody has paid for
    Allowance,   \* sms_allowance of each plan
    Reported,    \* the subscription rows that syncs commit: plan, entitlement
                 \* (has_active_subscription) and billing period [start, end]
    MonthLength, \* length of the calendar month used when Stripe reported none
    MaxTime      \* bound on the clock

NoWindow == [start |-> 0, end |-> 0]

ASSUME PlanAssumption ==
    /\ FreePlan \in Plans
    /\ Allowance \in [Plans -> Nat]
    /\ \A p, q \in Plans : Allowance[p] = Allowance[q] => p = q

ASSUME TimeAssumption ==
    /\ MonthLength \in Nat \ {0}
    /\ MaxTime \in Nat
    /\ Reported \subseteq [plan : Plans, entitled : BOOLEAN,
                           win : [start : Nat, end : Nat]]

VARIABLES
    now,               \* the clock
    sub,               \* the subscriptions row: plan, entitlement, period
    open,              \* the period starts that have a usage_tracking row
    usage,             \* those rows, by period start (unique per user)
    monthly_sms_count, \* the mirror column of the users row
    loc,               \* what each request in flight has loaded
    charged            \* history: replies charged to each period

vars == <<now, sub, open, usage, monthly_sms_count, loc, charged>>

\* get_or_create_subscription gives a new user an inactive free row.
NewSub == [plan |-> FreePlan, entitled |-> FALSE, win |-> NoWindow]
Subscriptions == Reported \cup {NewSub}
Starts == {s.win.start : s \in Reported} \cup (0 .. MaxTime)
Rows == [used : Nat, allow : Nat, plan : Plans, end : Nat]
EmptyRow == [used |-> 0, allow |-> Allowance[FreePlan],
             plan |-> FreePlan, end |-> 0]
UnknownCount == -1  \* the mirror after a rollback expired the user object
Kinds == {"summary", "charge", "record", "sync"}
Steps == {"idle", "dead", "lookup", "latest", "resync", "insert", "zero",
          "increment", "mirror"}
Idle == [pc |-> "idle", kind |-> "summary", sub |-> NewSub,
         win |-> NoWindow, rec |-> EmptyRow, mon |-> 0]
Dead == [Idle EXCEPT !.pc = "dead"]  \* a slot whose last request died
Vacant(w) == loc[w].pc \in {"idle", "dead"}

Init ==
    /\ now = 0
    /\ sub = NewSub
    /\ open = {}
    /\ usage = [s \in Starts |-> EmptyRow]
    /\ monthly_sms_count = 0
    /\ loc = [w \in Workers |-> Idle]
    /\ charged = [s \in Starts |-> 0]

-----------------------------------------------------------------------------
(* The period a request bills against.                                     *)

\* _default_period_bounds: the calendar month that contains t.
DefaultBounds(t) ==
    LET first == t - (t % MonthLength)
    IN  [start |-> first, end |-> first + MonthLength]

\* _period_bounds_for_subscription: Stripe's period if it is a real interval.
Bounds(s, t) ==
    IF s.win.end > s.win.start THEN s.win ELSE DefaultBounds(t)

\* get_current_usage_record: the row whose period ends last.
LatestEnds(s) == s \in open /\ \A r \in open : usage[r].end <= usage[s].end

-----------------------------------------------------------------------------
(* Where a request goes once it holds the usage row of its period.         *)

Remaining(l) == IF l.rec.allow > l.rec.used THEN l.rec.allow - l.rec.used ELSE 0

\* enforce_sms_quota and the second test of record_sms_usage.
MayCharge(l) == l.sub.entitled /\ Remaining(l) > 0

\* handle_traffic asks for the access context twice: first to gate the request
\* ("charge"), then, after the route is prepared, record_sms_usage asks again
\* ("record"), tests what is left and charges.
Continue(l) ==
    CASE l.kind = "sync" -> [l EXCEPT !.pc = "mirror"]
      [] l.kind = "charge" /\ l.sub.entitled ->
            [l EXCEPT !.pc = "lookup", !.kind = "record"]
      [] l.kind = "record" /\ MayCharge(l) -> [l EXCEPT !.pc = "increment"]
      [] OTHER -> Idle

Goto(w, l) == loc' = [loc EXCEPT ![w] = l]

\* Variant that breaks StaleAllowanceRepaired: the row is used as it is.
Found_KeepsPlan(w, l, row) ==
    IF row.end # l.win.end THEN Goto(w, [l EXCEPT !.pc = "insert"])
    ELSE Goto(w, Continue([l EXCEPT !.rec = row]))

\* The row of the wanted period, found by a SELECT: its plan and allowance
\* may have to follow the subscription; a different end means it is not used.
Found(w, l, row) ==
    IF row.end # l.win.end THEN Goto(w, [l EXCEPT !.pc = "insert"])
    ELSE IF row.allow # Allowance[l.sub.plan] \/ row.plan # l.sub.plan
    THEN Goto(w, [l EXCEPT !.pc = "resync", !.rec = row])
    ELSE Goto(w, Continue([l EXCEPT !.rec = row]))

-----------------------------------------------------------------------------
(* The steps.                                                              *)

\* A request for the usage summary or for a traffic reply loads the user and
\* the subscription once, when its context is built.
Begin(w, kind) ==
    /\ Vacant(w)
    /\ Goto(w, [Idle EXCEPT !.pc = "lookup", !.kind = kind, !.sub = sub,
                            !.mon = monthly_sms_count])
    /\ UNCHANGED <<now, sub, open, usage, monthly_sms_count, charged>>

\* sync_subscription_from_stripe commits a new subscription row (what the
\* row may hold is the subject of SubscriptionSync) and goes on to the usage
\* row with the refreshed copy.
BeginSync(w) ==
    /\ Vacant(w)
    /\ \E s \in Reported :
         /\ sub' = s
         /\ Goto(w, [Idle EXCEPT !.pc = "lookup", !.kind = "sync", !.sub = s,
                                 !.mon = monthly_sms_count])
    /\ UNCHANGED <<now, open, usage, monthly_sms_count, charged>>

\* What a SELECT of the row that starts at s gives a request.  The second time
\* round the session still holds the row of the first (billing_context refers
\* to it), and a SELECT does not overwrite the values of a row it holds.
Selected(l, s) ==
    IF l.kind = "record" /\ l.win.start = s THEN l.rec ELSE usage[s]

\* get_or_create_usage_record, first SELECT: by user and period start.
Lookup(w) ==
    LET l == [loc[w] EXCEPT !.win = Bounds(loc[w].sub, now)]
        s == l.win.start
    IN  /\ loc[w].pc = "lookup"
        /\ IF s \in open
           THEN Found(w, l, Selected(loc[w], s))
           ELSE Goto(w, [l EXCEPT !.pc = "latest"])
        /\ UNCHANGED <<now, sub, open, usage, monthly_sms_count, charged>>

\* Second SELECT: the row whose period ends last.  It is of use only when
\* another request created the wanted row since the first SELECT.
LookupLatest(w) ==
    LET l == loc[w]
    IN  /\ l.pc = "latest"
        /\ \/ /\ LatestEnds(l.win.start)
              /\ Found(w, l, usage[l.win.start])
           \/ /\ open = {} \/ \E s \in open \ {l.win.start} : LatestEnds(s)
              /\ Goto(w, [l EXCEPT !.pc = "insert"])
        /\ UNCHANGED <<now, sub, open, usage, monthly_sms_count, charged>>

\* Variant that breaks PlanAndAllowanceAgree: only the allowance is synced.
Resync_AllowanceOnly(w) ==
    LET l == loc[w]
        row == [usage[l.win.start] EXCEPT !.allow = Allowance[l.sub.plan]]
    IN  /\ l.pc = "resync"
        /\ usage' = [usage EXCEPT ![l.win.start] = row]
        /\ Goto(w, Continue([l EXCEPT !.rec = row]))
        /\ UNCHANGED <<now, sub, open, monthly_sms_count, charged>>

\* The plan changed within the period: UPDATE of the columns that differ from
\* the loaded copy, COMMIT, and a refresh of the copy.
Resync(w) ==
    LET l == loc[w]
        s == l.win.start
        row == [usage[s] EXCEPT
                  !.allow = IF Allowance[l.sub.plan] # l.rec.allow
                            THEN Allowance[l.sub.plan] ELSE @,
                  !.plan = IF l.sub.plan # l.rec.plan THEN l.sub.plan ELSE @]
    IN  /\ l.pc = "resync"
        /\ usage' = [usage EXCEPT ![s] = row]
        /\ Goto(w, Continue([l EXCEPT !.rec = row]))
        /\ UNCHANGED <<now, sub, open, monthly_sms_count, charged>>

\* A new period: INSERT with sms_used = 0.  If the unique constraint on
\* (user_id, period_start) refuses it, save_usage_record rolls back, which
\* expires the session's copies, and returns the row that is there.
Insert(w) ==
    LET l == loc[w]
        s == l.win.start
        row == [used |-> 0, allow |-> Allowance[l.sub.plan],
                plan |-> l.sub.plan, end |-> l.win.end]
    IN  /\ l.pc = "insert"
        /\ IF s \in open
           THEN /\ Goto(w, [l EXCEPT !.pc = "zero", !.rec = usage[s],
                                     !.sub = sub, !.mon = UnknownCount])
                /\ UNCHANGED <<open, usage>>
           ELSE /\ open' = open \cup {s}
                /\ usage' = [usage EXCEPT ![s] = row]
                /\ Goto(w, [l EXCEPT !.pc = "zero", !.rec = row])
        /\ UNCHANGED <<now, sub, monthly_sms_count, charged>>

\* Variant that breaks TypeOK: the mirror is moved by a difference of copies.
WriteMirror_Difference(l, count) ==
    monthly_sms_count' = monthly_sms_count + (count - l.mon)

\* Columns of the users row are written only when they differ from the copy.
WriteMirror(l, count) ==
    monthly_sms_count' = IF count # l.mon THEN count ELSE monthly_sms_count

\* user.monthly_sms_count = 0; save_user(user)
ZeroMirror(w) ==
    LET l == loc[w]
    IN  /\ l.pc = "zero"
        /\ WriteMirror(l, 0)
        /\ Goto(w, Continue([l EXCEPT !.mon = monthly_sms_count']))
        /\ UNCHANGED <<now, sub, open, usage, charged>>

\* Variant that breaks ChargesConserved: sms_used is computed from the copy.
Increment_ReadModifyWrite(w) ==
    LET l == loc[w]
        s == l.win.start
    IN  /\ l.pc = "increment"
        /\ usage' = [usage EXCEPT ![s].used = l.rec.used + 1]
        /\ charged' = [charged EXCEPT ![s] = @ + 1]
        /\ Goto(w, [l EXCEPT !.pc = "mirror", !.rec.used = @ + 1])
        /\ UNCHANGED <<now, sub, open, monthly_sms_count>>

\* Variant that breaks ImplementsLedger: the UPDATE has no condition, the test
\* of the copy is all there is.
Increment_Unconditional(w) ==
    LET l == loc[w]
        s == l.win.start
    IN  /\ l.pc = "increment"
        /\ usage' = [usage EXCEPT ![s].used = @ + 1]
        /\ charged' = [charged EXCEPT ![s] = @ + 1]
        /\ Goto(w, [l EXCEPT !.pc = "mirror", !.rec.used = @ + 1])
        /\ UNCHANGED <<now, sub, open, monthly_sms_count>>

\* Variant that breaks MirrorNeverLeads: the row count of the UPDATE is not
\* looked at.
Increment_IgnoresRowcount(w) ==
    LET l == loc[w]
        s == l.win.start
        fits == usage[s].used + 1 <= usage[s].allow
    IN  /\ l.pc = "increment"
        /\ usage' = IF fits THEN [usage EXCEPT ![s].used = @ + 1] ELSE usage
        /\ charged' = IF fits THEN [charged EXCEPT ![s] = @ + 1] ELSE charged
        /\ Goto(w, [l EXCEPT !.pc = "mirror", !.rec.used = @ + 1])
        /\ UNCHANGED <<now, sub, open, monthly_sms_count>>

\* record_usage_increment: one conditional UPDATE decides.  The session's copy
\* is advanced from what it held, not reread.
Increment(w) ==
    LET l == loc[w]
        s == l.win.start
    IN  /\ l.pc = "increment"
        /\ IF usage[s].used + 1 <= usage[s].allow
           THEN /\ usage' = [usage EXCEPT ![s].used = @ + 1]
                /\ charged' = [charged EXCEPT ![s] = @ + 1]
                /\ Goto(w, [l EXCEPT !.pc = "mirror", !.rec.used = @ + 1])
           ELSE /\ Goto(w, Idle)
                /\ UNCHANGED <<usage, charged>>
        /\ UNCHANGED <<now, sub, open, monthly_sms_count>>

\* user.monthly_sms_count = usage.sms_used; save_user(user)
Mirror(w) ==
    /\ loc[w].pc = "mirror"
    /\ WriteMirror(loc[w], loc[w].rec.used)
    /\ Goto(w, Idle)
    /\ UNCHANGED <<now, sub, open, usage, charged>>

\* A request that dies between two commits: what it committed stays.
Crash(w) ==
    /\ ~Vacant(w)
    /\ Goto(w, Dead)
    /\ UNCHANGED <<now, sub, open, usage, monthly_sms_count, charged>>

Tick ==
    /\ now < MaxTime
    /\ now' = now + 1
    /\ UNCHANGED <<sub, open, usage, monthly_sms_count, loc, charged>>

\* A request that has begun goes on to its end.
Advance(w) ==
    \/ Lookup(w) \/ LookupLatest(w) \/ Resync(w) \/ Insert(w)
    \/ ZeroMirror(w) \/ Increment(w) \/ Mirror(w)

Next ==
    \/ Tick
    \/ \E w \in Workers :
         \/ Begin(w, "summary")
         \/ Begin(w, "charge")
         \/ BeginSync(w)
         \/ Advance(w)
         \/ Crash(w)

Spec == Init /\ [][Next]_vars

\* The server runs what it has accepted: a request in flight keeps moving.
FairSpec == Spec /\ \A w \in Workers : WF_vars(Advance(w))

-----------------------------------------------------------------------------
(* Properties.                                                             *)

Locals ==
    [pc : Steps, kind : Kinds, sub : Subscriptions, rec : Rows,
     win : [start : Starts, end : Nat], mon : Nat \cup {UnknownCount}]

\* Every variable has the type its column or attribute has; a request beyond
\* its first SELECT has a period, and past "insert" a row of that period.
TypeOK ==
    /\ now \in 0 .. MaxTime
    /\ sub \in Subscriptions
    /\ open \subseteq Starts
    /\ usage \in [Starts -> Rows]
    /\ monthly_sms_count \in Nat
    /\ loc \in [Workers -> Locals]
    /\ charged \in [Starts -> Nat]

\* No charge is lost and none is made up: however requests interleave, die or
\* fail over to an existing row, sms_used is the number of replies that were
\* charged to the period (README.md:27, "atomic usage updates").
ChargesConserved == \A s \in Starts : usage[s].used = charged[s]

\* plan and sms_allowance of a usage row belong together although an UPDATE
\* writes them column by column from a copy that may be stale.
PlanAndAllowanceAgree ==
    \A s \in Starts : usage[s].allow = Allowance[usage[s].plan]

\* The mirror users.monthly_sms_count may lag behind the usage rows (two
\* concurrent charges can both write the smaller count) but never leads them.
MirrorNeverLeads ==
    monthly_sms_count > 0 => \E s \in open : monthly_sms_count <= usage[s].used

\* A request never takes back what another one charged: a usage row stays, its
\* period stays, and sms_used does not fall, whatever stale copy is saved.
UsageNeverRefunded ==
    [][\A s \in open : /\ s \in open'
                       /\ usage'[s].end = usage[s].end
                       /\ usage'[s].used >= usage[s].used]_vars

\* A row that is not there has no charges.
ClosedRowsEmpty == \A s \in Starts \ open : usage[s].used = 0

\* What a request holds, given the rows there are: a matching plan and
\* allowance, and, from the first step that relies on it, a row that exists and
\* has no fewer charges than the copy.
Relies(l) ==
    \/ l.pc \in {"resync", "zero", "increment", "mirror"}
    \/ l.pc = "lookup" /\ l.kind = "record"
Lags(l, rowsOpen, rows) ==
    /\ l.rec.allow = Allowance[l.rec.plan]
    /\ Relies(l)
         => /\ l.win.start \in rowsOpen
            /\ l.rec.used <= rows[l.win.start].used
CopiesLag == \A w \in Workers : Lags(loc[w], open, usage)

\* The inductive invariant behind the theorems of UsageMeteringProofs.
Consistent ==
    /\ TypeOK
    /\ ChargesConserved
    /\ PlanAndAllowanceAgree
    /\ ClosedRowsEmpty
    /\ CopiesLag
    /\ MirrorNeverLeads

\* The abstract ledger: the limit in force is the allowance of the row.
Ledger == INSTANCE QuotaLedger WITH
    Periods <- Starts,
    Limits <- {Allowance[p] : p \in Plans},
    limit <- [s \in Starts |-> usage[s].allow],
    granted <- charged

\* Metering implements the ledger: a reply is charged only while the period's
\* count is below the allowance in force when the charge commits, although the
\* request tested a copy; no other step changes a count.
ImplementsLedger == Ledger!Spec

\* The usage row of the subscription's current period, if there is one: a row
\* that starts and ends when the subscription says.  A row of another end is
\* not one: a request whose period was moved or cut short fails to insert its
\* own, falls back to the row that has the same start and uses it with the plan
\* and allowance it has (save_usage_record), and no request ever changes these.
RowFollowsSubscription ==
    LET b == Bounds(sub, now)
    IN  b.start \in open /\ usage[b.start].end = b.end
          => usage[b.start].plan = sub.plan

\* A request that loaded the subscription before a plan change can put the old
\* allowance back after it, also in its second look at a row it holds.  For the
\* row of the current period this is repaired: once plan changes and crashes
\* stop and summaries keep being asked for, it follows the subscription for
\* good.  Nothing is claimed of a row reused for another period end.
StaleAllowanceRepaired ==
    /\ <>[][\A w \in Workers : ~BeginSync(w) /\ ~Crash(w)]_vars
    /\ []<><<\E w \in Workers : Begin(w, "summary")>>_vars
    => <>[]RowFollowsSubscription
=============================================================================
