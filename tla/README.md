# TrafficSMS: specifications, model checks and proofs

TrafficSMS answers traffic requests by SMS for subscribers that pay through
Stripe.  A FastAPI backend (`src/backend/app`) serves the web account center
(`src/frontend`), Twilio's inbound-message webhook and Stripe's webhook over one
PostgreSQL database.  This directory specifies the parts of it whose
correctness depends on what runs at the same time, checks them with TLC and
proves the most important properties with TLAPS.

Paths below are relative to `src/backend/app` unless they begin with `frontend`.

## 1. How the program runs

Facts that every model rests on:

| fact | where |
|---|---|
| Two server processes, each with a thread pool for synchronous endpoints and an event loop for the webhooks | `backend/Dockerfile` (`uvicorn --workers 2`) |
| One SQLAlchemy session per request, `autoflush=False`, `expire_on_commit=False` | `core/database.py:13-18` |
| A repository `save` is `add`, `commit`, `refresh`: each save is a transaction of its own, and a request is a sequence of them | `billing/repository.py`, `auth/repository.py:27-34` |
| An ORM UPDATE writes the columns that differ from the loaded copy, and a second SELECT in the same session keeps the copy that is loaded (identity map) | SQLAlchemy's unit of work |
| A rollback expires the session's copies | `billing/repository.py:95-103` |
| PostgreSQL runs READ COMMITTED, so each statement sees what was committed before it | default of the engine in `core/database.py:8` |
| A `refresh` reloads a row after a commit, in a transaction of its own, so what a handler uses after its save may be another request's | `auth/repository.py:27-34` |
| Every start of the API container runs `alembic upgrade head`, in one transaction | `backend/Dockerfile`, `database/migrations/env.py:37-55` |

So the unit of interleaving is the committed statement, what a request decides on
is a copy that may be stale, and what it writes is a difference of copies.  A
request may die between any two commits.

## 2. Inventory

| component | state | operations | interacts with | what makes it correct |
|---|---|---|---|---|
| SMS metering (`billing/service.py:357-552`) | `usage_tracking` rows, `users.monthly_sms_count` | summary, quota check, charge, re-synchronisation after a plan change, new period | traffic handler charges; Stripe syncs move plan and period | no lost or invented charge; a charge only below the allowance; plan and allowance agree; the row of the current period follows the plan |
| Subscription sync (`billing/service.py:736-1156`) | `subscriptions`, `billing_events`, mirror columns of `users` | webhooks, reconcile, change plan, cancel, grace period | Stripe (external), metering, dashboard | every event recorded, none recorded before it is applied; row follows Stripe |
| Stripe customer and checkout (`billing/service.py:321-348, 637-735, 861-930`) | `users.stripe_customer_id`, `subscriptions.stripe_customer_id` | ensure customer, checkout, portal, completed checkout | Stripe, registration, subscription sync | what was paid for is linked to the user, in both rows |
| Sessions (`auth/service.py:266-640`, `auth/repository.py`) | `refresh_tokens`, `users.session_token_version` | login, refresh, replay answer, logout, logout all, revoke, cleanup | every endpoint (`auth/dependencies.py`), browser | ended sessions stay ended; a rotated token is dead; a token is revoked by rotation only when its successor is stored |
| Lockout and rate limit (`auth/service.py:100-200, 340-385`) | `failed_login_attempts`, `is_locked`, `locked_until`, `auth_events` | count failures, lock, unlock | login, refresh, every endpoint, password reset | a lock has an end; a request that found no lock expired lifts none, but for a reset that saw one; failures stay within the rate; the owner gets in again |
| Account lifecycle (`auth/service.py:200-265, 640-1050`) | one-time tokens, email, pending email, phone, password | register, verify, resend, forgot and reset, change password, email, phone | mailboxes, sessions, unique constraints | an address has one account; a verified address was opened by its mailbox; a used link does not work again |
| SMS consent (`sms/consent.py`, `sms/dispatcher.py`) | `sms_opted_out_at`, `sms_opt_out_type` | STOP, START, HELP, dispatch | Twilio, traffic handler | STOP wins; no service reply after a STOP |
| Browser session (`frontend/components/auth/AuthProvider.tsx`) | `localStorage`, React state, refresh timer of each tab | hydrate, rotate, sign in, sign out, dashboard load | authentication API, other tabs | a session that ended elsewhere is dropped; no replay by the browser itself |
| Conversation memory (`sms/conversation.py`) | a dictionary per process | record, resolve follow-up, expire, restart | intent resolver | a follow-up is about something this phone named, and asked about recently |
| Community reports (`sms/handlers/community.py`) | `community_reports`, `report_votes` | report, vote | traffic replies | status and counters are backed by recorded votes; a report lives its term and no longer than confirmations allow |
| Saved routes (`services/saved_route_service.py`) | `saved_routes` | create, rename, edit, delete, use | SMS and web | a listed name finds its route and no other |
| Database migrations (`database/migrations`) | tables, columns, constraints, `alembic_version` | upgrade, downgrade | ORM classes, container start | from an empty database or one older than Alembic, head serves the account tables' classes; unique columns stay unique at every revision; an upgrade loses nothing |
| Providers and cache (`providers/`, `cache/`) | health records, Redis entries | request, fail over, cache | traffic service | a healthy provider is tried; a cached answer fits its question |
| Intent resolution, typo correction (`sms/intent_resolver.py`, `sms/typo_correction.py`) | none | pure | dispatcher | compliance words always recognised; corrections bounded |
| Traffic engine, summaries (`services/traffic*`, `llm/`) | none | pure, external calls | handlers | bounded, grounded replies |
| Email, configuration, shell, public pages | static or external | | | |

What is hard to test is listed, line by line, under `hazards` in `PROJECT.json`,
each with the properties that would notice it.

## 3. Modules

Each component has a module with its state, one action per committed step, its
specification and its properties; `MC*` modules give TLC small constants; `*Proofs`
modules hold theorems (`MessagingProofs` of reports, routes and memory, `WebProofs` of the
browser and the Stripe customer, `ComponentsProofs` of consent, the migrations and the
model that runs them all).  Operators named `X_Y` are variants of the definition `X`
that contain a plausible mistake; they are not part of any specification and exist
so that every property can be seen to notice one.

### QuotaLedger and UsageMetering

`QuotaLedger` is what metering promises: a period has a limit that plan changes
move, grants are made one at a time below the limit in force, none is taken back.

`UsageMetering` is one subscriber (rows are not shared between users) and
`Workers` requests.  `sub` is the `subscriptions` row, replaced by `BeginSync` with
what a Stripe sync commits (a member of `Reported`); `usage` and `open` are the
`usage_tracking` rows by period start; `loc[w]` is what the session of a request has
loaded.  `Lookup`, `LookupLatest`, `Found`, `Resync`, `Insert`, `ZeroMirror` are the
branches of `get_or_create_usage_record`, including the unique-constraint
fallback.  A charge goes through them twice: to gate the request (kind "charge"), then in
`record_sms_usage` (kind "record"), where the session gives back the copy that it
holds of a row (`Selected`).  `Increment` and `Mirror` follow, the first
the conditional UPDATE of `record_usage_increment`.  `now` drives the
calendar-month default when Stripe reported no period.  `charged` is a history
variable: replies charged per period.

### SubscriptionSync

One subscriber, an external Stripe (`stripe`, `events`, `acked`) that emits events,
delivers them in any order and repeats them until they are answered, and handlers
on two workers.  A handler goes through `Receive` (signature and duplicate test),
`Lookup`, `Retrieve`, `Load`, `Heal` (`_refresh_access_state`), `Sync`, `SaveUser`,
`Recheck`, `Record`.  `Merge` is the column-wise UPDATE.  The endpoints enter the same
chain through `BeginReconcile` and `BeginModify`.  A handler may die at any point
(`Crash`).  Time matters for grace periods only.  Payloads and amounts are left out.

### SessionLifecycle

One user, tokens as values, and `Requests` that log in, refresh, log out, revoke
one session, or end all sessions (logout_all, password change and the answer to a
replay share these steps).  A refresh is `Cleanup`, `Lookup` (or `LookupAtExpiry`, the
instant at which a row is kept but refused), `Touch`, `Store`, `Rotate` (the commit of the
revocation), `Answer` (the commit of the log and the answer), and may die (`Fail`) before any of
them; an ending request is `SaveVersion`, `SelectAll`, `UpdateAll`, in the order its code has them.
`version` is saved from a copy, so increments can be lost.  `UpdateAll` fails when a
selected row has been deleted in between.  `Accepted` is the check of
`get_current_user`.  Histories: `parent`, `dismissed`, `rotated`, `ended`.

### AccountLockout

One account and `Requests` that sign in (with a right or a wrong password, under
either of the account's names), reset or change the password, or only authenticate.  A
sign-in is `BeginLogin` (which fixes its `now`), `Count` (the rate limit), `Load`, perhaps
`Unlock` and `Reload` (the refresh that ends a save), then `WrongPassword` or
`RightPassword`, and `LogFailure` or `LogLimited`; the other requests are `Load`, `Check`,
`Unlock`, `Reload` (`get_current_active_user`) and `SavePassword`.  `Saved` is the column-wise
UPDATE.  `failures` is the part of `auth_events` that is counted.  A refresh takes the same
steps as an authenticated request.  Histories: `lastWrong`, when a wrong password was
last sent or judged (the later of the two matters: a lock begins with the time at
which the sign-in was sent and is placed when it is judged).

### SmsConsent

One phone, `Requests` messages in flight.  `Receive` loads the user; `OptOut`, `OptIn`,
`RecordHelp` commit the columns that differ; `Dispatch` tests the opt-out on the
loaded copy; `Reply` is the answer after the handler's awaits.

### ClientSession

The tabs of one browser against an API whose calls are atomic.  A step is a piece
of JavaScript between two awaits.  `Mount`, `Fire`, `Login`, `Logout`, `Load` start an
asynchronous function; `Serve` is the API; `Continue` resumes the function with the
answer or with "failed" (lost request, lost answer, other error).  `stored` is
`localStorage`, `session` and `armed` are React state and refresh timer of each tab.
A browser starts with no session or with one
from an earlier visit, whose access token may be old.  A session kept in `sessionStorage` is
the one-tab case.  `ClientSession` uses the API
as `SessionLifecycle` has it, without its inner steps: the two are not composed,
since the product has more states than TLC can visit and the client's hazards do
not depend on a request's inner commits.

### AccountLifecycle

Rows of `users` with the columns that registration, verification, reset and contact
changes write; `mails` are the links that reached a mailbox, and anybody who holds one may
open it at any time and as often as they like.  A handler is `Register`,
`VerifyEmail`, `ResendVerification`, `ForgotPassword`, `ResetPassword`, `ChangePassword`,
`RequestEmailChange`, `ConfirmEmailChange` or `ChangePhone` up to its save (lookups,
refusals, a fresh token), then `Save` (the column-wise UPDATE or INSERT under the
table's unique constraints, and the refresh), then `Mail` (the link, built from the
row as the refresh left it or as it is by then).  `Fail` is an integrity error, a mail
server's failure, a cooldown, an expired token or the end of the worker.  Rows without a password,
which the schema allows, can be registered again.  Histories: `proved`, the
addresses whose mailbox opened a link; `spent`, the tokens used; `tangled`, the
accounts with two email-change requests in flight at once.

### CustomerProvisioning

One user's Stripe customer, held in two rows.  `Begin`, `FindSubscription`,
`InsertSubscription`, `UseExisting`, `CreateCustomer`, `SaveCustomer` are
`ensure_stripe_customer` by statement; `Checkout` follows it, `Completed`, `TakeOver`,
`SyncSubscription`, `Mirror` are the three commits of the checkout webhook.  A customer whose
request overlapped another or died is `excused`: Stripe may keep it although no
row names it.

### CommunityReports

`reports` and `votes` are the tables.  `PoliceReport` makes a report; a vote is
`ReadReport` (`handle_police_vote` up to its commit, on a copy of the report), then `CommitVote`
(both rows), between which other workers' votes commit.  `Judged` is the status and the
expiry that the new counters give.  Counters are written from copies and do lose updates,
so the properties compare them with the vote rows in one direction.

### SavedRoutes

One user's table and `Workers` requests: the check of the name and the copy
(`Create`, `Rename`, `Edit`, `DeleteById`, `DeleteByAlias`, `UseBySms`, `UseOnWeb`), then the
commit (`Insert`, `Update`, `Delete`) under `uq_saved_routes_user_alias`.  A name is an
alias and a spelling.  `tangled` holds the routes that two requests renamed at once.

### ConversationMemory

The dictionary of each worker, the clock, and messages that either worker may get:
`TrafficCommand` records the highway and the destination a message names (either, both or
neither; a highway may be a destination), `Direction` and `FromOrigin` follow up,
`NothingToFollow` drops an expired state, `Restart` empties a worker.  Histories: `named`, when
each phone last named each thing itself, and `followed`, when a follow-up about it was
last answered; a follow-up renews the second only.

### SchemaMigrations

A schema is a record of sets: tables, columns, unique constraints, unique indexes, foreign keys,
timestamps without a zone, defaults.  `Upgraded(k, s)` and `Downgraded(k, s)` are the
eight revisions, with their "only if missing" tests.  `Begin`, `UpgradeOne`,
`DowngradeOne`, `Commit`, `Abort` are an alembic command in its transaction.  It starts from an
empty database or from one older than Alembic: a `users` table with any subset
of `LegacyColumns`, unique by constraint or by index, with or without zones, with or
without `refresh_tokens`.  `MappedColumns` and `MappedUnique` are what the classes of the seven
account tables map: `HeadServesModels` asks for all of them, `UniqueStays` for the unique ones
at every revision from the second on.  `UpgradesPreserve` compares what an upgrade has made so
far with what was committed when it began.  `EmptySpec` starts from an empty database only.

### MCComponents

Components that share no state are checked in one model: `subject` says at the start which
of them runs, on nine variables that each module names its own way.  SMS
consent is there by EXTENDS, `CommunityReports`, `SavedRoutes`, `ConversationMemory`,
`SchemaMigrations`, `CustomerProvisioning` and `ClientSession` by INSTANCE.  The states are the
sum of the components' states, not their product, and each property is the
component's own, for the runs of that component.  The components' constants are constants of
the model (`Components.cfg` has their values), so that what is proved of it holds for all of
them.

## 4. Runs

Every passing run has a variant per property that it refutes (`mutants`).

| run | instance | shows |
|---|---|---|
| `usage` | 2 requests, 3 plans; a period that is upgraded, cut short, renewed, lapses; fair | `TypeOK`, `ChargesConserved`, `PlanAndAllowanceAgree`, `MirrorNeverLeads`, `ImplementsLedger` (metering refines `QuotaLedger`), `StaleAllowanceRepaired` |
| `sync` | a new user or a subscriber, 2 events, 2 handlers, 2 paid plans, a running clock, a crash, fair redelivery | `TypeOK`, `NothingForgotten`, `LoneSyncFollowsStripe`, `ReconcileRepairs`, `EveryEventRecorded` |
| `sync_drift` | expected violation | `NoDriftWhenQuiet`, see Findings |
| `session_ends` | 2 requests, 2 tokens, 2 version increments | `TypeOK`, `EndedStayEnded`, `UsedOnce`, `RotationHasHeir` |
| `session_overlap` | expected violation, 3 tokens | `SignedOutEverywhere`, see Findings |
| `lockout` | 2 requests, 1 name, 1 address, threshold and limit 2, 2 ticks | `TypeOK`, `LockEnds`, `LockHolds`, `OwnerGetsIn`, `RateLimitHolds` |
| `accounts` | 2 requests; a verified account, a row without password, a newcomer; 3 addresses, 3 phones, 2 tokens | `TypeOK`, `OneAccountEach`, `VerifiedIsProved`, `TokensWorkOnce` |
| `accounts_tangled` | expected violation, 1 account, 3 tokens | `AlwaysProved`, see Findings |
| `components`: consent | 3 messages in flight, 5 ticks | `StopWins`, `LoneStartClears`, `StoppedStaysStopped` |
| `components`: reports | 1 report, 3 phones, 2 workers, 5 ticks, thresholds 2, a term of 4, an extension of 3 | `StatusIsBacked`, `LifeIsBounded` |
| `components`: routes | 2 requests, 2 keys, 2 aliases in 2 spellings | `ListedNameWorks` |
| `components`: customer | 2 requests, 3 customers | `PaidIsLinked` |
| `components`: schema | 129 databases, every upgrade and downgrade between the nine revisions | `HeadServesModels`, `UniqueStays`, `UpgradesPreserve` |
| `components`: memory | 2 workers, 1 phone, a highway that is also a place, another place, 3 ticks, a lifetime of 2 | `FollowUpIsRecent` |
| `components`: client | 1 tab, 3 sessions, all five functions at once, a reload | `NeverReplays` |
| `client_tabs` | 2 tabs, 2 sessions, one page left or reloaded, an API that answers within 5 s, fair | `DeadSessionIsDropped` |
| `consent_race` | expected violation | `StartClears`, see Findings |
| `schema_complete` | expected violation, an empty database | `HeadHasEveryTable`, see Findings |

`components` is one run; its `ComponentsTyped` is the type invariant of all seven.

### Bounds

* Two requests (three for consent) are enough for every pairwise overtaking of
  committed steps; the theorems remove the bound where they apply.
* Allowances 0, 1, 2 stand for 0, 60, 200: what matters is equality, one below
  and exhaustion.  Plans have different allowances, as in `billing/constants.py`.
* `MaxTime` bounds the clock; the instances hold one boundary of each kind (end of
  a period, end of a grace period, turn of a month, an opt-out and what follows it).
* `MaxEvents` = 2 in `sync`: from a new user both events are those of the checkout,
  which may overtake each other and be repeated; from a subscriber (`Subscriber`) the
  first is an old one that is already recorded, the second a change of status, an
  invoice or a change of plan.  `sync_drift` has 3.  `MCInit` starts the subscriber on one
  of the two paid plans, which are interchangeable, and lets the clock run for the
  subscriber only, since a checkout starts no grace period.  `MaxCrashes` = 1, since a second
  crash of the same kind finds the same state.  That crashes break neither `TypeOK` nor
  `NothingForgotten` is proved, for any number of events.
* `Tokens` = 2 in `session_ends` gives a rotation, a replay and two requests that race
  for one token; two heirs of a token and chains of rotations are covered by the
  theorems, which hold for any set of tokens.  Two increments of
  `session_token_version` (`MaxVersion`) are enough for one to be lost.
* `Threshold` = `Limit` = 2 in `lockout` lets one failure pass and the second lock or limit;
  two requests then overtake each other on either side of the boundary, and
  `RateLimitHolds` allows for the one that was admitted together with the last.  Lock and
  window last one tick, so both begin and end within `MaxTime`.  A second name or address
  has a count of its own, which `Limited` tests in the same way.  The theorems hold for any of
  these numbers, names and addresses.
* In `accounts`, `MaxTokens` = 2 allows two links in mailboxes at once, of one account
  or of two, and three accounts with three addresses allow two of them to want
  the third's.  `accounts_tangled` needs three tokens, since the address it
  starts with is verified.
* One report is enough in `components`: no step of a vote reads another report.
  `Confirm` = `Clear` = 2 with three phones lets answers disagree and thresholds be
  crossed by racing votes.  With a term of 4 and an extension of 3 a confirmation in the
  last ticks of the term extends the report, one from an older copy may write a smaller expiry
  after one that extended it further, and the clock (`ReportTime` = 5) passes the first term.
* In the memory, a lifetime of 2 within 3 ticks lets a follow-up succeed after time has
  passed, on the state of either worker, and a state expire with another renewed.  One phone is
  enough, since no step reads another's state; the theorem holds for any number.
* Two keys and two workers in `components` let every pair of route requests overtake each
  other; a third route would not be told from the second by any guard.
* `LegacyColumns` has one column of each kind that c7e0a9f13b42 adds: plain,
  unique, one that a default fills and the one with a lasting default.
* The sets of three in `Components.cfg` share their model values, and so do `Workers`
  and `OptTypes`: one group of permutations is then sound for all components, each of which
  treats its own set symmetrically.
* `MaxBusy` bounds when a user acts in a browser (while fewer calls than that are
  awaited); timers and hydration are not bounded.  `MaxReloads`
  bounds how often a page is left or reloaded.  `Prompt` (the API answers a hydration
  before the first timer is due) holds in both instances; without it `client_tabs` is
  too large for its time.
* Deadlock is not checked: a server without requests is at rest, and the bounded
  instances stop when clock, events or tokens are used up.

### Fairness

* `UsageMetering` and `SubscriptionSync`: weak fairness of each request's next
  step.  The server runs what it accepted; a request that dies is `Crash`, which
  `StaleAllowanceRepaired` assumes to stop and `MaxCrashes` bounds.
* Strong fairness of the redelivery of each event.  Stripe retries for days until
  it gets a 2xx, and handlers are not always free when it does.
* `StaleAllowanceRepaired` and `ReconcileRepairs` assume in the formula, not in the
  specification, that summaries are asked for and reconciliations complete.
* `ClientSession`: time passes for each session, a due timer runs, the API answers
  and the browser resumes.  A request that fails is not assumed away: "failed" can
  happen whenever a call is awaited, it is only not owed.
* All other properties are safety properties and need no fairness.

## 5. Proofs

Every invariant and every action property that a passing run checks is a theorem, for
every number of requests, tokens, plans, events and every bound.  Each is proved from an
inductive invariant, stated with the properties or at the head of the proofs, preserved
action by action.  What is assumed is named: as ASSUME, or, in the modules that
`MCComponents` instantiates, as the hypothesis of the theorem; `ComponentAssumption`
gathers the latter, and TLC evaluates it on `components`.  The assumptions say that
plans have distinct allowances, that `None` is no token, that bounds are numbers, that
`Requests` of the lockout, the `Tabs` of a browser and the `Voters` are finite sets, since they are counted,
and that a legacy `users` table has no auth column but those that c7e0a9f13b42 knows
(`SchemaAssumption`).

| module | invariant | why it is needed | theorems |
|---|---|---|---|
| `UsageMeteringProofs` | `Consistent` | a charge is safe because what a request relies on is a row that exists and has at least as many charges as its copy, and a plan always travels with its allowance | `TypeCorrect`, `ChargesAreConserved`, `PlansAndAllowancesAgree`, `MirrorLags`, `ChargesAreNeverRefunded`, `MeteringImplementsLedger` |
| `SubscriptionSyncProofs` | `Accounted` | a handler reaches its last steps only when its event is applied or had no row, and holds a Stripe object by the time it syncs | `TypeCorrect`, `NothingIsForgotten`, `LoneSyncsFollowStripe` |
| `SessionLifecycleProofs` | `Orderly` | the SELECT of a revocation covers the rows that existed when it began, and a successor is stored before its predecessor is revoked | `TypeCorrect`, `EndedSessionsStayEnded`, `TokensAreUsedOnce`, `RotationsHaveHeirs` |
| `AccountLockoutProofs` | `Guarded` | both lock columns agree in every copy, so a column-wise save keeps or clears both; a refusal or a logged failure is dated before the end of a lock that a wrong password explains | `TypeCorrect`, `LocksAlwaysEnd`, `LocksHold`, `OwnersGetIn` |
| | `Room` | a sign-in takes its place in a window when it is let through, so what is logged and what is on the way are counted together, and the last to be let in finds at most `Limit` - 1 logged | `RateLimitAlwaysHolds` |
| `AccountLifecycleProofs` | `Tokened` | every token that is not used up has one place, a column of a row or a request that is about to write it, so the one commit that clears the column ends it, and a late save of another copy cannot write it back; what a request saves is registered, and a row that has a link out is too | `TypeCorrect`, `OneAccountAlways`, `TokensAlwaysWorkOnce` |
| | `Vouched` | unless an account is `tangled`, a link that still works went to the mailbox of the address it would verify, at most one email change of the account is in flight, and a request that is about to save a verified address had it from an opened link | `VerifiedIsAlwaysProved` |
| `MessagingProofs` | `Counting`, `Living` | the copies of a report in flight are backed by recorded votes too, so a lost update only lowers a counter; a copy has the report's own creation time, so no stale save ends it before its first term | `ReportsTyped`, `StatusAlwaysBacked`, `LifeAlwaysBounded` |
| | `Naming` | name and alias agree in the row, in every copy and in what a copy becomes, and at most one rename of an untangled route is in flight, so a column-wise save keeps or replaces both; a deleted key never returns, so late saves miss | `RoutesTyped`, `ListedNameAlwaysWorks` |
| | `Remembered` | what any worker remembers of a phone was named by it, and was named or asked about in a follow-up when the state was recorded | `MemoryTyped`, `FollowUpsAreRecent` |
| `WebProofs` | `Orderly` | with one tab, storage and memory are the same; if it is moreover undisturbed, hydration and timer never rotate at once, a new token is known to the call that received it only, and a token that the API exchanged is about to be replaced by the call that exchanged it, so no other call sends it | `SessionsTyped`, `NothingIsReplayed` |
| | `Provisioned` | a customer that nobody is excused for is in both rows or held by the one request that is bringing it there, and that request is alone | `CustomersTyped`, `PaidAlwaysLinked` |
| `ComponentsProofs` | `Orderly` | the copy of an unraced START is the row, and a copy loaded after a STOP shows it | `TypeCorrect`, `StopAlwaysWins`, `LoneStartAlwaysClears`, `StoppedUsersStayStopped` |
| | `Migrated` | `At(k, s)`: a schema at revision k has what the revisions up to k leave, whatever it was found with; each upgrade takes `At(k - 1)` to `At(k)` and each downgrade takes it back, in the run's work copy; the work copy of an upgrade has all that is committed (`Climbing`), since each revision only adds or replaces like by like | `SchemaTyped`, `HeadAlwaysServes`, `UniqueAlwaysStays`, `UpgradesLoseNothing` |
| | | the composed model's step is a step of the component that runs; its properties follow by instantiating the modules above | `ComponentsAreTyped`, `ReportsBacked`, `ReportsBounded`, `ListedNamesWork`, `PaidCustomersLinked`, `FollowUpsRecent`, `HeadServes`, `UniqueColumnsStay`, `UpgradesKeepAll`, `TokensAreSentOnce` |

`MeteringImplementsLedger` is a refinement proof: initial states map to initial
states, and each step maps to a `Grant`, a `SetLimit` or a stutter under the mapping
written in `UsageMetering` (`Ledger`).

Only model-checked: the liveness properties (`StaleAllowanceRepaired`,
`EveryEventRecorded`, `ReconcileRepairs`, `DeadSessionIsDropped`), since the prover
handles neither fairness with ENABLED nor leads-to arguments over it.  The properties of the
runs that expect a violation are refuted, not proved.  Out of the prover's reach altogether:
induction over data and RECURSIVE operators; none of the modules uses them.

## 6. Findings

Each is a run that TLC must refute.

* `sync_drift`: snapshots that arrive in reverse order leave the older state in the
  row.  Reconciliation repairs it (`ReconcileRepairs`).
* `session_overlap`: a refresh in flight during "log out everywhere" stores a
  refresh token that stays live.  Its access token is refused, because the
  version was raised, but the next refresh mints an accepted one.
* `consent_race`: a START that overlaps a STOP answers "resubscribed" and leaves
  the opt-out.  The other order cannot lose a STOP (`StopWins` is proved).
* `accounts_tangled`: two email-change requests of one user overlap between one's commit and
  refresh; the first mails the second's token to the first address, and the link verifies
  the second address, whose mailbox never answered.
* `schema_complete`: "Database schema is managed by Alembic migrations." (`main.py:43`), but
  no migration creates `community_reports`, `report_votes`, `enforcement_cameras` and
  `dui_notices`; an empty database that is brought to head lacks them.

Behaviours of the models that no document speaks about, and that the properties
are therefore stated around:

* A request whose period end is not that of the row with the same start (a period cut
  short or moved while its start stays) fails to insert its own row and uses that one
  as it is, with the plan and allowance it has (`billing/service.py:404`,
  `billing/repository.py:95-102`); while the ends differ no request changes these, so an
  upgrade may not raise the allowance.  Hence "of the current period" in
  `StaleAllowanceRepaired`, and charges are right all the same.
* Two deliveries of an event that both pass the duplicate test both apply it.
* A reconciliation that a webhook overtakes writes only the columns that differ
  from the copy it loaded, so what it retrieved may not reach the row; hence
  "that nobody overtook" in `LoneSyncFollowsStripe` and "keep completing" in
  `ReconcileRepairs`.
* Wrong passwords verified in parallel raise `failed_login_attempts` once, so a lock may
  come later than after `failed_login_lockout_threshold` of them; what bounds the guesses
  is `RateLimitHolds`.  A sign-in that was sent while a lock was on logs a failure that
  counts, hence "lock and window" in `OwnerGetsIn`.
* Whoever found a lock expired lifts whatever lock is there when it commits, a newer one too
  (`auth/service.py:127-131`, `auth/dependencies.py:109-113`), and a wrong password that was
  sent earlier and is judged later may write an earlier end; hence the three requests
  that `LockHolds` names.
* A refresh revokes its token, commits a log event and answers
  (`auth/service.py:517, 523, 534`).  If it dies in between, or its answer is lost, the client
  holds a revoked token, whose next use is taken for theft and ends every session.
  `RotationHasHeir` speaks of the order of the commits only: what dies before the
  revocation leaves a token that works.
* Two refreshes of one token that overlap both get a session, and two uses of a one-time
  token that overlap both commit; hence "once a refresh has answered" in `UsedOnce`, and
  `TokensWorkOnce` says that a used token never comes back.
* Two endings that overlap may raise `session_token_version` by one between them, which is
  enough to refuse every token from before either.
* A service reply in preparation when a STOP commits is still sent; hence "that
  arrives after" in `StoppedStaysStopped`.
* Two votes that overlap write counters from their copies: a vote row exists that no
  counter includes, so a threshold may be reached late or never; hence "backed by" in
  `StatusIsBacked`.  A confirmation from an older copy may shorten what another extended, but
  not below the first term (`LifeIsBounded`).
* Two requests without a customer id both create one at Stripe and the later commit
  wins; a request that dies before its commit leaves one that no row names; hence
  `excused` in `PaidIsLinked`.
* A rename that changes only case overlapping one to another name leaves name and alias
  of different requests; hence `tangled` in `ListedNameWorks`.  The check for a free name counts
  inactive routes; an update that clears a required field fails at the commit
  and is answered as a conflict of names.
* A follow-up that reaches the other worker is answered from the state that one has, which may
  be of an older question, and each follow-up that is answered renews the lifetime of
  what it is about; hence the two histories in `FollowUpIsRecent`.
* A mail asked for by a request whose token another has used by then is not sent: the link
  cannot be built from NULL (`Mail`).
* The downgrade of c7e0a9f13b42 drops `password_hash` and the other auth columns of `users`
  (lines 461-477) also from a database that had them before Alembic; hence
  `UpgradesPreserve` speaks of upgrades, as `CHANGELOG.md:60` does, and `UniqueStays` of
  `BaseColumns`.
* The downgrade of c9f3a5d7e824 also drops defaults that were there before it; the next
  upgrade sets them again.
* A reply is charged before it is built and sent (`sms/handlers/traffic.py:95`), so a failure
  in between leaves a charge without a reply.  `ChargesConserved` counts charges, not
  deliveries.
* A token rotation in flight when the user signs out stores and shows the session it
  obtained (`AfterRotation` after `Logout`): the sign-out does not last.

## 7. Not modelled, and the plan

* Providers, failover and Redis (`providers/`, `cache/`).  They do not run yet: nothing in the
  program registers a provider, only tests call `TrafficService.lookup_provider_result`, and every
  `CacheManager` is made without a Redis client (`services/traffic_service.py:71-72`), so every
  read misses.  Read as written, a provider with three failures is never selected
  again, since only a success resets it, and the request cache's key names the destination
  only.  They are worth a module once they are wired.
* Text: intent matching, synonyms, typo distance, the highway catalog, formatting of replies, pages
  and mail.  They are functions of one message; the order in which they are tried is
  in `SmsConsent` and `ConversationMemory` where a state depends on it.
* The traffic engine and the summaries: stateless scoring over external answers; the language model is
  external.
* Invoice amounts, billing history payloads, profile fields: they decide nothing that a
  property here speaks about.
* Cooldowns and expiry times in `AccountLifecycle`: a request that they refuse changes nothing,
  which any request there may do anyway.
* SMTP, Stripe and Twilio transport, configuration, middleware, public pages.

Next:

1. Proofs: abstract specifications like `QuotaLedger` for other components and their
   refinement (a session store in which an ending is one step, a store of one-time tokens).
2. The composition of `AccountLifecycle` with `SessionLifecycle` on one account (a reset
   raises the version and ends the sessions), whose product is too large for TLC at
   the present grain.
3. Pure algorithms against reference definitions over bounded inputs: typo
   correction, quality levels, coverage merging, length limits of messages.
