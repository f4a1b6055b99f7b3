-------------------------- MODULE SchemaMigrations --------------------------
(***************************************************************************)
(* The Alembic migrations (backend/app/database/migrations), which run at  *)
(* every start of the API container and must bring whatever database they  *)
(* find to the schema the ORM classes use.                                 *)
(*                                                                         *)
(* A schema is what the migrations look at or a request relies on: tables, *)
(* columns, what keeps a column unique, foreign keys, the timestamps that  *)
(* lack a time zone and the columns that have a default.  Indexes that     *)
(* only serve speed, column types and lengths are left out.  PostgreSQL    *)
(* runs one alembic command in one transaction: a migration that raises or *)
(* a container that dies leaves the schema as it was.                      *)
(***************************************************************************)
EXTENDS Naturals, Sequences

CONSTANTS
    LegacyColumns   \* auth columns that a database older than Alembic may have

VARIABLES
    schema,     \* the committed schema
    revision,   \* alembic_version: how many revisions are applied
    run         \* the alembic command in progress and its transaction

vars == <<schema, revision, run>>

\* The revisions, oldest first.
Chain == <<"768bae8c0f8b", "c7e0a9f13b42", "1f8d6f5b3a21", "5d6b7c8e9f10",
           "9a7c3e6b2d14", "a4c9d7e2f531", "b8e2f4a6c713", "c9f3a5d7e824">>
HeadRevision == Len(Chain)

In(t, columns) == {t} \X columns

-----------------------------------------------------------------------------
(* c7e0a9f13b42: the primary schema.                                        *)

AuthColumns ==
    {"password_hash", "email_verified", "verification_token",
     "verification_token_expires_at", "phone_verified", "password_reset_token",
     "password_reset_expires_at", "is_active", "is_locked",
     "failed_login_attempts", "last_login", "last_failed_login",
     "password_changed_at", "sms_consent_at", "marketing_consent_at",
     "updated_at"}

SchemaAssumption == LegacyColumns \subseteq AuthColumns

\* The columns of users that only create_users_table makes: an older database
\* has them.
BaseColumns ==
    {"id", "email", "phone_e164", "home_location", "work_location",
     "gym_location", "school_location", "default_state", "default_country",
     "subscription_status", "subscription_plan", "stripe_customer_id",
     "stripe_subscription_id", "stripe_price_id", "current_period_start",
     "current_period_end", "cancel_at_period_end", "last_payment_date",
     "next_billing_date", "subscription_updated_at", "monthly_sms_count",
     "created_at"}

TokenColumns == {"verification_token", "password_reset_token"}
LegacyUnique == {"email", "phone_e164", "stripe_customer_id",
                 "stripe_subscription_id"}
NaiveColumns == {"current_period_start", "current_period_end",
                 "last_payment_date", "next_billing_date",
                 "subscription_updated_at", "created_at"}

AddColumns(s, t, columns) == [s EXCEPT !.columns = @ \cup In(t, columns)]
DropColumns(s, t, columns) ==
    LET kept(set) == set \ In(t, columns)
    IN  [s EXCEPT !.columns = kept(@), !.uniques = kept(@), !.indexes = kept(@),
                  !.fkeys = kept(@), !.naive = kept(@), !.defaults = kept(@)]
DropTable(s, t) ==
    LET gone == {c \in s.columns : c[1] = t}
    IN  [DropColumns(s, t, {c[2] : c \in gone}) EXCEPT !.tables = @ \ {t}]

\* create_users_table: a unique constraint and a unique index on each of six
\* columns.
CreateUsers(s) ==
    LET unique == In("users", LegacyUnique \cup TokenColumns)
    IN  [AddColumns(s, "users", BaseColumns \cup AuthColumns)
           EXCEPT !.tables = @ \cup {"users"},
                  !.uniques = @ \cup unique, !.indexes = @ \cup unique,
                  !.naive = @ \cup In("users", NaiveColumns),
                  !.defaults = @ \cup In("users", {"created_at", "updated_at"})]

\* Variant that breaks HeadServesModels: a users table that has auth columns is
\* taken to be migrated.
EnsureUsersColumns_AllOrNone(s) ==
    IF s.columns \cap In("users", AuthColumns) # {} THEN s
    ELSE [AddColumns(s, "users", AuthColumns)
            EXCEPT !.defaults = @ \cup In("users", {"updated_at"})]

\* ensure_users_columns: each missing column is added.
EnsureUsersColumns(s) ==
    [AddColumns(s, "users", AuthColumns)
       EXCEPT !.defaults = @ \cup (In("users", {"updated_at"}) \ s.columns)]

\* has_index also sees the index behind a unique constraint.
EnsureUniqueIndexes(s, t, columns) ==
    [s EXCEPT !.indexes = @ \cup (In(t, columns) \ (s.uniques \cup s.indexes))]

TokenReferences == {"user_id", "replaced_by_token_id"}
RefreshColumns ==
    TokenReferences \cup {"id", "token_hash", "expires_at", "revoked", "revoked_at",
                         "ip_address", "user_agent", "device_name", "created_at"}
CreateRefreshTokens(s) ==
    [AddColumns(s, "refresh_tokens", RefreshColumns)
       EXCEPT !.tables = @ \cup {"refresh_tokens"},
              !.fkeys = @ \cup In("refresh_tokens", TokenReferences)]

EnsureForeignKeys(s) ==
    [s EXCEPT !.fkeys = @ \cup In("refresh_tokens", TokenReferences)]

Consolidate(s) ==
    LET users == IF "users" \in s.tables THEN EnsureUsersColumns(s)
                 ELSE CreateUsers(s)
        indexed == EnsureUniqueIndexes(users, "users", TokenColumns)
        tokens == IF "refresh_tokens" \in s.tables THEN indexed
                  ELSE CreateRefreshTokens(indexed)
    IN  EnsureUniqueIndexes(EnsureForeignKeys(tokens), "refresh_tokens",
                            {"token_hash"})

\* The users table stays, without its auth columns.
Unconsolidate(s) ==
    DropColumns(DropTable(s, "refresh_tokens"), "users", AuthColumns)

-----------------------------------------------------------------------------
(* 1f8d6f5b3a21: subscriptions, usage_tracking and billing_events.          *)

SubscriptionColumns ==
    {"id", "user_id", "stripe_customer_id", "stripe_subscription_id",
     "stripe_price_id", "plan", "status", "sms_allowance", "web_access_enabled",
     "current_period_start", "current_period_end", "cancel_at_period_end",
     "canceled_at", "renewal_date", "created_at", "updated_at"}
CreateSubscriptions(s) ==
    LET unique == In("subscriptions", {"user_id", "stripe_subscription_id"})
    IN  [AddColumns(s, "subscriptions", SubscriptionColumns)
           EXCEPT !.tables = @ \cup {"subscriptions"},
                  !.uniques = @ \cup unique, !.indexes = @ \cup unique]

\* The pair (user_id, period_start) stands for its second column.
UsageColumns ==
    {"id", "user_id", "subscription_id", "plan", "sms_used", "sms_allowance",
     "period_start", "period_end", "last_reset_at", "created_at", "updated_at"}
CreateUsageTracking(s) ==
    [AddColumns(s, "usage_tracking", UsageColumns)
       EXCEPT !.tables = @ \cup {"usage_tracking"},
              !.uniques = @ \cup In("usage_tracking", {"period_start"})]

BillingEventColumns ==
    {"id", "user_id", "subscription_id", "stripe_event_id", "event_type",
     "status", "source", "amount_cents", "currency", "message", "payload",
     "occurred_at", "processed_at", "created_at"}
CreateBillingEvents(s) ==
    LET unique == In("billing_events", {"stripe_event_id"})
    IN  [AddColumns(s, "billing_events", BillingEventColumns)
           EXCEPT !.tables = @ \cup {"billing_events"},
                  !.uniques = @ \cup unique, !.indexes = @ \cup unique]

Billing(s) ==
    LET Made(t, create, x) == IF t \in s.tables THEN x ELSE create
        a == Made("subscriptions", CreateSubscriptions(s), s)
        b == Made("usage_tracking", CreateUsageTracking(a), a)
    IN  Made("billing_events", CreateBillingEvents(b), b)

Unbilling(s) ==
    DropTable(DropTable(DropTable(s, "billing_events"), "usage_tracking"),
              "subscriptions")

-----------------------------------------------------------------------------
(* 5d6b7c8e9f10: hardening.                                                 *)

HardeningColumns ==
    {"verification_sent_at", "password_reset_requested_at", "locked_until",
     "session_token_version", "pending_email",
     "pending_email_verification_token",
     "pending_email_verification_expires_at", "phone_verification_requested_at"}
PendingColumns == {"pending_email", "pending_email_verification_token"}
GraceColumns == {"grace_period_end", "trial_end", "last_reconciled_at"}

AuthEventColumns ==
    {"id", "user_id", "identifier", "event_type", "outcome", "ip_address",
     "user_agent", "detail", "event_data", "occurred_at", "created_at"}
CreateAuthEvents(s) ==
    [AddColumns(s, "auth_events", AuthEventColumns)
       EXCEPT !.tables = @ \cup {"auth_events"}]

EnsureUserHardening(s) ==
    [AddColumns(s, "users", HardeningColumns)
       EXCEPT !.uniques = @ \cup In("users", PendingColumns)]

\* The unique indexes that repeat a unique constraint.
Duplicates ==
    In("users", LegacyUnique \cup TokenColumns)
        \cup In("subscriptions", {"user_id", "stripe_subscription_id"})
        \cup In("billing_events", {"stripe_event_id"})

\* Variant that breaks UniqueStays: nobody asks for the constraint.
DropDuplicates_Unasked(s) == [s EXCEPT !.indexes = @ \ Duplicates]

\* drop_duplicate_unique_index_if_safe: only where the constraint is there.
DropDuplicates(s) == [s EXCEPT !.indexes = @ \ (Duplicates \cap s.uniques)]

RecreateDuplicates(s) ==
    [s EXCEPT !.indexes = @ \cup {c \in Duplicates : c[1] \in s.tables}]

\* Variant that breaks UpgradesPreserve: the timestamps are made anew.
WithZone_AddsAnew(s) ==
    LET again == In("users", NaiveColumns)
    IN  [s EXCEPT !.naive = @ \ again, !.defaults = @ \ again]

\* alter_user_timestamp_columns, in either direction.
WithZone(s) == [s EXCEPT !.naive = @ \ In("users", NaiveColumns)]
WithoutZone(s) ==
    [s EXCEPT !.naive = @ \cup (In("users", NaiveColumns) \cap s.columns)]

Harden(s) ==
    LET users == IF "users" \in s.tables THEN EnsureUserHardening(s) ELSE s
        tokens == IF "refresh_tokens" \in s.tables
                  THEN AddColumns(users, "refresh_tokens", {"last_used_at"})
                  ELSE users
        subs == IF "subscriptions" \in s.tables
                THEN AddColumns(tokens, "subscriptions", GraceColumns) ELSE tokens
        events == IF "auth_events" \in s.tables THEN subs
                  ELSE CreateAuthEvents(subs)
    IN  DropDuplicates(WithZone(events))

Unharden(s) ==
    LET plain == DropTable(WithoutZone(RecreateDuplicates(s)), "auth_events")
        subs == DropColumns(plain, "subscriptions", GraceColumns)
        tokens == DropColumns(subs, "refresh_tokens", {"last_used_at"})
    IN  DropColumns(tokens, "users", HardeningColumns)

-----------------------------------------------------------------------------
(* 9a7c3e6b2d14, a4c9d7e2f531, b8e2f4a6c713 and c9f3a5d7e824.               *)

RouteColumns ==
    {"id", "user_id", "name", "normalized_name", "origin_text",
     "destination_text", "description", "is_active", "sms_enabled",
     "web_enabled", "sort_order", "last_used_at", "created_at", "updated_at"}
CreateSavedRoutes(s) ==
    IF "saved_routes" \in s.tables THEN s
    ELSE [AddColumns(s, "saved_routes", RouteColumns)
            EXCEPT !.tables = @ \cup {"saved_routes"},
                   !.uniques = @ \cup In("saved_routes", {"normalized_name"})]
DropSavedRoutes(s) == DropTable(s, "saved_routes")

OptOutColumns == {"sms_opted_out_at", "sms_opt_out_type"}
AddOptOut(s) == AddColumns(s, "users", OptOutColumns)
DropOptOut(s) == DropColumns(s, "users", OptOutColumns)

ComplianceColumns == {"sms_resumed_at", "sms_last_help_at"}
AddCompliance(s) == AddColumns(s, "users", ComplianceColumns)
DropCompliance(s) == DropColumns(s, "users", ComplianceColumns)

Timestamps == In("users", {"created_at", "updated_at"})
SetDefaults(s) == [s EXCEPT !.defaults = @ \cup Timestamps]
DropDefaults(s) == [s EXCEPT !.defaults = @ \ Timestamps]

\* upgrade() and downgrade() of revision k.
Upgraded(k, s) ==
    CASE k = 1 -> s
      [] k = 2 -> Consolidate(s)
      [] k = 3 -> Billing(s)
      [] k = 4 -> Harden(s)
      [] k = 5 -> CreateSavedRoutes(s)
      [] k = 6 -> AddOptOut(s)
      [] k = 7 -> AddCompliance(s)
      [] k = 8 -> SetDefaults(s)
Downgraded(k, s) ==
    CASE k = 1 -> s
      [] k = 2 -> Unconsolidate(s)
      [] k = 3 -> Unbilling(s)
      [] k = 4 -> Unharden(s)
      [] k = 5 -> DropSavedRoutes(s)
      [] k = 6 -> DropOptOut(s)
      [] k = 7 -> DropCompliance(s)
      [] k = 8 -> DropDefaults(s)

-----------------------------------------------------------------------------

Empty == [tables |-> {}, columns |-> {}, uniques |-> {}, indexes |-> {},
          fkeys |-> {}, naive |-> {}, defaults |-> {}]
NoRun == [goal |-> 0, at |-> 0, work |-> Empty]

\* A database older than Alembic: a users table with some of the auth columns,
\* unique by constraint or by index, its timestamps with or without a zone, and
\* perhaps a refresh_tokens table without its foreign keys.
Legacy(columns, constrained, naive, tokens) ==
    LET all == BaseColumns \cup columns
        unique == In("users", (LegacyUnique \cup TokenColumns) \cap all)
        users == [Empty EXCEPT !.tables = {"users"}, !.columns = In("users", all),
                    !.uniques = IF constrained THEN unique ELSE {},
                    !.indexes = IF constrained THEN {} ELSE unique,
                    !.naive = IF naive THEN In("users", NaiveColumns) ELSE {},
                    !.defaults = In("users", {"created_at"})]
    IN  IF tokens
        THEN [CreateRefreshTokens(users) EXCEPT !.fkeys = {}] ELSE users

Init ==
    /\ \/ schema = Empty
       \/ \E columns \in SUBSET LegacyColumns, constrained \in BOOLEAN,
             naive \in BOOLEAN, tokens \in BOOLEAN :
            schema = Legacy(columns, constrained, naive, tokens)
    /\ revision = 0
    /\ run = NoRun

\* alembic upgrade head, or alembic downgrade to an older revision.
Begin(goal) ==
    /\ run = NoRun /\ goal # revision
    /\ goal < revision \/ goal = HeadRevision
    /\ run' = [goal |-> goal, at |-> revision, work |-> schema]
    /\ UNCHANGED <<schema, revision>>

Running == run # NoRun

UpgradeOne ==
    /\ Running /\ run.at < run.goal
    /\ run' = [run EXCEPT !.at = @ + 1, !.work = Upgraded(run.at + 1, @)]
    /\ UNCHANGED <<schema, revision>>

DowngradeOne ==
    /\ Running /\ run.at > run.goal
    /\ run' = [run EXCEPT !.at = @ - 1, !.work = Downgraded(run.at, @)]
    /\ UNCHANGED <<schema, revision>>

\* The transaction around run_migrations commits.
Commit ==
    /\ Running /\ run.at = run.goal
    /\ schema' = run.work /\ revision' = run.goal
    /\ run' = NoRun

\* A migration raises or the container dies: nothing is kept.
Abort ==
    /\ Running
    /\ run' = NoRun
    /\ UNCHANGED <<schema, revision>>

Next == \/ \E goal \in 0 .. HeadRevision : Begin(goal)
        \/ UpgradeOne \/ DowngradeOne \/ Commit \/ Abort

Spec == Init /\ [][Next]_vars

-----------------------------------------------------------------------------
(* What the ORM classes map.                                               *)

UserColumns ==
    BaseColumns \cup AuthColumns \cup HardeningColumns \cup OptOutColumns
        \cup ComplianceColumns
AccountTables ==
    {"users", "refresh_tokens", "auth_events", "subscriptions",
     "usage_tracking", "billing_events", "saved_routes"}
RoadTables == {"community_reports", "report_votes", "enforcement_cameras",
               "dui_notices"}
Registered == AccountTables \cup RoadTables
MappedColumns ==
    In("users", UserColumns)
        \cup In("refresh_tokens", RefreshColumns \cup {"last_used_at"})
        \cup In("auth_events", AuthEventColumns)
        \cup In("subscriptions", SubscriptionColumns \cup GraceColumns)
        \cup In("usage_tracking", UsageColumns)
        \cup In("billing_events", BillingEventColumns)
        \cup In("saved_routes", RouteColumns)
MappedUnique ==
    In("users", LegacyUnique \cup TokenColumns \cup PendingColumns)
        \cup In("refresh_tokens", {"token_hash"})
        \cup In("subscriptions", {"user_id", "stripe_subscription_id"})
        \cup In("usage_tracking", {"period_start"})
        \cup In("billing_events", {"stripe_event_id"})
        \cup In("saved_routes", {"normalized_name"})

\* Whatever columns of these the schema has are unique.
KeptUnique(columns, s) == columns \cap s.columns \subseteq s.uniques \cup s.indexes

(* Properties.                                                             *)

TypeOK ==
    /\ revision \in 0 .. HeadRevision
    /\ \A s \in {schema, run.work} :
         /\ s.tables \subseteq Registered
         /\ \A c \in s.columns : c[1] \in s.tables
         /\ s.uniques \cup s.indexes \cup s.fkeys \cup s.naive \cup s.defaults
              \subseteq s.columns
    /\ run.goal \in 0 .. HeadRevision /\ run.at \in 0 .. HeadRevision

\* Whichever of the databases of Init was there (an empty one, or a users table
\* with all of BaseColumns and some of the auth columns) and whatever upgrades,
\* downgrades and failures came before, a database at head has every column of
\* the account tables that the ORM maps, their unique columns are unique, their
\* timestamps have a zone and new users get theirs by default.
HeadServesModels ==
    revision = HeadRevision =>
        /\ AccountTables \subseteq schema.tables
        /\ MappedColumns \subseteq schema.columns
        /\ MappedUnique \subseteq schema.uniques \cup schema.indexes
        /\ schema.naive = {}
        /\ Timestamps \subseteq schema.defaults
        /\ In("refresh_tokens", TokenReferences) \subseteq schema.fkeys

\* From the second revision on, up or down, no column that the ORM declares
\* unique stands without a constraint or an index that keeps it so; those of a
\* users table found at the start never do.  And a users table, once there, is
\* never dropped and keeps BaseColumns.  The other columns it was found with it
\* may lose: the downgrade of c7e0a9f13b42 drops every auth column, also those
\* that an older database brought along.
UniqueStays ==
    /\ revision > 1 => KeptUnique(MappedUnique, schema)
    /\ run.at > 1 => KeptUnique(MappedUnique, run.work)
    /\ \A s \in {schema, run.work} :
         /\ KeptUnique(In("users", LegacyUnique), s)
         /\ "users" \in s.tables => In("users", BaseColumns) \subseteq s.columns
    /\ Running /\ "users" \in schema.tables => "users" \in run.work.tables

\* s is kept in r: no table, column or default is lost, no reference, and no
\* column that was unique ceases to be, though what keeps it so may change.
Preserved(s, r) ==
    /\ s.tables \subseteq r.tables
    /\ s.columns \subseteq r.columns
    /\ s.uniques \cup s.indexes \subseteq r.uniques \cup r.indexes
    /\ s.fkeys \subseteq r.fkeys
    /\ s.defaults \subseteq r.defaults

\* "Repaired Alembic migration behavior so existing TrafficSMS tables are
\* preserved during schema upgrades." (CHANGELOG.md:60): at every revision of an
\* upgrade, from any database that upgrades and downgrades may leave, all that
\* was committed when it began is still there.
UpgradesPreserve ==
    Running /\ run.goal > revision => Preserved(schema, run.work)

\* Init from an empty database, what a new installation has.
EmptySpec == Init /\ schema = Empty /\ [][Next]_vars

\* "Database schema is managed by Alembic migrations." (app/main.py:43): an
\* empty database, migrated to head, has every table that the ORM classes map.
HeadHasEveryTable == revision = HeadRevision => Registered \subseteq schema.tables
=============================================================================
