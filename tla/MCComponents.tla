---------------------------- MODULE MCComponents ----------------------------
(***************************************************************************)
(* Small instances of the components that share no state, in one model:    *)
(* "subject" says at the start which of them runs, the others stand still. *)
(* SMS consent is here by EXTENDS, the others by INSTANCE over nine        *)
(* variables that each of them names its own way.                          *)
(***************************************************************************)
EXTENDS SmsConsent, TLC

CONSTANTS
    Workers,                                            \* of several components
    Reports, Voters, Life, Extra, Confirm, Clear, ReportTime,     \* of the reports
    Ids, Aliases, Spellings,                                      \* of the routes
    Phones, Highways, Places, Ttl, MemoryTime,                    \* of the memory
    LegacyColumns,                                                \* of the schema
    Customers,                                                    \* of the customer
    Tabs, Tokens, Prompt, MaxReloads, MaxBusy                     \* of the client

VARIABLES
    subject,                            \* the component that runs
    x1, x2, x3, x4, x5, x6, x7, x8, x9  \* its variables, 0 where it has fewer

CR == INSTANCE CommunityReports
        WITH now <- x1, reports <- x2, votes <- x3, msg <- x4,
             MaxTime <- ReportTime
SR == INSTANCE SavedRoutes
        WITH routes <- x1, used <- x2, req <- x3, tangled <- x4
CM == INSTANCE ConversationMemory
        WITH now <- x1, memory <- x2, reply <- x3, named <- x4,
             followed <- x5, MaxTime <- MemoryTime
SM == INSTANCE SchemaMigrations
        WITH schema <- x1, revision <- x2, run <- x3
CP == INSTANCE CustomerProvisioning
        WITH user <- x1, sub <- x2, created <- x3, sessions <- x4, req <- x5,
             excused <- x6
CS == INSTANCE ClientSession
        WITH server <- x1, aged <- x2, stored <- x3, mounted <- x4,
             session <- x5, armed <- x6, calls <- x7, reloads <- x8,
             replayed <- x9

ASSUME ComponentAssumption ==
    /\ CR!ReportAssumption /\ SR!RouteAssumption /\ CP!CustomerAssumption
    /\ CM!MemoryAssumption /\ CS!ClientAssumption /\ SM!SchemaAssumption

Unused1to3 == x1 = 0 /\ x2 = 0 /\ x3 = 0
Unused4 == x4 = 0
Unused5 == x5 = 0
Unused6 == x6 = 0
Unused7to9 == x7 = 0 /\ x8 = 0 /\ x9 = 0
Fours == {"reports", "routes"}              \* the components of four variables

MCInit ==
    /\ Init
    /\ subject \in Fours \cup {"consent", "schema", "memory", "customer", "client"}
    /\ \/ subject = "consent" /\ Unused1to3 /\ Unused4 /\ Unused5 /\ Unused6 /\ Unused7to9
       \/ subject = "schema" /\ SM!Init /\ Unused4 /\ Unused5 /\ Unused6 /\ Unused7to9
       \/ subject = "reports" /\ CR!Init /\ Unused5 /\ Unused6 /\ Unused7to9
       \/ subject = "routes" /\ SR!Init /\ Unused5 /\ Unused6 /\ Unused7to9
       \/ subject = "memory" /\ CM!Init /\ Unused6 /\ Unused7to9
       \/ subject = "customer" /\ CP!Init /\ Unused7to9
       \/ subject = "client" /\ CS!Init

MCNext ==
    /\ UNCHANGED subject
    /\ \/ /\ subject = "consent" /\ Next
          /\ UNCHANGED <<x1, x2, x3, x4, x5, x6, x7, x8, x9>>
       \/ /\ subject # "consent" /\ UNCHANGED vars
          /\ \/ /\ subject = "schema" /\ SM!Next
                /\ UNCHANGED <<x4, x5, x6, x7, x8, x9>>
             \/ /\ \/ subject = "reports" /\ CR!Next
                   \/ subject = "routes" /\ SR!Next
                /\ UNCHANGED <<x5, x6, x7, x8, x9>>
             \/ subject = "memory" /\ CM!Next /\ UNCHANGED <<x6, x7, x8, x9>>
             \/ subject = "customer" /\ CP!Next /\ UNCHANGED <<x7, x8, x9>>
             \/ subject = "client" /\ CS!Next

MCVars == <<vars, subject, x1, x2, x3, x4, x5, x6, x7, x8, x9>>
MCSpec == MCInit /\ [][MCNext]_MCVars

\* The sets of three share their values, and so do Workers and OptTypes: one
\* group of permutations serves all components.
MCSymmetry == Permutations(Requests) \cup Permutations(Workers)

-----------------------------------------------------------------------------
(* The components' properties, each of the component that runs.            *)

\* Every component's state is of its type.
ComponentsTyped ==
    /\ TypeOK
    /\ subject = "reports" => CR!TypeOK
    /\ subject = "routes" => SR!TypeOK
    /\ subject = "customer" => CP!TypeOK
    /\ subject = "memory" => CM!TypeOK
    /\ subject = "schema" => SM!TypeOK
    /\ subject = "client" => CS!TypeOK

\* A report's counters and status are backed by the votes of as many phones
\* (CommunityReports).
StatusIsBacked == subject = "reports" => CR!StatusIsBacked

\* A report lives its first term, and no longer than a confirmation made now
\* could keep it (CommunityReports).
LifeIsBounded == subject = "reports" => CR!LifeIsBounded

\* A route's listed name finds that route (SavedRoutes).
ListedNameWorks == subject = "routes" => SR!ListedNameWorks

\* The customer of a paid checkout is the one both rows name
\* (CustomerProvisioning).
PaidIsLinked == subject = "customer" => CP!PaidIsLinked

\* A follow-up is about something this phone named, and named or asked about
\* within the lifetime of a conversation (ConversationMemory).
FollowUpIsRecent ==
    [][subject = "memory" => CM!RecentReply]_<<subject, x1, x2, x3, x4, x5>>

\* A database at head has what the account tables' classes map
\* (SchemaMigrations).
HeadServesModels == subject = "schema" => SM!HeadServesModels

\* Unique columns stay unique and a users table stays with its BaseColumns, at
\* every revision (SchemaMigrations).
UniqueStays == subject = "schema" => SM!UniqueStays

\* No upgrade loses what the database had when it began (SchemaMigrations).
UpgradesPreserve == subject = "schema" => SM!UpgradesPreserve

\* With a prompt API no tab sends a token twice (ClientSession).
NeverReplays == subject = "client" => CS!NeverReplays
=============================================================================
