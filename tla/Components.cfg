SPECIFICATION MCSpec
CONSTANTS
    Requests = {a1, a2, a3}
    OptTypes = {w1, w2}
    None = None
    MaxTime = 5
    Workers = {w1, w2}
    Reports = {1}
    Voters = {a1, a2, a3}
    Life = 4
    Extra = 3
    Confirm = 2
    Clear = 2
    ReportTime = 5
    Ids = {i1, i2}
    Aliases = {gym, work}
    Spellings = {upper, mixed}
    Customers = {a1, a2, a3}
    Tokens = {a1, a2, a3}
    Tabs = {tab1}
    Prompt = TRUE
    MaxReloads = 1
    MaxBusy = 5
    Phones = {p1}
    Highways = {h1}
    Places = {d1, h1}
    Ttl = 2
    MemoryTime = 3
    LegacyColumns = {"password_hash", "verification_token", "email_verified", "updated_at"}
SYMMETRY MCSymmetry
CHECK_DEADLOCK FALSE
INVARIANTS ComponentsTyped StopWins LoneStartClears StoppedStaysStopped StatusIsBacked LifeIsBounded ListedNameWorks PaidIsLinked HeadServesModels UniqueStays UpgradesPreserve NeverReplays
PROPERTIES FollowUpIsRecent
