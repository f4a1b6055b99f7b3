SPECIFICATION EmptySpec
CONSTANTS
    LegacyColumns = {"password_hash"}
CHECK_DEADLOCK FALSE
INVARIANTS HeadHasEveryTable
