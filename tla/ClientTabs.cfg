SPECIFICATION FairSpec
CONSTANTS
    Tabs = {tab1, tab2}
    Tokens = {k1, k2}
    None = None
    Prompt = TRUE
    MaxReloads = 1
    MaxBusy = 1
CHECK_DEADLOCK FALSE
PROPERTIES DeadSessionIsDropped
