SPECIFICATION MCFairSpec
CONSTANTS
    Workers = {w1, w2}
    PaidPlans = {"standard", "unlimited"}
    FreePlan = "free"
    GraceLength = 1
    MaxEvents = 2
    MaxTime = 2
    MaxCrashes = 1
CHECK_DEADLOCK FALSE
INVARIANTS TypeOK NothingForgotten
PROPERTIES LoneSyncFollowsStripe ReconcileRepairs EveryEventRecorded
