SPECIFICATION MCSpec
CONSTANTS
    Workers = {w1, w2}
    PaidPlans = {"standard", "unlimited"}
    FreePlan = "free"
    GraceLength = 1
    MaxEvents = 3
    MaxTime = 0
    MaxCrashes = 0
SYMMETRY MCSymmetry
CHECK_DEADLOCK FALSE
INVARIANTS NoDriftWhenQuiet
