SPECIFICATION Spec
CONSTANTS
    Requests = {r1, r2}
    Names = {email}
    Addresses = {address}
    None = None
    Threshold = 2
    Limit = 2
    Window = 1
    LockLength = 1
    MaxTime = 2
SYMMETRY MCSymmetry
CHECK_DEADLOCK FALSE
INVARIANTS TypeOK LockEnds OwnerGetsIn RateLimitHolds
PROPERTIES LockHolds
