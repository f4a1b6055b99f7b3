SPECIFICATION Spec
CONSTANTS
    Requests = {r1, r2, r3}
    OptTypes = {keyword, carrier}
    None = None
    MaxTime = 5
SYMMETRY MCSymmetry
CHECK_DEADLOCK FALSE
INVARIANTS StartClears
