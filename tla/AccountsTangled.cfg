SPECIFICATION Spec
CONSTANTS
    Requests = {r1, r2}
    Accounts = {u1}
    Addresses = {ann, bob, cat}
    Phones = {p1}
    Passwords = {s1, s2}
    None = None
    Existing = {u1}
    Legacy = {}
    MaxTokens = 3
SYMMETRY MCSymmetry
CHECK_DEADLOCK FALSE
INVARIANTS AlwaysProved
