SPECIFICATION Spec
CONSTANTS
    Requests = {r1, r2}
    Accounts = {u1, u2, u3}
    Addresses = {ann, bob, cat}
    Phones = {p1, p2, p3}
    Passwords = {s1, s2}
    None = None
    Existing = {u1}
    Legacy = {u2}
    MaxTokens = 2
SYMMETRY MCSymmetry
CHECK_DEADLOCK FALSE
INVARIANTS TypeOK OneAccountEach VerifiedIsProved TokensWorkOnce
