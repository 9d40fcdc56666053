SPECIFICATION Spec
CONSTANTS
    a1 = a1
    a2 = a2
    a3 = a3
    i1 = i1
    u1 = u1
    u2 = u2
    Attempts = {a1, a2, a3}
    Ips = {i1}
    Users = {u1, u2}
    MaxAttempts = 3
    MaxRounds = 0
    ClearAll = TRUE
    Mfa = TRUE
    FailOpen = FALSE
    Faults = FALSE
    MaxWindowEnds = 0
SYMMETRY AttemptSymmetry
INVARIANT FailuresStayCounted
CHECK_DEADLOCK FALSE
