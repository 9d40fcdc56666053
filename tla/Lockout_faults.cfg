SPECIFICATION Spec
CONSTANTS
    a1 = a1
    a2 = a2
    i1 = i1
    i2 = i2
    u1 = u1
    u2 = u2
    Attempts = {a1, a2}
    Ips = {i1, i2}
    Users = {u1, u2}
    MaxAttempts = 1
    MaxRounds = 0
    ClearAll = TRUE
    Mfa = TRUE
    FailOpen = FALSE
    Faults = TRUE
    MaxWindowEnds = 1
SYMMETRY AttemptSymmetry
INVARIANT TypeOK
INVARIANT UserBudget
 
CHECK_DEADLOCK FALSE
