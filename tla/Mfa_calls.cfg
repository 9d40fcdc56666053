SPECIFICATION Spec
CONSTANTS
    a1 = a1
    a2 = a2
    a3 = a3
    c1 = c1
    c2 = c2
    d1 = d1
    g1 = g1
    l1 = l1
    s1 = s1
    Setups = {s1}
    Confirms = {c1, c2}
    Disables = {d1}
    Regenerates = {g1}
    Logins = {l1}
    Answers = {a1, a2, a3}
    Mixes = {{l1, a1, a2, a3}, {s1, c1, c2, d1, g1}}
    Initial = initial
    None = none
    Steps = 2
    CodeCount = 1
    CodesBefore = 2
    MaxAttempts = 2
    MaxVersion = 1
INVARIANT ChallengeBounded
INVARIANT CodesUsedOnce
INVARIANT OldPendingNotEnabled
INVARIANT OneSetOfCodes
PROPERTY RecoveryCodeCurrent
SYMMETRY MCSymmetry
CHECK_DEADLOCK FALSE
