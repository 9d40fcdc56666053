SPECIFICATION Spec
CONSTANTS
    c1 = c1
    s1 = s1
    s2 = s2
    Setups = {s1, s2}
    Confirms = {c1}
    Disables = {}
    Regenerates = {}
    Logins = {}
    Answers = {}
    Mixes = {{s1, s2, c1}}
    Initial = initial
    None = none
    Steps = 1
    CodeCount = 1
    CodesBefore = 1
    MaxAttempts = 1
    MaxVersion = 0
INVARIANT EnabledSecretUsable
CHECK_DEADLOCK FALSE
