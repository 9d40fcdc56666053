SPECIFICATION Spec
CONSTANTS
    c1 = c1
    c2 = c2
    f1 = f1
    k1 = k1
    l1 = l1
    r1 = r1
    r2 = r2
    t1 = t1
    Logins = {l1}
    TokenLogins = {t1}
    Refreshes = {f1}
    Resets = {r1, r2}
    Changes = {c1, c2}
    Links = {k1}
    Mixes = {{legacy, l1, r1}, {enrolled, l1, r1}}
    Initial = initial
    legacy = legacy
    Legacy = legacy
    enrolled = enrolled
    Enrolled = enrolled
    None = none
INVARIANT StraddlersRejected
CHECK_DEADLOCK FALSE
