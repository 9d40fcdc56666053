SPECIFICATION FairSpec
CONSTANTS
    c1 = c1
    c2 = c2
    f1 = f1
    k1 = k1
    l1 = l1
    r1 = r1
    r2 = r2
    t1 = t1
    Logins = {l1}
    TokenLogins = {t1}
    Refreshes = {f1}
    Resets = {r1, r2}
    Changes = {c1, c2}
    Links = {k1}
    Mixes = {{l1, t1, f1, r1, c1}, {l1, c1, c2}, {legacy, enrolled, l1, r1, r2},
             {legacy, enrolled, l1, r1, c1}, {legacy, t1, f1, r1, c1}}
    Initial = initial
    legacy = legacy
    Legacy = legacy
    enrolled = enrolled
    Enrolled = enrolled
    None = none
INVARIANT EvictionComplete
INVARIANT UncrossedChangeKeepsCaller
INVARIANT LinkAppliedOnce
PROPERTY ChallengeDiesWithPassword
PROPERTY EventuallyEvicted
CHECK_DEADLOCK FALSE
