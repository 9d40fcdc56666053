SPECIFICATION Spec
CONSTANTS
    c1 = c1
    c2 = c2
    d1 = d1
    e1 = e1
    g1 = g1
    g2 = g2
    k1 = k1
    m1 = m1
    m2 = m2
    s1 = s1
    Sids = {s1}
    Marks = {k1}
    Modifies = {m1, m2}
    Extends = {e1}
    Deletes = {d1}
    Takes = {g1, g2}
    Claims = {c1, c2}
    Mixes = {{s1, m1, m2, d1, e1}, {s1, g1, g2, m1, e1}, {s1, e1, c1, c2}}
    NoRow = norow
    TTL = 1
    MaxClock = 3
    Attempts = 2
    PurgeEvery = 2
    BatchSize = 1
INVARIANT GrantedOnce
PROPERTY ImplementsStore
PROPERTY PurgeSparesLive
CHECK_DEADLOCK FALSE
