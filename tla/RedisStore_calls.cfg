SPECIFICATION FairSpec
CONSTANTS
    d1 = d1
    m1 = m1
    m2 = m2
    o1 = o1
    s1 = s1
    s2 = s2
    Sids = {s1, s2}
    Modifies = {m1, m2}
    Deletes = {d1}
    Scans = {o1}
    Mixes = {{s1, m1, m2, d1, o1}, {s1, s2, m1, o1}, {s1, s2, d1, o1}}
    MaxSessions = 1
    Absent = absent
INVARIANT NoLostChange
INVARIANT IndexCoversLive
INVARIANT LogoutEndsUnpruned
PROPERTY ImplementsStore
PROPERTY EveryCallReturns
CHECK_DEADLOCK FALSE
