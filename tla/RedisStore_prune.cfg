SPECIFICATION Spec
CONSTANTS
    d1 = d1
    m1 = m1
    m2 = m2
    o1 = o1
    s1 = s1
    s2 = s2
    Sids = {s1, s2}
    Modifies = {m1, m2}
    Deletes = {d1}
    Scans = {o1}
    Mixes = {{s1, s2, o1}}
    MaxSessions = 2
    Absent = absent
INVARIANT LogoutAllComplete
CHECK_DEADLOCK FALSE
