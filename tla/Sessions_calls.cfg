SPECIFICATION Spec
CONSTANTS
    l1 = l1
    l2 = l2
    l3 = l3
    q1 = q1
    q2 = q2
    r1 = r1
    o1 = o1
    w1 = w1
    Logins = {l1, l2, l3}
    Rotations = {q1, q2}
    Requests = {r1}
    Logouts = {o1}
    Sweeps = {w1}
    None = none
    Mixes = {{l1, q1, q2}, {l1, q1, o1}, {l1, l2, l3}, {l1, l2, r1}, {l1, q1, r1}, {l1, q1, w1}}
    MaxSessions = 1
    Idle = 2
    Absolute = 2
    MaxClock = 3
INVARIANT OneTokenPerSession
INVARIANT KeptAliveTogether
INVARIANT LimitHolds
INVARIANT OwnTokenAtRoute
INVARIANT EndedStaysEnded
CHECK_DEADLOCK FALSE
