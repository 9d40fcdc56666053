SPECIFICATION LimitsSpec
CONSTANTS
    r1 = r1
    r2 = r2
    c1 = c1
    c2 = c2
    c3 = c3
    e1 = e1
    e2 = e2
    e3 = e3
    s1 = s1
    s2 = s2
    n1 = n1
    n2 = n2
    h1 = h1
    h2 = h2
    u1 = u1
    Requests = {r1, r2}
    LockCalls = {c1, c2, c3}
    Backends = {"memory", "redis", "database"}
    Clients = {n1, n2}
    Hosts = {h1, h2}
    Users = {u1}
    Anonymous = anonymous
    Elsewhere = elsewhere
    Mixes <- MCMixes
    Hops = 2
    Middleware = TRUE
    IpTimes = 2
    UserTimes = 1
    Period = 2
    SweepEvery = 2
    MaxClock = 3
    Elevations = {e1, e2, e3}
    Sessions = {s1, s2}
    MaxAttempts = 2
    MaxLapses = 1
INVARIANT WindowBudget
INVARIANT RefusedForCause
INVARIANT HeadersBoundTheRest
INVARIANT OvershootWasInFlight
INVARIANT LockedStaysPlain
PROPERTY DeadlinesHold
PROPERTY ElevationDiesWithSession
SYMMETRY MCSymmetry
CHECK_DEADLOCK FALSE
