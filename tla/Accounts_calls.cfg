SPECIFICATION Spec
CONSTANTS
    x1 = x1
    r1 = r1
    r2 = r2
    q1 = q1
    g1 = g1
    g2 = g2
    k1 = k1
    k2 = k2
    k3 = k3
    c1 = c1
    c2 = c2
    l1 = l1
    w1 = w1
    d1 = d1
    b1 = b1
    b2 = b2
    f1 = f1
    f2 = f2
    e1 = e1
    e2 = e2
    p1 = p1
    p2 = p2
    a1 = a1
    a2 = a2
    Seeds = {x1}
    Registrations = {r1, r2}
    Requests = {q1}
    Changes = {g1, g2}
    Confirms = {k1, k2, k3}
    Callbacks = {c1, c2}
    Logins = {l1}
    SetPasswords = {w1}
    Disables = {d1}
    Mixes = {{x1, c1, l1, g1, k1}, {x1, c1, c2, l1}, {r1, r2, q1, k1}, {x1, r1, r2, g1, k1}, {x1, r1, c1}, {r1, c1}, {x1, q1, g1, g2, k1, k2, k3}, {c1, w1, g1, k1}, {x1, c1, d1, q1, k1}}
    Browsers = {b1, b2}
    Flows = {f1, f2}
    Providers = {p1, p2}
    Listing = {p1}
    Payloads <- MCPayloads
    Emails = {e1, e2}
    First = e1
    Suffixes = 1
    None = none
    Unusable = unusable
    Mail = TRUE
INVARIANT VerifiedMeansProved
INVARIANT ClaimEndsOldCredentials
INVARIANT OldChangeLinkRefused
INVARIANT ChangeAppliedOnce
INVARIANT OneLoginPerFlow
INVARIANT LostRaceHasCause
CHECK_DEADLOCK FALSE
