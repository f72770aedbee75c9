CONSTANTS
    r = r
    p = p
    c = c
    d = d
    e = e
    x = x
    None = None
    Deployment = Deployment
    Agents = {r, p, c, d, e}
    Ids = {1, 2, 3}
    Scopes = {x}
    Times = {0, 1}
    Offered <- CharterOnly
    Charts <- TreeOnly
    Later <- TreeOnly
    Requests <- PairRequests
    MaxPermits = 1
SPECIFICATION CrossSpec
INVARIANTS
    SiblingPairsArePreauthorized
CHECK_DEADLOCK FALSE
