CONSTANTS
    counselor = counselor
    manager = manager
    w1 = w1
    w2 = w2
    s1 = s1
    s2 = s2
    NoSession = NoSession
    NoUser = NoUser
    Workers = {w1, w2}
    Users = {counselor, manager}
    Role <- MCRole
    Ids = {s1, s2}
    Endpoints = {"session.end", "draft.decide", "analysis.internal"}
    IdleTimeout = 2
    AbsoluteTimeout = 3
    MaxTime = 3
    MaxRequests = 4
    MaxFaults = 1
    MaxCrashes = 1
SPECIFICATION Spec
SYMMETRY Interchangeable
INVARIANTS
    SessionsAreAccountedFor
    WorkIsEntitled
PROPERTY
    ImplementsLease
