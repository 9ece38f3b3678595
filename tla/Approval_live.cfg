CONSTANTS
    p1 = p1
    p2 = p2
    d1 = d1
    d2 = d2
    d3 = d3
    w1 = w1
    w2 = w2
    NoVersion = NoVersion
    Policies = {p1, p2}
    Seeded = {p1, p2}
    Drafts = {d1, d2, d3}
    Target <- MCTarget
    Workers = {w1, w2}
    Queue = {d1, d2, d3}
    MaxBatch = 2
    MaxTime = 2
    MaxRequests = 2
    MaxFaults = 1
    MaxCrashes = 0
SPECIFICATION FairSpec
PROPERTIES
    ImplementsTimeline
    ClaimsEnd
