CONSTANTS
    p1 = p1
    p2 = p2
    r1 = r1
    r2 = r2
    NoRegion = NoRegion
    Procs = {p1, p2}
    Codes = {r1, r2}
    Programs = {"batch", "server"}
    Results <- FewResults
    MaxStarts = 2
    MaxCollections = 2
    MaxOthers = 1
    MaxDeaths = 1
SPECIFICATION Spec
SYMMETRY Interchangeable
INVARIANTS
    AllOrNothing
    LineageTravels
    RunsCloseTruly
PROPERTY
    FailureOnlyDowngrades
