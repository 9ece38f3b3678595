CONSTANTS
    p1 = p1
    p2 = p2
    NoVersion = NoVersion
    Policies = {p1, p2}
    Seeded = {p1, p2}
    MaxDrafts = 3
    Drafts <- MCDrafts
    Target <- MCTarget
    SeedOrder <- MCSeedOrder
    FrozenSources = {p1, p2}
    DemoQueue <- MCDemoQueue
    Targets <- MCTargets
    NeededSpans = 2
    b1 = b1
    b2 = b2
    Batches = {b1}
    Limit <- MCLimit
    MaxAttempts = 2
    MaxDecisions = 1
    MaxMishaps = 2
SPECIFICATION Spec
INVARIANTS
    DecisionsSurviveIngestion
    ServesACompleteCatalogue
PROPERTIES
    BatchesEnd
