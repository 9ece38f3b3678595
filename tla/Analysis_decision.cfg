\* One form at a time, edited once, against a store that changes once.
CONSTANTS
    K <- Constants
    Profiles <- Forms
    Edits <- FieldEdits
    Regions <- AllRegions
    Rules <- AllRules
    SeedRegions <- StoredRegions
    SeedVersions <- Versions
    Amended <- Tightened
    Collected <- Recollected
    Staff = TRUE
    MaxEdits = 1
    MaxChanges = 1
    MaxAsks = 2
    MaxTime = 1
    Incomes = {30000, 76000}
    NetIncomes = {0, 4600}
SPECIFICATION Spec
INVARIANTS
    OfflineAgrees
    EnginesAgree
    PlanLeavesTheBuffer
    VerdictsAreReproducible
PROPERTY
    MoreIncomeNeverQualifies
CHECK_DEADLOCK FALSE
