CONSTANTS
    near = near
    far = far
    june = june
    july = july
    north = north
    south = south
    Blank = Blank
    NoValue = NoValue
    MaxArea = 85
    Band = 2
    MinSample = 1
    ShareThreshold = 30
    OutlierRatio <- MCOutlierRatio
    Regions <- MCRegions
    Window <- MCWindow
    Markets <- MCMarkets
    PageSize = 2
    MaxPages = 2
    MaxAttempts = 2
    Deadline = 0
    MaxFaults = 1
SPECIFICATION CollectionSpec
INVARIANTS
    NothingIsLost
    ValuesAreOfTheMarket
CHECK_DEADLOCK FALSE
