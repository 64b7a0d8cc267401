SPECIFICATION FairSpec
CONSTANTS
    Items = {1, 2}
    N = 2
    Recent = 3
    MaxVersion = 2
    MaxEvents = 2
    MaxFaults = 1
    Claims = {1, 2, 3}
    PageSize = 1
    MaxPages = 3
    MaxClock = 4
    MaxTrouble = 1
    Windows = {1, 2}
    Issued = {11}
    Lookback = 2
    MaxFailures = 1
    Listings = {1}
    Operators = {o1, o2}
    MaxRows = 2
    Attempts = 3
    MaxMoves = 3
    MaxLosses = 2
INVARIANTS NoGap 
PROPERTIES RowsKept AllSettles
CHECK_DEADLOCK FALSE
