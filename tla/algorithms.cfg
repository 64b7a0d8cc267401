SPECIFICATION CallsSpec
CONSTANTS
    MaxTransfers = 2
    MaxEvents = 3
    MaxUnits = 2
    MaxInstant = 3
    MaxPromos = 2
INVARIANTS MatchIsFifo  CapsAgree FeesAsProbed
CHECK_DEADLOCK FALSE
