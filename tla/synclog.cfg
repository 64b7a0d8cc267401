SPECIFICATION FairSpec
CONSTANTS
    Services = {"products", "orders", "history", "stock"}
    Logs = {a}
    MaxItems = 3
    MaxCrashes = 1
    MaxFaults = 1
INVARIANTS Accounted CompletedUnlessRedelivered
PROPERTY EndsOnce
CHECK_DEADLOCK FALSE
