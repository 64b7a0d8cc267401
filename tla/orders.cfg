SPECIFICATION Spec
CONSTANTS
    Orders = {1}
    MaxVersion = 2
    Start = 5
    LastChange = 5
    MaxNow = 7
    MaxSent = 1
    MaxFailures = 1
INVARIANTS ClaimBacked PublishedOnce WholeOrder LandsIfNoCrash
