SPECIFICATION SerialSpec
CONSTANTS
    Tasks = {t1}
    MaxGen = 4
    MaxCrashes = 2
    MaxLockExpiries = 1
    Callers = {c1, c2}
    Limit = 4
    Headroom = 3
    MaxRetries = 1
    MaxRequests = 4
    MaxMishaps = 1
INVARIANTS TypeOK Recoverable 
PROPERTIES MLRefines RequestsEnd
CHECK_DEADLOCK FALSE
