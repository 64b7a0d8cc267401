SPECIFICATION ConcurrentSpec
CONSTANTS
    Tasks = {t1, t2}
    MaxGen = 2
    MaxCrashes = 1
    MaxLockExpiries = 0
    Callers = {}
    Limit = 1
    Headroom = 0
    MaxRetries = 0
    MaxRequests = 0
    MaxMishaps = 0
INVARIANTS MutualExclusion StashNotOlder
PROPERTY CallsEnd
