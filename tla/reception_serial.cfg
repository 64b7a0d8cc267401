SPECIFICATION FairSpec
CONSTANTS
    Scans = {cron}
    Ids = {1,2}
    MaxQty = 2
    MaxTime = 7
    Grace = 1
    Limit = 2
    MaxFailures = 1
    MaxPhantoms = 1
    MaxDelistings = 1
INVARIANT RowCreditedOnce
PROPERTY SettledOnce
