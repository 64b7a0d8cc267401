SPECIFICATION MCSpec
CONSTANTS
    Listings = {1}
    Prices = {1, 2}
    Requests = {1}
    DeadlineAfter = 2
    Cleans = 2
    Tries = 3
    MaxFaults = 1
    Orders = {1, 2}
    Old = {2}
    Budgets <- Plenty
INVARIANTS DeadlineDecides KnownOut AnnouncedShown
PROPERTIES JobsEnd DerivedSettles
