SPECIFICATION FairSpec
CONSTANTS
    Consumers = {item, hook}
    Ids = {1, 2, 3}
    Kinds = {"full", "unlisted"}
    Stocked = 2
    Cooldown = 1
    MaxQty = 1
    Budgets <- AllBudgets
INVARIANT BookedLeftGalpao
PROPERTIES DeltaNotSwallowed LedgerKept BooksSettle
