SPECIFICATION QueueSpec
CONSTANTS
    Keys = {p}
    Callers = {c1, c2}
    Notes = {n1}
    Caps = {0, 1, 2}
    Budgets <- OneAsk
    Requests = {}
    DirectBudgets <- NoAsk
INVARIANT BulkDecides
