SPECIFICATION MCSpec
CONSTANTS
    Keys = {p}
    Callers = {c1, c2}
    Notes = {n1}
    Caps = {0, 1, 2}
    Budgets <- Plenty
    Requests = {r1, r2}
    DirectBudgets <- DirectPlenty
INVARIANTS SentAsAsked SaidIsSo
  
