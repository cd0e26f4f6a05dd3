SPECIFICATION Spec
CONSTANTS
    Tasks = {"t1", "t2"}
    Budgets <- MCBudgets
    SlotCount = 1
    MaxCost = 1
    MaxRuns = 2
    MaxOpen = 1
    Attended = TRUE
    MaxFaults = 1
INVARIANTS
    BudgetSafe
PROPERTIES
    NoRunPastStop
    StartsDecided
CHECK_DEADLOCK FALSE
