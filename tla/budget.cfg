CONSTANTS
    w1 = w1  w2 = w2
    Sources = {1, 2}
    Allocations = {1, 2, 3}
    Borrows = {1, 2}
    Spendings = {1, 2}
    Forecasts = {1}
    MaxAmount = 3
    Deployments <- MCDeployments
SPECIFICATION Spec
CHECK_DEADLOCK FALSE
INVARIANTS BudgetSound
PROPERTIES NarrowFirst DecidedOnce RequestsEnd
