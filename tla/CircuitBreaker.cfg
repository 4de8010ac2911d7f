\* Three callers race for three orders and 57 cents.
CONSTANTS
    c1 = c1
    c2 = c2
    c3 = c3
    Callers <- MCCallers
    MaxOrders = 3
    MaxCents = 57
    Costs = {5, 290}
    ShortCosts = {290}
    Restored <- MCRestored
SPECIFICATION Spec
INVARIANTS
    ExposureBounded
    CountersCoverGrants
    CountersBounded
PROPERTY BudgetKept
