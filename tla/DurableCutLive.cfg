SPECIFICATION FairSpec
CONSTANTS
    Lbas = {a, b}
    MaxUlid = 6
    Budgets <- LiveBudgets
INVARIANT SettledIsExact
PROPERTY EventuallyRecoverable
