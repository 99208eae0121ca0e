SPECIFICATION Spec
CONSTANTS
    Lbas = {a, b}
    MaxUlid = 8
    Budgets <- GcBudgets
SYMMETRY CutSymmetry
INVARIANT LiveObjectsExist
INVARIANT RebuildIsExact
INVARIANT SettledIsExact
