SPECIFICATION Spec
CONSTANTS
    Lbas = {a, b}
    MaxUlid = 6
    Budgets <- PlainBudgets
SYMMETRY CutSymmetry
INVARIANT CutIsPrefix
PROPERTY NeverRegresses
