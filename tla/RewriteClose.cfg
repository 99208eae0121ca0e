SPECIFICATION Spec
CONSTANTS
  a = a
  b = b
  Blocks = {1, 2, 3}
  Extents <- MCExtents
  Budgets <- MCBudgets
  SettledClose = FALSE
INVARIANT RebuildLatest
CHECK_DEADLOCK FALSE
