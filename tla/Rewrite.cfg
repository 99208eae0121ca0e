SPECIFICATION Spec
CONSTANTS
  a = a
  b = b
  Blocks = {1, 2, 3}
  Extents <- MCExtents
  Budgets <- MCBudgets
  SettledClose = TRUE
INVARIANTS
  MapSound
  ClaimsWithin
  ReadLatest
  RebuildLatest
  ClaimsAgree
  NeverSuperseded
  DropsAreDead
CHECK_DEADLOCK FALSE
