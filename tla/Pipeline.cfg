CONSTANTS
  Asks <- MCAsks
  MaxEpochs = 2
  Capacity = 1
  MaxPlans = 2
SPECIFICATION FairSpec
INVARIANTS
  WalsAccounted
  NobodyForgotten
  OnePlan
  CheckpointCovers
  ExitDrained
PROPERTIES
  PlanBehindPromotes
  EveryCallAnswered
  HandoffAnswered
  StashRetried
  ShutdownEnds
CHECK_DEADLOCK FALSE
