CONSTANTS
    Threads = {t1, t2, t3}
    MaxGen = 3
SPECIFICATION FairSpec
INVARIANTS
    OkMeansSynced
    AtMostTwoWaits
PROPERTIES
    ImplementsService
    EveryCallReturns
