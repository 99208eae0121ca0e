SPECIFICATION Spec
CONSTANTS
    Coords = {c1, c2}
    Nobody = Nobody
    Creator = c1
    MaxFork = 3
    MaxWrite = 1
    MaxSnap = 1
    MaxVerb = 2
    MaxFault = 1
    MaxTotal = 4
    LastVerbs = {"claim", "force"}
    MaxEvent = 2
ACTION_CONSTRAINT Scenario
INVARIANTS ServedIsComplete ClaimedIsDurable ClaimSetIsFound
CHECK_DEADLOCK FALSE
