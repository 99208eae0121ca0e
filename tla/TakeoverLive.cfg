SPECIFICATION FairSpec
CONSTANTS
    Coords = {c1, c2}
    Nobody = Nobody
    Creator = c1
    MaxFork = 2
    MaxWrite = 2
    MaxSnap = 1
    MaxVerb = 3
    MaxFault = 1
    MaxTotal = 4
    LastVerbs = {"stop", "start", "claim", "force"}
    MaxEvent = 2
ACTION_CONSTRAINT Scenario
PROPERTY DisplacedIsRehomed CutNeverShrinks
CHECK_DEADLOCK FALSE
