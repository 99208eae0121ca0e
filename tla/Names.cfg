SPECIFICATION Spec
CONSTANTS
    Coords = {ca, cb}
    Nobody = nobody
    VolNames = {na, nb}
    Spare = nb
    Snaps = {1}
    MaxVol = 3
    MaxFlight = 2
SYMMETRY CoordSymmetry
ACTION_CONSTRAINT Scenario
INVARIANTS
    ClearsItsOwn
PROPERTY ImplementsOwnership
CHECK_DEADLOCK FALSE
