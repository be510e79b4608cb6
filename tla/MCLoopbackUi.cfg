CONSTANTS
    Workers = {w1, w2}
    Nobody = Nobody
    Requests = {r1, r2}
    NoRequest = NoRequest
    MaxLaunches = 1
    MaxSessions = 1
    MaxGen = 4
    MaxDrawn = 3
    MaxLeft = 1
    Faults = TRUE
SYMMETRY Symmetry
SPECIFICATION Spec
CHECK_DEADLOCK FALSE
INVARIANTS
    NoStrayCapability
    ReturnedMeansLocked
    NothingStuck
PROPERTIES
    DecisionIsFromItsLaunch
