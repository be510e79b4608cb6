CONSTANTS
    r1 = r1  r2 = r2  a1 = a1  c1 = c1  c2 = c2
    Requests = {r1}
    Agents = {a1}
    Human = Human
    OwnerOf <- MCOwnerOf
    Producers = {r1}
    Controllers = {c1, c2}
    QueueCapacity = 1
    Faults = TRUE
SYMMETRY ControllerSymmetry
SPECIFICATION Spec
CHECK_DEADLOCK FALSE
INVARIANTS
    NoOrphanedClaim
    RevocationSeesEveryClaim
PROPERTIES
    SettledStaysQuiet
    ReleaseIsAuthorized
    PostIsAuthorized
    ImplementsOneTimeApproval
