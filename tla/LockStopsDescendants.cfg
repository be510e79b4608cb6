CONSTANTS
    r1 = r1  r2 = r2  a1 = a1  c1 = c1  c2 = c2
    Requests = {r1}
    Agents = {a1}
    Human = Human
    OwnerOf <- MCOwnerOf
    Producers = {}
    Controllers = {c1}
    QueueCapacity = 1
    Faults = FALSE
SPECIFICATION Spec
CHECK_DEADLOCK FALSE
INVARIANTS
    LockStopsDescendants
