CONSTANTS
    p1 = p1  p2 = p2  c1 = c1  c2 = c2
    Procs = {p1, p2}
    Clients = {c1, c2}
    NoClient = NoClient
    AllowInsecure = TRUE
    MaxTokens = 3
    MaxCommands = 3
    MaxFlaps = 1
SYMMETRY Symmetry
SPECIFICATION Spec
CHECK_DEADLOCK FALSE
INVARIANTS
    LockHolds
    TokenGoesToItsIssuer
    RefreshedOnce
