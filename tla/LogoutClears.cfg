CONSTANTS
    p1 = p1  p2 = p2  c1 = c1  c2 = c2
    Procs = {p1}
    Clients = {c1, c2}
    NoClient = NoClient
    AllowInsecure = TRUE
    MaxTokens = 1
    MaxCommands = 2
    MaxFlaps = 0
SPECIFICATION Spec
CHECK_DEADLOCK FALSE
INVARIANTS
    LogoutClears
