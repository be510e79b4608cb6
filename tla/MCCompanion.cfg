SPECIFICATION Spec
CONSTANTS
    Threads = {w1, w2}
    Nobody = Nobody
    Devices = {d1, d2}
    NoDevice = NoDevice
    Agents = {a}
    k1 = k1
    Keys = {k1, k2}
    InitialKeys <- MCKeys
    NoKey = NoKey
    InitialDevices = {d1}
    MaxIdentities = 2
    MaxTickets = 1
    MaxRetired = 1
    MaxKeyAudit = 2
    InitialKeyAudit = 1
    MaxActions = 1
    MaxIssued = 2
    MaxStarts = 2
    MaxUnlocks = 1
    Faults = TRUE
SYMMETRY Symmetry
CHECK_DEADLOCK FALSE
INVARIANTS TypeOK RegistryReadable RevocationFence ReceiptIsTrue TicketSpentOnce NoThreadStuck
PROPERTY DecisionIsCurrent
