CONSTANTS
    l1 = l1  l2 = l2
    Launches = {l1, l2}
    Ssh = {l1}
    Forking = {l2}
    MaxFaults = 1
SPECIFICATION Spec
CHECK_DEADLOCK FALSE
INVARIANTS
    TypeOK
    LeaseCoversConsumer
    ReapedMeansGone
    ReportIsTrue
    MaterialServesAgent
PROPERTIES
    SignatureIsAuthorized
