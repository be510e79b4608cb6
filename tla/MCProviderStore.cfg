CONSTANTS
    d1 = d1
    img = img
    Requests = {p1, p2}
    Agents = {a1}
    Human = Human
    Nonces = {n1, n2}
    NoNonce = NoNonce
    Revisions = {v1}
    NoRevision = NoRevision
    Destinations = {d1}
    NoDestination = NoDestination
    Items = {i1, i2}
    NoItem = NoItem
    Images = {img}
    MaxEpoch = 2
    CreateOf <- MCCreateOf
    LabelOf <- MCLabelOf
    OpOf <- MCOpOf
    ImageOf <- MCImageOf
SYMMETRY Symmetry
SPECIFICATION Spec
CHECK_DEADLOCK FALSE
INVARIANTS
    TypeOK
    RevokedAgentHoldsNothing
    EndingIsNeverRefused
    OneAttemptPerDestination
    AcceptedNonceStaysSpent
PROPERTIES
    TerminalIsFinal
    ImplementsOneTimeApproval
