SPECIFICATION Spec
CONSTANTS
    Members = {a, b}
    NoOne = NoOne
    N = 3
    BlockedBy <- MCBlockedBy
    Gated = FALSE
    MinLevel <- MCNoMin
    MaxTaskAttempts = 1
    GateLevel <- MCGateL2
    AllowPartial = FALSE
    Budgeted = TRUE
    MaxExtra = 1
    MaxFaults = 0
    MaxCrashes = 1
    a = a
    b = b
SYMMETRY Symmetry
INVARIANTS
    TypeOK
    HoldersOwnTheirClaims
    NoStuckClaim
    BlockersFirst
    AbandonedNotCompleted
PROPERTIES
    DurablyCompleted
    AbandonedNotRerun
