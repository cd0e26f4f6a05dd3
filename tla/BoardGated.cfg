SPECIFICATION Spec
CONSTANTS
    Members = {a, b}
    NoOne = NoOne
    N = 2
    BlockedBy <- MCChain
    Gated = TRUE
    MinLevel <- MCMinL3
    MaxTaskAttempts = 2
    GateLevel <- MCGateL3
    AllowPartial = TRUE
    Budgeted = TRUE
    MaxExtra = 1
    MaxFaults = 2
    MaxCrashes = 1
    a = a
    b = b
SYMMETRY Symmetry
INVARIANTS
    BoardSafe
    EvidenceHolds
    AttemptsBounded
