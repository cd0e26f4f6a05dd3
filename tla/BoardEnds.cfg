SPECIFICATION LiveSpec
CONSTANTS
    Members = {a, b}
    NoOne = NoOne
    N = 2
    BlockedBy <- MCChain
    Gated = TRUE
    MinLevel <- MCMinL3
    MaxTaskAttempts = 1
    GateLevel <- MCGateL3
    AllowPartial = FALSE
    Budgeted = TRUE
    MaxExtra = 1
    MaxFaults = 0
    MaxCrashes = 0
    a = a
    b = b

PROPERTIES
    RunEnds
    AcceptedIsCompleted
