SPECIFICATION Spec
CONSTANTS
    N = 3
    Works <- MCWorks
    BatchSize = 3
    MaxRepairs = 1
    MaxVersion = 3
    MaxRetries = 1
    MaxTroubles = 1
INVARIANTS
    LandSafe
    OutcomeTrueElsewhere
PROPERTIES
    LandsAsPromised
    TrainEnds
CHECK_DEADLOCK FALSE
