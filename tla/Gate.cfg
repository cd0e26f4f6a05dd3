SPECIFICATION Spec
CONSTANTS
    Trees = {t1, t2, t3}
    Checks = {build, test}
    MaxRounds = 4
    Gates <- MCGates
INVARIANTS
    GateSafe
    EvidenceInPlace
    NoRegression
CHECK_DEADLOCK FALSE
