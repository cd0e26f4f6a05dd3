SPECIFICATION Spec
CONSTANTS
    Lead = lead
    Takers = {t1, t2}
    Followers = {f}
    MaxSeq = 3
    MaxFails = 1
    MaxTears = 1
INVARIANTS
    
    GivenIsTheFile
PROPERTIES
    AllGiven
CHECK_DEADLOCK FALSE
