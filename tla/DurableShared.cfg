SPECIFICATION Spec
CONSTANTS
    Hosts = {a, b}
    NoHost = NoHost
    Tasks = {t}
    Shared = TRUE
    Tries = 1
    MaxCommits = 4
    MaxLost = 1
    MaxCancels = 1
    MaxCrashes = 1
    a = a
    b = b
    t = t
SYMMETRY Symmetry
INVARIANTS
    MirrorSafe
    SharedLandsOnce
    FencedByAnother
PROPERTIES
    RemoteKeeps
    KeepsCustody
CHECK_DEADLOCK FALSE
