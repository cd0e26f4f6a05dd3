SPECIFICATION LiveSpec
CONSTANTS
    Hosts = {a, b}
    NoHost = NoHost
    Tasks = {t}
    Shared = FALSE
    Tries = 2
    MaxCommits = 3
    MaxLost = 1
    MaxCancels = 1
    MaxCrashes = 0
    a = a
    b = b
    t = t
CHECK_DEADLOCK FALSE
PROPERTIES
    LandingDecided
