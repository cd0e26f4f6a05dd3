SPECIFICATION Spec
CONSTANTS
    Peers = {a, b}
    MaxRestarts = 1
    MaxMsgs = 2
    MaxDeaths = 1
    MaxTroubles = 1
INVARIANTS
    MailSafe
PROPERTIES
    QuietRides
    TurnsEnd
CHECK_DEADLOCK FALSE
