SPECIFICATION Spec
CONSTANTS
    Clients = {"p"}
    Branches = {"a", "d"}
    Owner <- MCOwner
    BlockedBy <- MCBlockedBy
    Worktrees <- MCWorktrees
    MaxVersion = 2
    Outside <- MCOutside1
    BatchSize = 2
    Breakages <- MCBreak
    Clashes <- MCClashes
    MaxTroubles = 1
    MaxRepairs = 1
PROPERTIES
    LandingEnds
    DependentsLeave
    InTargetIsFound
CHECK_DEADLOCK FALSE
