SPECIFICATION Spec
CONSTANTS
    Clients = {"p", "q"}
    Branches = {"a", "b", "d"}
    Owner <- MCOwner
    BlockedBy <- MCBlockedBy
    Worktrees <- MCWorktrees
    MaxVersion = 2
    Outside <- MCOutside1
    BatchSize = 2
    Breakages <- MCBreak
    Clashes <- MCClashes
    MaxTroubles = 1
    MaxRepairs = 1
INVARIANTS
    TrainSafe
    BlamedAlone
PROPERTIES
    TargetKept
CHECK_DEADLOCK FALSE
