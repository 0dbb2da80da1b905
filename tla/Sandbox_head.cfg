SPECIFICATION Spec
CONSTANTS
    None = None
    MaxTurns = 3
    Backends = {"store"}
    MaxBoxes = 4
    MaxSnapshots = 4
    MaxTroubles = 0
    Cancellable = {}
    Deletions = {}
INVARIANT BranchesFromHead
CHECK_DEADLOCK FALSE
