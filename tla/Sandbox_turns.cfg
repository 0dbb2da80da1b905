SPECIFICATION Spec
CONSTANTS
    None = None
    MaxTurns = 2
    Backends = {"pause", "store"}
    MaxBoxes = 3
    MaxSnapshots = 3
    MaxTroubles = 2
    Cancellable = {1}
    Deletions = {"soft", "hard"}
 
INVARIANT OwnWorkIsPublished
INVARIANT EarlierWorkIsKept
INVARIANT RowsStayResumable
 
CHECK_DEADLOCK FALSE
