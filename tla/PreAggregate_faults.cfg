SPECIFICATION FairSpec
CONSTANTS
    j1 = j1
    j2 = j2
    Jobs = {j1, j2}
    NoJob = NoJob
    Times = {1, 2}
    Storage = "jsonl"
    Faults = {"crash", "database", "recompile", "retention"}
INVARIANT PreAggregateInv
INVARIANT OneActive
INVARIANT ActiveIsStored
PROPERTY ImplementsSwitch
PROPERTY StaysServed
PROPERTY MaterializationEnds
CHECK_DEADLOCK FALSE
