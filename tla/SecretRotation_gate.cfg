SPECIFICATION Spec
CONSTANTS
    Replicas = {a1, a2}
    Tables = {"projects", "jira"}
    Registry = {"projects"}
    Copied = {}
    Cell <- OneRowEach
    x = x
    y = y
    Values <- RowValues
    Initially <- AllFull
    Old = Old
    New = New
    NoValue = NoValue
    Nothing = Nothing
    BatchSize = 1
    MaxRequests = 0
    MaxSwaps = 1
    MaxDeaths = 0
INVARIANT ClearedIsFinal
CHECK_DEADLOCK FALSE
