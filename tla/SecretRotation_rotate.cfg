SPECIFICATION FairSpec
CONSTANTS
    Replicas = {a1, a2}
    Tables = {"projects", "external_connection_secrets", "jira"}
    Registry = {"projects", "external_connection_secrets"}
    Copied = {"external_connection_secrets"}
    Cell <- SomeCells
    x = x
    y = y
    Values <- RowValues
    Initially <- SecondRowOn
    Old = Old
    New = New
    NoValue = NoValue
    Nothing = Nothing
    BatchSize = 1
    MaxRequests = 1
    MaxSwaps = 2
    MaxDeaths = 1
INVARIANT RotationInv
INVARIANT StaysReadable
INVARIANT ClearedWhereCovered
PROPERTY RotationEnds
PROPERTY ImplementsPlainStore
CHECK_DEADLOCK FALSE
