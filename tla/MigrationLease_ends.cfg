SPECIFICATION FairSpec
CONSTANTS
    r1 = r1
    r2 = r2
    r3 = r3
    v1 = v1
    v2 = v2
    Runners = {r1, r2, r3}
    NoRunner = NoRunner
    Versions = {v1, v2}
    NoVersion = NoVersion
    Files <- ReleaseFiles
    Version <- NewTwice
    Command <- OneWaits
    MaxAttempts = 2
    Faults = {"crash"}
INVARIANT OneMigrator
PROPERTY ImplementsHistory
PROPERTY RunnersEnd
CHECK_DEADLOCK FALSE
