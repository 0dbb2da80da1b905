SPECIFICATION Spec
CONSTANTS
    r1 = r1
    r2 = r2
    r3 = r3
    v1 = v1
    v2 = v2
    Runners = {r1, r2, r3}
    NoRunner = NoRunner
    Versions = {v1, v2}
    NoVersion = NoVersion
    Files <- ReleaseFiles
    Version <- OldTwice
    Command <- OneForces
    MaxAttempts = 1
    Faults = {"crash", "database", "stall", "timeout", "unlock", "unlock --force"}
SYMMETRY ServerSymmetry
INVARIANT DoneIsMigrated
INVARIANT ParkedRests
INVARIANT MigrationInv
PROPERTY OwnersEndRuns
CHECK_DEADLOCK FALSE
