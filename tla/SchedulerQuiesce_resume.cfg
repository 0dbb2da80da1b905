SPECIFICATION FairSpec
CONSTANTS
    Runners = {g1, g2}
    NoRunner = NoRunner
    Concurrency = 3
    MaxClaims = 2
    MaxFailures = 1
    Faults = {"shutdown", "start", "stop", "runner"}
INVARIANT OneSchedule
INVARIANT NeverUnhealthy
INVARIANT NobodyForgotten
PROPERTY ImplementsPause
PROPERTY Resumes
PROPERTY ShutdownEnds
CHECK_DEADLOCK FALSE
