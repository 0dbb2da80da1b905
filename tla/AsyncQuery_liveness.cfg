SPECIFICATION FairSpec
CONSTANTS
    q1 = q1
    q2 = q2
    w1 = w1
    k1 = k1
    NoFile = NoFile
    NoQuery = NoQuery
    Queries <- MCQueries
    Workers <- MCWorkers
    CacheKeys <- MCKeys
    NatsEnabled = TRUE
    Faults <- MCNone
PROPERTIES ReturnedQueryEnds
CHECK_DEADLOCK FALSE
