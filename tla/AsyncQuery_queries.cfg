SPECIFICATION Spec
CONSTANTS
    q1 = q1
    q2 = q2
    w1 = w1
    k1 = k1
    NoFile = NoFile
    NoQuery = NoQuery
    Queries <- MCQueries
    Workers <- MCWorkers
    CacheKeys <- MCKeys
    NatsEnabled = TRUE
    Faults <- MCAllFaults
SYMMETRY MCSymmetry
INVARIANTS OneExecutor ClaimHolds ResultsAreStored IInv
PROPERTIES EndedStaysEnded ImplementsLifecycle
CHECK_DEADLOCK FALSE
