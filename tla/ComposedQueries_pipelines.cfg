SPECIFICATION FairSpec
CONSTANTS
    l1 = l1
    l2 = l2
    j1 = j1
    j2 = j2
    Legs <- MCLegs
    Shared = {l1}
    Joins <- MCJoins
    Workers = {w1}
    Places <- OnePlace
    Sqls = {"sql"}
    Limits = {500}
    Cancellable = {j1}
    Mortal = {w1}
    NoFile = NoFile
    NoQuery = NoQuery
INVARIANT ResultsFollowReferences
INVARIANT OutcomeIsTold
PROPERTY ImplementsDerived
PROPERTY JoinsEnd
CHECK_DEADLOCK FALSE
