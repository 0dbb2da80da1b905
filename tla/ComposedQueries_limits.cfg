SPECIFICATION Spec
CONSTANTS
    l1 = l1
    l2 = l2
    j1 = j1
    j2 = j2
    Legs = {l1}
    Shared = {}
    Joins <- MCJoins
    Workers = {}
    Places <- TwoPlaces
    Sqls = {"sql"}
    Limits = {10, 500}
    Cancellable = {}
    Mortal = {}
    NoFile = NoFile
    NoQuery = NoQuery
INVARIANT SameFilesSameAnswer
CHECK_DEADLOCK FALSE
