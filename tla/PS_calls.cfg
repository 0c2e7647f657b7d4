SPECIFICATION FairSpec
CONSTANTS
    a = a
    b = b
    Centers = {c1}
    Callers = {k1, k2}
    Filters <- MCFilters
    Subjects <- MCSubjects
    SubSize = 1
    PubSize = 2
    MaxCalls = 2
    Nil = Nil
INVARIANTS
    TypeOK
    ListenersHear
    HeardInOrder
PROPERTIES
    UnsubscribedIsGone
    CallsReturn
CHECK_DEADLOCK FALSE
