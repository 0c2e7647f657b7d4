SPECIFICATION Spec
CONSTANTS
    c1 = c1
    c2 = c2
    i1 = i1
    i2 = i2
    Callers = {c1, c2}
    Ids = {i1, i2}
    IdOf <- DistinctIds
    Retrying = {c1}
    Outcomes = {okay, fail}
    Failures = {fail}
    Nil = Nil
    TxQueueLen = 2
    MaxSends = 2
    MaxReplies = 1
    MaxExec = 2
INVARIANTS
    TypeOK
    PanicNeedsTimeout
    OneShotAtMostOnce
PROPERTIES
    ImplementsRpc
CHECK_DEADLOCK FALSE
