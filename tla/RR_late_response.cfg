SPECIFICATION Spec
CONSTANTS
    c1 = c1
    c2 = c2
    i1 = i1
    i2 = i2
    Callers = {c1}
    Ids = {i1}
    IdOf <- OneId
    Retrying = {}
    Outcomes = {okay, fail}
    Failures = {fail}
    Nil = Nil
    TxQueueLen = 3
    MaxSends = 2
    MaxReplies = 2
    MaxExec = 2
INVARIANTS
    NoPanic
CHECK_DEADLOCK FALSE
