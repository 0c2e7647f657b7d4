SPECIFICATION FairSpec
CONSTANTS
    c1 = c1
    c2 = c2
    i1 = i1
    i2 = i2
    Callers = {c1, c2}
    Ids = {i1}
    IdOf <- SharedId
    Retrying = {c1, c2}
    Outcomes = {okay, fail}
    Failures = {fail}
    Nil = Nil
    TxQueueLen = 2
    MaxSends = 1
    MaxReplies = 2
    MaxExec = 2
INVARIANTS
    HandlingTracksJob
    PendingIsWaiting
PROPERTIES
    AllCallsReturn
    JobsEnd
CHECK_DEADLOCK FALSE
