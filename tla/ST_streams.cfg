SPECIFICATION FairSpec
CONSTANTS
    Ids = {s1}
    OnRevLen = 1
    WireLen = 2
    Sends = 2
    Options <- MCOptions
    Nil = Nil
INVARIANTS TypeOK EntryIsServed InOrder
PROPERTIES RunLoopFree StreamsEnd
CHECK_DEADLOCK FALSE
