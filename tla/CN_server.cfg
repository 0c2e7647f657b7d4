SPECIFICATION FairSpec
CONSTANTS
    TxLen = 1
    RxLen = 1
    WireLen = 1
    MaxMsgs = 2
    Options <- MCOptions
INVARIANTS TypeOK ClientsAreLive
PROPERTIES ImplementsChannel Released
CHECK_DEADLOCK FALSE
