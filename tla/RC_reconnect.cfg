SPECIFICATION FairSpec
CONSTANTS
    MaxConns = 2
    Options <- MCOptions
INVARIANTS OneConnection LoginIsTold
PROPERTIES EventuallyServed
CHECK_DEADLOCK FALSE
