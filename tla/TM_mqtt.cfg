SPECIFICATION LoopSpec
CONSTANTS
    Names = {"a", "b"}
    MaxLevels = 2
INVARIANTS
    MatchesMqtt
CHECK_DEADLOCK FALSE
