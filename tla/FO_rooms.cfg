SPECIFICATION FairSpec
CONSTANTS
    n1 = n1
    n2 = n2
    r1 = r1
    x = x
    Clients = {n1, n2}
    Rooms = {r1}
    World = World
    Centers <- MCCenters
    RoomOf <- OneInRoom
    Subject = x
    Filter <- MCFilter
    SubSize = 1
    PubSize = 1
    MaxPubs = 2
    Publishing = {n1, n2}
    Subscribing = {n2}
    Unsubscribing = {n1}
    MayLose = {n2}
    MayDispose = {n2}
    Nil = Nil
INVARIANTS
    NamedAsDocumented
    HandedInOrder
PROPERTIES
    FanoutEnds
CHECK_DEADLOCK FALSE
