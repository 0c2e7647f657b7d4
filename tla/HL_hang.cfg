SPECIFICATION FairSpec
CONSTANTS
    n1 = n1
    n2 = n2
    i1 = i1
    i2 = i2
    r1 = r1
    a1 = a1
    a2 = a2
    Clients = {n1, n2}
    Ids = {i1, i2}
    Rooms = {r1}
    World = World
    Requests = {a1, a2}
    Options <- SameRoom
    Nil = Nil
PROPERTIES
    LoginCompletes
CHECK_DEADLOCK FALSE
