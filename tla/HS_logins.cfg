SPECIFICATION FairSpec
CONSTANTS
    a = a
    b = b
    x = x
    y = y
    Conns = {a, b}
    Ciphers = {x, y}
    Options <- AllOptions
    Nil = Nil
INVARIANTS
    TypeOK
    LoginedIsServed
    PublishAfterLogin
PROPERTIES
    LoginCompletes
CHECK_DEADLOCK FALSE
