SPECIFICATION Spec
CONSTANTS
    service = service
    user1 = user1
    user2 = user2
    Calls = {r1, r2, r3}
    Closers = {x1}
    Keys = {service, user1}
    Base <- MCBase
    MaxSize = 2
    Backends = {"stdio"}
    NoCall = NoCall
    NoConn = NoConn
    NoKey = NoKey
CHECK_DEADLOCK FALSE
INVARIANTS
    OneConnectionPerKey
