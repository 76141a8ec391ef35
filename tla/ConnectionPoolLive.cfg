SPECIFICATION FairSpec
CONSTANTS
    service = service
    user1 = user1
    user2 = user2
    Calls = {r1, r2}
    Closers = {x1}
    Keys = {service, user1}
    Base <- MCBase
    MaxSize = 1
    Backends = {"stdio", "remote", "remoteWithFallback", "absent"}
    NoCall = NoCall
    NoConn = NoConn
    NoKey = NoKey
CHECK_DEADLOCK FALSE
PROPERTIES
    CallsSettle
    ClosersSettle
