SPECIFICATION FairSpec
CONSTANTS
    Procs = {c1, c2}
    None = None
    Ops = {"call", "stop"}
    MayCrash = {c1, c2}
    DaemonFails = TRUE
    MayBeSlow = TRUE
    LongStartup = TRUE
CHECK_DEADLOCK FALSE
PROPERTIES
    ProcsSettle
    DaemonsExit
