SPECIFICATION Spec
CONSTANTS
    Procs = {c1, c2, c3}
    None = None
    Ops = {"call", "stop"}
    MayCrash = {c1}
    DaemonFails = TRUE
    MayBeSlow = TRUE
    LongStartup = FALSE
SYMMETRY ProcSymmetry
CHECK_DEADLOCK FALSE
INVARIANTS
    TypeOK
    LockHeldByStarter
    StartSerialized
PROPERTIES
    OnlyStopCutsCalls
