SPECIFICATION Spec
CONSTANTS
    Procs = {c1, c2}
    None = None
    Ops = {"call"}
    MayCrash = {}
    DaemonFails = FALSE
    MayBeSlow = FALSE
    LongStartup = FALSE
CHECK_DEADLOCK FALSE
INVARIANTS
    OneDaemonServes
