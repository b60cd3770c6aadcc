SPECIFICATION Spec
CONSTANTS
    main = main
    a = a
    b = b
    idle = idle
    Thread = {main, a, b, idle}
    Idle = idle
    Main = main
    PRIORITY_MAX = 3
    InitPriority <- MCInitPriority
    InitTick <- MCInitTick
    WaitList = {}
    TICK_RANGE = 5
    StaticThread = {main, a, idle}
    CleanupThread = {}
    SleepTicks = {}
    NewPriority = {0, 2}
    LOCK_MAX = 1
    Ops = {"yield", "suspend", "critical", "startup", "resume", "control", "interrupt"}
    Disciplined = TRUE
INVARIANTS
    TypeOK
    ReadyQueueExact
    CallsUndisturbed
    HighestPriorityRuns
PROPERTIES
    LockHolds
