SPECIFICATION Spec
CONSTANTS
    main = main
    a = a
    b = b
    idle = idle
    Thread = {main, a, b, idle}
    Idle = idle
    Main = main
    PRIORITY_MAX = 3
    InitPriority <- MCInitPriority
    InitTick <- MCInitTick
    WaitList = {}
    TICK_RANGE = 7
    StaticThread = {main, a, idle}
    CleanupThread = {b}
    SleepTicks = {0, 2}
    NewPriority = {}
    LOCK_MAX = 0
    Ops = {"suspend", "sleep", "exit", "init", "startup", "delete", "detach", "interrupt"}
    Disciplined = TRUE
INVARIANTS
    SelectsThread
    NoUseAfterFree
    ClosedNotReady
    TimeoutAssert
    NeverLate
PROPERTIES
    NeverEarly
