SPECIFICATION Spec
CONSTANTS
    main = main
    a = a
    b = b
    idle = idle
    Thread = {main, a, b, idle}
    Idle = idle
    Main = main
    PRIORITY_MAX = 3
    InitPriority <- MCInitPriority
    InitTick <- MCInitTick
    WaitList = {}
    TICK_RANGE = 5
    StaticThread = {main, a, idle}
    CleanupThread = {}
    SleepTicks = {1}
    NewPriority = {}
    LOCK_MAX = 0
    Ops = {"suspend", "sleep", "startup", "resume"}
    Disciplined = FALSE
INVARIANTS
    SelectsThread
