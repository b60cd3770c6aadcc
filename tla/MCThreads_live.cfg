SPECIFICATION FairSpec
CONSTANTS
    main = main
    a = a
    b = b
    idle = idle
    Thread = {main, a, b, idle}
    Idle = idle
    Main = main
    PRIORITY_MAX = 3
    InitPriority <- MCInitPriority
    InitTick <- MCInitTick
    WaitList = {}
    TICK_RANGE = 5
    StaticThread = {main, a, idle}
    CleanupThread = {a}
    SleepTicks = {1}
    NewPriority = {}
    LOCK_MAX = 0
    Ops = {"sleep", "startup", "delete", "exit"}
    Disciplined = TRUE
PROPERTIES
    SleepEnds
    RoundRobin
    DeletedReclaimed
