SPECIFICATION FairSpec
CONSTANTS
    a = a
    b = b
    c = c
    idle = idle
    Thread = {a, b, idle}
    Idle = idle
    PRIORITY_MAX = 3
    InitPriority <- MCInitPriority
    InitTick <- MCInitTick
    Sem = sem
    WaitList = {sem}
    TICK_RANGE = 8
    Started <- MCTwo
    SleepTicks = {1}
    Flag = "RT_IPC_FLAG_FIFO"
    Times <- MCLive
    VALUE_RANGE = 4
    InitValue = {0}
    BALANCE_MAX = 1
    Ops = {"take", "interrupt"}
    LOCK_MAX = 0
    Disciplined = TRUE
PROPERTIES
    FifoServes
    TimedWaitEnds
