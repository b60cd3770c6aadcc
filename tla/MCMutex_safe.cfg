SPECIFICATION Spec
CONSTANTS
    low = low
    middle = middle
    high = high
    idle = idle
    Thread = {low, middle, high, idle}
    Idle = idle
    PRIORITY_MAX = 4
    InitPriority <- MCInitPriority
    InitTick <- MCInitTick
    WaitList = {m}
    TICK_RANGE = 5
    Started <- MCStarted
    SleepTicks = {1}
    Flag = "RT_IPC_FLAG_PRIO"
    Times <- MCTimes
    Nobody = Nobody
    HOLD_RANGE = 3
    HOLD_MAX = 2
    Detaches = TRUE
    HOLDS_MAX = 1
    Disciplined = TRUE
INVARIANTS
    MutexInvariant
    PriorityInheritance
