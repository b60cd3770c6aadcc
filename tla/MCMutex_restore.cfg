SPECIFICATION Spec
CONSTANTS
    low = low
    middle = middle
    high = high
    idle = idle
    Thread = {low, middle, high, idle}
    Idle = idle
    PRIORITY_MAX = 4
    InitPriority <- MCInitPriority
    InitTick <- MCInitTick
    WaitList = {m, n}
    TICK_RANGE = 5
    Started <- MCStarted
    SleepTicks = {1}
    Flag = "RT_IPC_FLAG_PRIO"
    Times <- MCForever
    Nobody = Nobody
    HOLD_RANGE = 4
    HOLD_MAX = 1
    Detaches = FALSE
    HOLDS_MAX = 2
    Disciplined = TRUE
INVARIANTS
    PriorityRestored
