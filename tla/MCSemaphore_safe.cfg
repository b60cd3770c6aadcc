SPECIFICATION Spec
CONSTANTS
    a = a
    b = b
    c = c
    idle = idle
    Thread = {a, b, c, idle}
    Idle = idle
    PRIORITY_MAX = 3
    InitPriority <- MCInitPriority
    InitTick <- MCInitTick
    Sem = sem
    WaitList = {sem}
    TICK_RANGE = 5
    Started <- MCThree
    SleepTicks = {}
    Flag = "RT_IPC_FLAG_PRIO"
    Times <- MCTimes
    VALUE_RANGE = 2
    InitValue = {0, 3}
    BALANCE_MAX = 2
    Ops = {"take", "release", "control", "interrupt", "detach", "critical"}
    LOCK_MAX = 1
    Disciplined = TRUE
INVARIANTS
    SemaphoreInvariant
PROPERTIES
    Refinement
