SPECIFICATION MCSpec
VIEW MCView
CONSTANTS
    Objects = {"mempool"}
    a = a
    b = b
    idle = idle
    n1 = n1
    n2 = n2
    c1 = c1
    c2 = c2
    tx = tx
    ty = ty
    Thread = {a, b, idle}
    Idle = idle
    PRIORITY_MAX = 2
    InitPriority <- MCInitPriority
    InitTick <- MCInitTick
    WaitList = {mbr, mbs, mqr, evw, mpw, dqs, dqp, cpw}
    TICK_RANGE = 9
    Started <- MCStarted
    SleepTicks = {}
    Times <- MCTimes
    MbReceivers = mbr
    MbSenders = mbs
    MbFlag = "RT_IPC_FLAG_FIFO"
    MbSize = 2
    ThreadMail = {m1}
    DeviceMail = {m2}
    NoMail = none
    MqReceivers = mqr
    MqFlag = "RT_IPC_FLAG_FIFO"
    Node <- MCNode
    NULL = NULL
    ThreadMessage = {m1}
    DeviceMessage = {m2}
    NoMessage = none
    EvWaiters = evw
    EvFlag = "RT_IPC_FLAG_PRIO"
    Bit = {1, 2}
    Requests <- MCRequests
    MpWaiters = mpw
    Chunk <- MCChunk
    Pool = Pool
    NoChunk = NULL
    MpTimes <- MCTimes
    DqPushers = dqs
    DqPoppers = dqp
    DqSize = 2
    DqLwm = 0
    INDEX_RANGE = 4
    ThreadItem = {d1}
    DeviceItem = {d2}
    NoItem = none
    CpWaiters = cpw
    QueueTimes <- MCForever
    RB_SIZE = 4
    PUT_MAX = 5
    BYTES = 7
    Caller = {a, b}
    Work = {w1, w2}
    NoWork = none
    TmUser = {a, b}
    Timer = {tx, ty}
    Owner <- MCOwner
    TmTimes = {1, 2}
    LATE_TICKS = 1
    HpUser = {a, b}
    mem_size_aligned = 10
    SIZEOF_STRUCT_MEM = 1
    MIN_SIZE = 2
    HpSizes = {1, 3, 5}
INVARIANTS
    CountsWaiters
