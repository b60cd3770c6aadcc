SPECIFICATION MCSpec
VIEW MCView
CONSTANTS
    Services = {"serial_rx", "serial_tx", "clock", "at_client"}
    a = a
    b = b
    SlUser = {a, b}
    REF_MAX = 2
    SL_BUFSZ = 3
    SL_BYTES = 3
    TX_QUEUE = 3
    SL_BUFFERS = 5
    NoBuffer = none
    Tops = {24, 60}
    BLACK = 2
    LATE_MAX = 2
    AT_FIFO = 2
    AT_BUF = 2
    DATA_MAX = 1
    COMMANDS = 2
    NOTICE_MAX = 1
    SENT_MAX = 2
    NoLine = none
INVARIANTS
    
    ClockInvariant
    AnswersItsCommand
    AtClientInvariant
