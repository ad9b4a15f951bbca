CONSTANTS
    Programs = {"console", "rconsole"}
    ConsoleKeys <- MC_ConsoleKeys
    RconsoleKeys <- MC_RconsoleKeys
    FIFO_LIMIT = 2
    MIN_BREAK_TIME = 1
    MAX_BREAK_TIME = 10
    TMP_BUFF_SIZE = 3
    READ_BUFFER_SIZE = 1
    MaxKeys = 4
    MaxRx = 1
SPECIFICATION Spec
INVARIANTS
    TypeInv
    TxWithinFifo
    BreakConfined
    KeyboardRestored
CHECK_DEADLOCK FALSE
