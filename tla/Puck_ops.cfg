\* An erase, sequential writes and a flush, with reads, address moves,
\* baud and echo changes and overlong lines outside the write session,
\* and power cycles at any point.
CONSTANTS
    RX_BUFFER_SIZE = 4
    MAX_CHARS = 2
    PAGE_SIZE = 2
    PAGES = 2
    DataBytes = {"d1"}
    Commands <- MC_Commands
    ReadMsgs <- MC_ReadMsgs
    WriteMsgs <- MC_WriteMsgs
SPECIFICATION Spec
INVARIANT TypeInv
INVARIANT FlashHoldsWrites
INVARIANT BaudReported
INVARIANT ParseAgrees
PROPERTY RxFifo
PROPERTY ReceivedUnlessFull
VIEW View
PROPERTY HostAnswered
