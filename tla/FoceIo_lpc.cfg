\* Two clients, each thread starting with initCPUTemp while the other may
\* be in a CPUtemp command or starting too.
CONSTANTS
    c1 = c1
    c2 = c2
    None = None
    Conns <- MC_Conns
    MAX_RELAY_BOARDS = 2
    MAX_ANALOG_BOARDS = 2
    AD_CHANS_PER_BOARD = 2
    RelayAddrs <- MC_RelayAddrs
    Workloads <- MC_Workloads
    NUMBER_OF_CHANNELS = 8

SPECIFICATION Spec
INVARIANT LpcRegisterSelected
