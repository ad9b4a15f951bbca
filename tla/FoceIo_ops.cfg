\* Two clients, two relay board indexes and one relay address, two A/D
\* slots (slot 0 holds the Elmo DIO board from startup) of two channels,
\* and the Sensoray 518 with its eight channels.
CONSTANTS
    c1 = c1
    c2 = c2
    None = None
    Conns <- MC_Conns
    MAX_RELAY_BOARDS = 2
    MAX_ANALOG_BOARDS = 2
    AD_CHANS_PER_BOARD = 2
    RelayAddrs <- MC_RelayAddrs
    Workloads <- MC_Workloads
    NUMBER_OF_CHANNELS = 8

SPECIFICATION Spec
INVARIANT TypeInv
INVARIANT RelayPortMirrorsState
INVARIANT CacheNamesLoadedChannel
INVARIANT MutexHeldByLiveThread
