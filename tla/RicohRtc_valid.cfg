\* A register value typed at writeRTCReg, then a read of the time.
CONSTANTS
    Times <- MC_Times
    BootRegs <- MC_BootRegs
    MdaysJunk = {0}
    RegChoices = {0}
    ValChoices = {117}
    OscAdjs <- MC_OscClamp
SPECIFICATION Spec
INVARIANT ValidRead
