\* Setting, reading and re-moding the RTC through main's options and the
\* interactive menu, over the bit-banged LDDIO transport.
CONSTANTS
    Times <- MC_Times
    BootRegs <- MC_BootRegs
    MdaysJunk = {0}
    RegChoices = {14}
    ValChoices = {0, 32}
    OscAdjs <- MC_OscAdjs
SPECIFICATION Spec
INVARIANT TypeInv
INVARIANT RoundTrip
