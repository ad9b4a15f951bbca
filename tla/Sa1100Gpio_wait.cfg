\* Blocking 'W' reads of two sessions on one pin, edge interrupts and
\* signals; fewer edges than the counter wraps in.
CONSTANTS
    Sessions = {s1, s2}
    USERGPIOS <- MC_OnePin
    MaskBits <- MC_OnePin
    CountBits <- MC_CountBits
    KernelPins <- MC_NoPins
    InputHigh <- MC_NoPins
    Workloads <- MC_ReadWorkloads
    ReadCounts = {9}
    MaxEdges = 1
SPECIFICATION Spec
INVARIANT WaitRegistration
PROPERTY BlockedReaderReturns
