\* One-pin blocking reads: a read after -EAGAIN or -ERESTARTSYS.
CONSTANTS
    Sessions = {s1, s2}
    USERGPIOS <- MC_OnePin
    MaskBits <- MC_OnePin
    CountBits <- MC_CountBits
    KernelPins <- MC_NoPins
    InputHigh <- MC_NoPins
    Workloads <- MC_ReadWorkloads
    ReadCounts = {9}
    MaxEdges = 1
SPECIFICATION Spec
INVARIANT NoStaleRead
