\* Two sessions, each behaviour either narrowing stencils with the register
\* operators, or raising edges (across the wrap of two-bit counters) and
\* purging and consuming them.
CONSTANTS
    Sessions = {s1, s2}
    USERGPIOS <- MC_USERGPIOS
    MaskBits <- MC_MaskBits
    CountBits <- MC_CountBits
    KernelPins <- MC_KernelPins
    InputHigh <- MC_InputHigh
    Workloads <- MC_RegWorkloads
    ReadCounts = {}
    MaxEdges = 5
SPECIFICATION Spec
SYMMETRY SessionSymmetry
INVARIANT TypeInv
INVARIANT PendingExact
PROPERTY PinWritesConfined
