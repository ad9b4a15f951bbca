\* LDDIO register operators and reads of one session, with another agent on
\* pin 2, and ':' among the operators: the header says only bits set in the
\* stencil can be modified, and ':' assigns PPDR = maskedStencil.
CONSTANTS
    Sessions = {s1}
    USERLDDIOS <- MC_USERLDDIOS
    MaskBits <- MC_MaskBits
    ForeignPins <- MC_ForeignPins
    HexDigits = {"1", "7"}
    ReadCounts = {4}
    Ops = {"V", "L", "S", "R", "+", "-", "=", "<", "I", "O", ":", "bs", "sp"}
    MaxForeign = 1
SPECIFICATION Spec
PROPERTY StencilConfinement
