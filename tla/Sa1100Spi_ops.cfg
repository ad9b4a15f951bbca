\* Two sessions configuring the SSP, clocking words and reading them.
CONSTANTS
    Sessions = {s1, s2}
    Masks <- MC_Masks
    Ops = {"S", "L", "P", "I", "G", "W", "=", "bs", "sp"}
    ReadCounts = {4}
    MaxOutputs = 1
    BootGPDR <- MC_BootGPDR
    MaxConfigs = 1
SPECIFICATION Spec
INVARIANT TypeInv
PROPERTY WaitedWordTaken
PROPERTY WordSlotRefined
