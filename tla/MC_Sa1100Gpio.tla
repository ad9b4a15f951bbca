--------------------------- MODULE MC_Sa1100Gpio ---------------------------
(* Instantiation of Sa1100Gpio for TLC: two sessions, two user pins and a  *)
(* five-bit mask register (so that a second hex digit shifts the first     *)
(* one past the user pins, onto the kernel's pin 4), two-bit edge          *)
(* counters (so that the unsigned short wrap is reached in a few edges).   *)
EXTENDS Sa1100Gpio, TLC

MC_USERGPIOS  == 2
MC_MaskBits   == 5
MC_CountBits  == 2
MC_KernelPins == {4}
MC_InputHigh  == {1}

\* A single user pin and a one-bit mask, for the runs about reads.
MC_OnePin     == 1
MC_NoPins     == {}

\* The runs about registers and edges: either the register operators of two
\* sessions narrowing their stencils, or edge handlers, purges and single
\* event consumption.  A behaviour writes bytes of one set only; the two
\* are kept apart so that the state space is their sum, not their product.
MC_PinBytes  == [digits |-> {"1", "2"},
                 ops |-> {"+", "-", "=", "<", "@", "$", "I", ":", "O", "sp"}]
MC_EdgeBytes == [digits |-> {"3"}, ops |-> {"^", ".", ";", ","}]
MC_RegWorkloads == {MC_PinBytes, MC_EdgeBytes}

\* The runs about reads: blocking 'W' reads of pin 0 and its edges.
MC_ReadWorkloads == {[digits |-> {"1"}, ops |-> {"W", "^"}]}

\* Sessions are interchangeable: no step depends on which file is which.
SessionSymmetry == Permutations(Sessions)
====
