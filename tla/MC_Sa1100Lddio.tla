--------------------------- MODULE MC_Sa1100Lddio ---------------------------
(* Sa1100Lddio instantiated for TLC: two user bits below one bit outside   *)
(* the stencil, which another agent drives.                                *)
EXTENDS Sa1100Lddio, TLC

MC_USERLDDIOS == 2
MC_MaskBits == 3
MC_ForeignPins == {2}
SessionSymmetry == Permutations(Sessions)
=============================================================================
