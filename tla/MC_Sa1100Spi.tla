---------------------------- MODULE MC_Sa1100Spi ----------------------------
(* Sa1100Spi instantiated for TLC.  The masks reach every branch of the    *)
(* operators: 0 (external clock, flags off, pins handed back), 16 (a valid *)
(* divisor and word width) and 257 (ignored by 'S' and 'W').               *)
EXTENDS Sa1100Spi, TLC

MC_Masks == {0, 16, 257}
MC_BootGPDR == {{}}
=============================================================================
