---------------------------- MODULE MC_Consoles ----------------------------
(* console and rconsole with a few keys, a 2-byte FIFO, break times of 1 to *)
(* 10 ms (so "5" is in range and "55" is not) and a 3-byte tmp_buff.      *)
EXTENDS Consoles

MC_ConsoleKeys == {"^B", "^C", "^G", "SP", "CR", "x", "5"}
MC_RconsoleKeys == {"^A", "^X", "x", "o", "CR", "hi", "ff"}
============================================================================
