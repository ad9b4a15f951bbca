------------------------------ MODULE MC_FoceIo ------------------------------
(***************************************************************************)
(* Two clients of the FOCE I/O server, sending the lines of one of three  *)
(* sets.  The first reaches every A/D branch of the chain: slots claimed, *)
(* re-initialised and exhausted, each failure of adSetup, samples and     *)
(* scans that hit and miss the settings cache.  The second every relay   *)
(* and Elmo branch: relayInit repeated for one address, a relay index     *)
(* switched before it is claimed, an Elmo bit in and out of range.  The   *)
(* third holds the env commands to the Sensoray 518 and CPUtemp.          *)
(***************************************************************************)
EXTENDS FoceIo, TLC

CONSTANTS c1, c2

MC_Conns == {c1, c2}

MC_RelayAddrs == {784}

Setup(b, c, r, p, g) ==
    [op |-> "analogSetup", board |-> b, chan |-> c, range |-> r,
     polarity |-> p, gain |-> g]

MC_AdCmds ==
    { [op |-> "analogInit", addr |-> 768],
      [op |-> "analogInit", addr |-> 832],
      [op |-> "analogInit", addr |-> 848],
      Setup(0, 0, 10, 1, 1), Setup(0, 0, 5, 1, 3), Setup(0, 0, 5, 0, 1),
      Setup(0, 0, 1, 1, 1), Setup(2, 0, 10, 1, 1),
      [op |-> "analogSample", board |-> 0, chan |-> 0],
      [op |-> "analogSample", board |-> 0, chan |-> 1],
      [op |-> "analogScan", board |-> 0, chan |-> 0, nchans |-> 2],
      [op |-> "reply"],
      [op |-> "bye"] }
MC_RelayCmds ==
    { [op |-> "relayInit", addr |-> 784],
      [op |-> "relayOn", index |-> 0, mask |-> 1],
      [op |-> "relayOn", index |-> 1, mask |-> 1],
      [op |-> "relayOff", index |-> 0, mask |-> 1],
      [op |-> "switchElmoBit", bit |-> 7, state |-> 0],
      [op |-> "switchElmoBit", bit |-> 8, state |-> 1],
      [op |-> "switchElmo", byte |-> 192],
      [op |-> "reply"],
      [op |-> "bye"] }
\* The env commands to the Sensoray 518, a range and a unit that are
\* refused among them, with lines that only reply and bye.
MC_EnvCmds ==
    { [op |-> "envInit"], [op |-> "envProductId"], [op |-> "envFirmwareVersion"],
      [op |-> "envReadData", chan |-> 0, nchans |-> 2],
      [op |-> "envReadData", chan |-> 7, nchans |-> 2],
      [op |-> "envReadBoardTemp", units |-> 1],
      [op |-> "envReadBoardTemp", units |-> 3],
      [op |-> "CPUtemp"],
      [op |-> "reply"],
      [op |-> "bye"] }
\* A behaviour's clients send the lines of one set.  The A/D, the relay and
\* Elmo, and the env commands touch disjoint state, and threads only ever
\* meet at iomutex (and at the LPC ports, which every thread's
\* initCPUTemp reaches whatever it sends): mixing the sets would multiply
\* their state spaces without a new meeting point.
MC_Workloads == {MC_AdCmds, MC_RelayCmds, MC_EnvCmds}
=============================================================================
