----------------------------- MODULE MC_RicohRtc -----------------------------
EXTENDS RicohRtc

\* Times that exercise 12 AM, 12 PM, afternoon hours, the century bit and
\* the last day of a month.
MC_Times ==
    { [sec |-> 59, min |-> 7, hour |-> 0, mday |-> 31, mon |-> 11, wday |-> 6, year |-> 108],
      [sec |-> 0, min |-> 59, hour |-> 12, mday |-> 29, mon |-> 1, wday |-> 0, year |-> 99],
      [sec |-> 30, min |-> 0, hour |-> 13, mday |-> 1, mon |-> 0, wday |-> 3, year |-> 100] }

\* 2000-01-01 00:00:00 with XSTP set, in 12- or 24-hour mode.
MC_BootRegs ==
    { [r \in Regs |-> CASE r = 4 -> 1 [] r = 5 -> 1 [] r = CTRL_REG2 -> XSTP_BIT
                           [] r = CTRL_REG1 -> m [] OTHER -> 0] : m \in {0, AMPM_BIT} }
\* -a with an adjustment past the -195 ppm clamp, and one in range.
MC_OscAdjs == {-200, -10}

\* -a past the clamp only.
MC_OscClamp == {-200}
====
