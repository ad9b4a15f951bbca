------------------------------ MODULE RicohRtc ------------------------------
(***************************************************************************)
(* ricohRTC (src/native/arm-linux/src/ricohRTC): the user program that     *)
(* drives a Ricoh serial RTC by bit-banging four LDDIO pins through        *)
(* /dev/lddio, and converts between the chip's seven BCD time registers    *)
(* and a struct tm.                                                        *)
(*                                                                         *)
(* The program is single-threaded; every write() and read() on /dev/lddio  *)
(* is one LDDIO command executed by the driver before the call returns.    *)
(* One invocation of main() (with one option) or one item of the           *)
(* interactive menu is therefore one action: the LDDIO commands it issues  *)
(* are folded, in program order, over the pin levels and the RTC chip.     *)
(* The chip is the environment: it latches MOSI on the falling edge of CLK *)
(* while CE is high, drives MISO on the rising edge, and after the format  *)
(* byte (address << 4 | mode) reads (mode bit 2 set) or writes consecutive *)
(* registers.                                                              *)
(***************************************************************************)
EXTENDS Integers, Sequences, SequencesExt, FiniteSets, Bitwise

CONSTANTS
    Times,       \* struct tm values the user or gmtime() hands to setRTC
    MdaysJunk,   \* what mdays[month] can read for a month outside 0..11
    RegChoices,  \* register numbers typed at the writeRTCReg prompt
    ValChoices,  \* register values typed at the writeRTCReg prompt
    OscAdjs,     \* ppm values given to -a (whole numbers, as atof reads them)
    BootRegs     \* register contents the chip can have when the program starts

\* ricohRTC.h: the LDDIO bits of the four RTC lines, and the registers.
RTC_MISO == 3
RTC_MOSI == 4
RTC_CLK  == 5
RTC_CE   == 6
Stencil  == {RTC_MISO, RTC_MOSI, RTC_CLK, RTC_CE}   \* "78<" of LDDIO_SETUP_STR
Regs == 0..15
Bytes == 0..255
SECOND_REG == 0
OSC_ADJ_REG == 7
CTRL_REG1 == 14
CTRL_REG2 == 15
RTC_TIME_SIZE == 7
AMPM_BIT == 32
KHZ32_BIT == 16
XSTP_BIT == 16
CENTURY_BIT == 128
OK == 0
ERROR == -1
mdays == <<31, 29, 31, 30, 31, 30, 31, 31, 30, 31, 30, 31>>

BitOf(v, i) == (v \div 2^i) % 2

(***************************************************************************)
(* RTC register codec (ricohRTC.c 414-556).                                *)
(***************************************************************************)
toBcd(val) == ((val \div 10) % 16) * 16 + (val % 10)
fromBcd(bcd) == (bcd % 16) + ((bcd \div 16) % 16) * 10

\* Seeded fault: 12 PM encoded as 12 AM.
EncodeHour_noon(h, ctrl1) ==
    IF (ctrl1 & AMPM_BIT) # 0 THEN toBcd(h)
    ELSE IF h = 0 \/ h = 12 THEN 18
    ELSE IF h > 12 THEN 32 + toBcd(h - 12)
    ELSE toBcd(h)

\* setRTC's hour register: AMPM_BIT set in CTRL_REG1 selects 24-hour mode.
EncodeHour(h, ctrl1) ==
    IF (ctrl1 & AMPM_BIT) # 0 THEN toBcd(h)
    ELSE IF h = 0 THEN 18                  \* 0x12: 12 AM
    ELSE IF h = 12 THEN 50                 \* 0x32: 12 PM
    ELSE IF h > 12 THEN 32 + toBcd(h - 12)
    ELSE toBcd(h)

\* readRTC's hour: the reverse of EncodeHour.
DecodeHour(x, ctrl1) ==
    IF (ctrl1 & AMPM_BIT) # 0 THEN fromBcd(x)
    ELSE LET h == fromBcd(x & 31)
             h0 == IF h = 12 THEN 0 ELSE h
         IN  IF (x & 32) # 0 THEN h0 + 12 ELSE h0

\* The RtcTime record setRTC writes: second, minute, hour, dayOfWeek,
\* dayOfMonth, monthAndCenturyBit, year.
RtcTimeOf(tm, ctrl1) ==
    LET century == tm.year > 99
        year == IF century THEN tm.year - 100 ELSE tm.year
    IN  << toBcd(tm.sec), toBcd(tm.min), EncodeHour(tm.hour, ctrl1),
           tm.wday % 256, toBcd(tm.mday),
           (toBcd(tm.mon + 1) + (IF century THEN 128 ELSE 0)) % 256,
           toBcd(year) >>

\* Seeded fault: the month taken without masking off the century bit.
readRTCResult_noMask(rt, ctrl1, ctrlRtn, junk) ==
    LET sec == fromBcd(rt[1])
        min == fromBcd(rt[2])
        hour == DecodeHour(rt[3], ctrl1)
        month == fromBcd(rt[6]) - 1
        mday == fromBcd(rt[5])
        yr == fromBcd(rt[7])
        wday == rt[4] & 7
        md == IF month \in 0..11 THEN mdays[month + 1] ELSE junk
        rtn2 == IF ctrlRtn # OK THEN ERROR ELSE ctrlRtn
        late == hour > 23 \/ month > 11 \/ mday > md \/ yr > 99 \/ wday > 6
    IN  [tm |-> [sec |-> sec, min |-> min, hour |-> hour, mday |-> mday,
                 mon |-> month, wday |-> wday,
                 year |-> yr + (IF (rt[6] & CENTURY_BIT) # 0 THEN 100 ELSE 0)],
         rtn |-> IF late THEN ERROR ELSE rtn2]

\* readRTC's decoding and its error code.  rtn is assigned in the order
\* of the code: the seconds and minutes checks, then the result of the
\* CTRL_REG1 read, then the remaining checks.  mdays[month] for a month
\* outside 0..11 reads past the array: its value is junk.
readRTCResult(rt, ctrl1, ctrlRtn, junk) ==
    LET sec == fromBcd(rt[1])
        min == fromBcd(rt[2])
        hour == DecodeHour(rt[3], ctrl1)
        month == fromBcd(rt[6] & 31) - 1
        mday == fromBcd(rt[5])
        yr == fromBcd(rt[7])
        wday == rt[4] & 7
        md == IF month \in 0..11 THEN mdays[month + 1] ELSE junk
        rtn1 == IF sec > 60 \/ min >= 60 THEN ERROR ELSE OK
        \* line 463 assigns rtn again: rtn1 is lost
        rtn2 == IF ctrlRtn # OK THEN ERROR ELSE ctrlRtn
        late == hour > 23 \/ month > 11 \/ mday > md \/ yr > 99 \/ wday > 6
    IN  [tm |-> [sec |-> sec, min |-> min, hour |-> hour, mday |-> mday,
                 mon |-> month, wday |-> wday,
                 year |-> yr + (IF (rt[6] & CENTURY_BIT) # 0 THEN 100 ELSE 0)],
         rtn |-> IF late THEN ERROR ELSE rtn2]
(***************************************************************************)
(* The bit-banging transport (ricohRTC.c 857-1005).  A command is one     *)
(* LDDIO operator: "+" sets and "-" clears the mask bits inside the        *)
(* stencil in PPSR; "rd" is read(lddioFd, lddBuf, 8) of the levels.        *)
(***************************************************************************)
Set(m) == [op |-> "+", mask |-> m]
Clr(m) == [op |-> "-", mask |-> m]
Sample == [op |-> "rd", mask |-> {}]

rtcSelect == << Set({RTC_CE}) >>             \* SELECT_STR "40+"
rtcUnselect == << Clr({RTC_CE}) >>           \* DESELECT_STR "40-"

\* One bit: "30+" for a 1, "20+10-" for a 0, then "20-"; MSB first.
SendBit(b) ==
    (IF b = 1 THEN << Set({RTC_MOSI, RTC_CLK}) >>
              ELSE << Set({RTC_CLK}), Clr({RTC_MOSI}) >>) \o << Clr({RTC_CLK}) >>
rtcSendByte(byte) == FlattenSeq([k \in 1..8 |-> SendBit(BitOf(byte, 8 - k))])

\* "20+", "20-", then a read of the levels, for each bit read.
ReadBit == << Set({RTC_CLK}), Clr({RTC_CLK}), Sample >>

ReadByte == FlattenSeq([k \in 1..8 |-> ReadBit])

\* Seeded fault: the single-read format nibble 0x08 (a single write).
\* A transfer as a sequence of chunks of commands, one chunk per byte.
rtcReadBytesCmds(reg, len) ==
    LET fmtByte == (reg % 16) * 16 + (IF len = 1 THEN 12 ELSE 4)
    IN  << rtcSelect, rtcSendByte(fmtByte) >>
          \o [k \in 1..len |-> ReadByte] \o << rtcUnselect >>

rtcWriteBytesCmds(reg, buf) ==
    LET fmtByte == (reg % 16) * 16 + (IF Len(buf) = 1 THEN 8 ELSE 0)
    IN  << rtcSelect, rtcSendByte(fmtByte) >>
          \o [k \in 1..Len(buf) |-> rtcSendByte(buf[k])] \o << rtcUnselect >>

\* The chip: phase, current register, bits shifted in this byte, the shift
\* register, the MISO level, and the sixteen registers.
ChipIdle(regs) ==
    [phase |-> "idle", addr |-> 0, nbits |-> 0, shift |-> 0, so |-> 0, regs |-> regs]

ChipRise(c) ==
    IF c.phase = "rd"
    THEN [c EXCEPT !.so = BitOf(c.regs[c.addr], 7 - c.nbits)]
    ELSE c

ChipFall(c, d) ==
    LET sh == (2 * c.shift + d) % 256
        done == c.nbits = 7
    IN  CASE c.phase = "fmt" /\ done ->
               [c EXCEPT !.addr = sh \div 16, !.nbits = 0, !.shift = 0,
                         !.phase = IF BitOf(sh, 2) = 1 THEN "rd" ELSE "wr"]
          [] c.phase = "wr" /\ done ->
               [c EXCEPT !.regs[c.addr] = sh, !.addr = (@ + 1) % 16,
                         !.nbits = 0, !.shift = 0]
          [] c.phase = "rd" /\ done ->
               [c EXCEPT !.addr = (@ + 1) % 16, !.nbits = 0]
          [] c.phase \in {"fmt", "wr", "rd"} ->
               [c EXCEPT !.shift = sh, !.nbits = @ + 1]
          [] OTHER -> c

ChipEdge(c, old, new) ==
    CASE RTC_CE \notin old /\ RTC_CE \in new ->
           [c EXCEPT !.phase = "fmt", !.nbits = 0, !.shift = 0]
      [] RTC_CE \in old /\ RTC_CE \notin new -> [c EXCEPT !.phase = "idle"]
      [] RTC_CE \in new /\ RTC_CLK \notin old /\ RTC_CLK \in new -> ChipRise(c)
      [] RTC_CE \in new /\ RTC_CLK \in old /\ RTC_CLK \notin new ->
           ChipFall(c, IF RTC_MOSI \in new THEN 1 ELSE 0)
      [] OTHER -> c

\* One LDDIO command on the bus [pins, chip, got]: got collects the MISO
\* bit of each levels read ("val & RTC_MISO").
Step(bus, cmd) ==
    IF cmd.op = "rd"
    THEN [bus EXCEPT !.got = Append(@, bus.chip.so)]
    ELSE LET new == IF cmd.op = "+" THEN bus.pins \cup (cmd.mask \cap Stencil)
                                    ELSE bus.pins \ (cmd.mask \cap Stencil)
         IN  [bus EXCEPT !.pins = new, !.chip = ChipEdge(bus.chip, bus.pins, new)]

\* Run the commands of a transfer chunk by chunk.  Each intermediate bus
\* is tested (the test always holds) so that TLC evaluates it before the
\* next command instead of building a deep chain of unevaluated steps.
Evaluated(bus) == bus.pins \subseteq Stencil

RECURSIVE RunCmds(_, _, _)
RunCmds(bus, cmds, i) ==
    IF i > Len(cmds) THEN bus
    ELSE LET next == Step(bus, cmds[i])
         IN  IF Evaluated(next) THEN RunCmds(next, cmds, i + 1) ELSE next

RECURSIVE RunChunks(_, _, _)
RunChunks(bus, chunks, i) ==
    IF i > Len(chunks) THEN bus
    ELSE LET next == RunCmds(bus, chunks[i], 1)
         IN  IF Evaluated(next) THEN RunChunks(next, chunks, i + 1) ELSE next

Run(bus, chunks) ==
    IF Evaluated(bus) THEN RunChunks([bus EXCEPT !.got = << >>], chunks, 1) ELSE bus

\* byt |= (1 << bit) for each sampled 1, MSB first.
RECURSIVE PackBits(_, _, _)
PackBits(byt, got, k) ==
    IF k = 0 THEN byt ELSE PackBits(2 * byt + got[Len(got) - k + 1], got, k - 1)
Packed(got, i) == PackBits(0, SubSeq(got, 8 * i - 7, 8 * i), 8)
BufOf(bus, len) == [i \in 1..len |-> Packed(bus.got, i)]
\* The LDDIO operations of the program, on a bus record.
rtcReadBytes(bus, reg, len) == Run(bus, rtcReadBytesCmds(reg, len))
rtcWriteBytes(bus, reg, buf) == Run(bus, rtcWriteBytesCmds(reg, buf))
setupRTC(bus) == Run(bus, << << Clr({RTC_MOSI, RTC_CLK, RTC_CE}) >> >>)  \* "70-"

\* main() before getopt: setupRTC, then clear XSTP in CTRL_REG2.
Prologue(bus) ==
    LET a == rtcReadBytes(setupRTC(bus), CTRL_REG2, 1)
        modeByte == BufOf(a, 1)[1]
    IN  rtcWriteBytes(a, CTRL_REG2, << modeByte - (modeByte & XSTP_BIT) >>)

\* readRTC: the seven time registers in one burst, then CTRL_REG1.
readRTC(bus, junk) ==
    LET a == rtcReadBytes(bus, SECOND_REG, RTC_TIME_SIZE)
        b == rtcReadBytes(a, CTRL_REG1, 1)
    IN  [bus |-> b,
         res |-> readRTCResult(BufOf(a, RTC_TIME_SIZE), BufOf(b, 1)[1], OK, junk)]

\* setRTC: CTRL_REG1 for the hour mode, then the seven registers.
setRTC(bus, tm) ==
    LET a == rtcReadBytes(bus, CTRL_REG1, 1)
    IN  rtcWriteBytes(a, SECOND_REG, RtcTimeOf(tm, BufOf(a, 1)[1]))

\* Read-modify-write of one bit of CTRL_REG1 (-k and -m).
SetCtrl1Bit(bus, bit, on) ==
    LET a == rtcReadBytes(bus, CTRL_REG1, 1)
        m == BufOf(a, 1)[1]
    IN  rtcWriteBytes(a, CTRL_REG1, << IF on THEN m | bit ELSE m - (m & bit) >>)

\* getHourMode: CTRL_REG1 is read for its AMPM_BIT.
getHourMode(bus) == rtcReadBytes(bus, CTRL_REG1, 1)

\* printRTCtime: readRTC, then getHourMode to choose the format.
printRTCtime(bus, junk) ==
    LET a == readRTC(bus, junk) IN [a EXCEPT !.bus = getHourMode(a.bus)]

\* setSystemFromRTC: readRTC; mktime and settimeofday act on the system
\* clock, which the model leaves out.
setSystemFromRTC(bus, junk) == readRTC(bus, junk)

\* -a: the value written to OSC_ADJ_REG for an adjustment of x ppm.  In
\* range, (signed char)(x / 3.05) truncates toward zero and & 0x7f keeps
\* seven bits; past +-195 the signed char 63 or -63 is written whole.
TruncDiv(a, b) == IF a >= 0 THEN a \div b ELSE -((-a) \div b)
AdjVal(x) ==
    CASE x > 195 -> 63
      [] x < -195 -> 256 - 63
      [] OTHER -> TruncDiv(100 * x, 305) % 128

ValidTm(tm) ==
    /\ tm.sec \in 0..59 /\ tm.min \in 0..59 /\ tm.hour \in 0..23
    /\ tm.mon \in 0..11 /\ tm.mday \in 1..mdays[tm.mon + 1]
    /\ tm.wday \in 0..6 /\ tm.year \in 0..199

VARIABLES
    pins,      \* PPSR levels of MOSI, CLK and CE
    chip,      \* the RTC chip
    session,   \* "none", or "menu" while interactive() runs
    expect,    \* {tm} of the last setRTC whose time is still in the chip
    last,      \* {result} of the last readRTC
    touched    \* the registers the last step meant to write

vars == <<pins, chip, session, expect, last, touched>>
TimeRegs == SECOND_REG..6

Bus == [pins |-> pins, chip |-> chip, got |-> << >>]

Done(bus) == pins' = bus.pins /\ chip' = bus.chip

Init ==
    /\ pins \in SUBSET {RTC_MOSI, RTC_CLK, RTC_CE}
    /\ chip \in {ChipIdle(r) : r \in BootRegs}
    /\ session = "none"
    /\ expect = {} /\ last = {} /\ touched = {}

\* main -t: setRTCfromSystem reads the old time, then sets gmtime's.
MainT(tm, junk) ==
    LET a == readRTC(Prologue(Bus), junk)
    IN  /\ session = "none"
        /\ Done(setRTC(a.bus, tm))
        /\ expect' = {tm} /\ last' = {} /\ touched' = TimeRegs \cup {CTRL_REG2}
        /\ UNCHANGED session

\* main -s (setSystemFromRTC) and main without options (printRTCtime).
MainRead(print, junk) ==
    LET a == IF print THEN printRTCtime(Prologue(Bus), junk)
             ELSE setSystemFromRTC(Prologue(Bus), junk)
    IN  /\ session = "none"
        /\ Done(a.bus)
        /\ last' = {a.res} /\ touched' = {CTRL_REG2}
        /\ UNCHANGED <<session, expect>>

\* main -a: the oscillator adjustment.
MainA(x) ==
    /\ session = "none"
    /\ Done(rtcWriteBytes(Prologue(Bus), OSC_ADJ_REG, << AdjVal(x) >>))
    /\ touched' = {OSC_ADJ_REG, CTRL_REG2}
    /\ UNCHANGED <<session, expect, last>>

\* main -k: 32 kHz output on or off.
MainK(on) ==
    /\ session = "none"
    /\ Done(SetCtrl1Bit(Prologue(Bus), KHZ32_BIT, on))
    /\ touched' = {CTRL_REG1, CTRL_REG2}
    /\ UNCHANGED <<session, expect, last>>

\* main -m 12|24: read the time, flip AMPM_BIT, set the time again.  The
\* time is set only if readRTC returned OK.
MainM(h24, junk) ==
    LET a == readRTC(Prologue(Bus), junk)
        b == SetCtrl1Bit(a.bus, AMPM_BIT, h24)
    IN  /\ session = "none"
        /\ IF a.res.rtn # OK
           THEN Done(a.bus) /\ last' = {a.res} /\ touched' = {CTRL_REG2}
                /\ UNCHANGED expect
           ELSE Done(setRTC(b, a.res.tm)) /\ last' = {}
                /\ expect' = {a.res.tm}
                /\ touched' = TimeRegs \cup {CTRL_REG1, CTRL_REG2}
        /\ UNCHANGED session

\* main -i enters interactive(); menu item 0 returns from it.
MainI ==
    /\ session = "none"
    /\ Done(Prologue(Bus))
    /\ session' = "menu" /\ touched' = {CTRL_REG2}
    /\ UNCHANGED <<expect, last>>

MenuExit ==
    /\ session = "menu"
    /\ session' = "none" /\ touched' = {}
    /\ UNCHANGED <<pins, chip, expect, last>>

\* Items 1 (printRTCtime, with getHourMode) and 2 read the time; item 3
\* sets it from the system, item 4 from what the user types.
MenuRead(print, junk) ==
    LET a == IF print THEN printRTCtime(Bus, junk) ELSE setSystemFromRTC(Bus, junk)
    IN  /\ session = "menu"
        /\ Done(a.bus) /\ last' = {a.res} /\ touched' = {}
        /\ UNCHANGED <<session, expect>>

MenuSet(tm, junk) ==
    /\ session = "menu"
    /\ \/ Done(setRTC(readRTC(Bus, junk).bus, tm))   \* 3: setRTCfromSystem
       \/ Done(setRTC(Bus, tm))                      \* 4
    /\ expect' = {tm} /\ last' = {} /\ touched' = TimeRegs
    /\ UNCHANGED session

\* Item 5: setHourMode writes the whole of CTRL_REG1; the program then
\* tells the user to set the time again.
setHourMode(mode) ==
    /\ session = "menu"
    /\ Done(rtcWriteBytes(Bus, CTRL_REG1, << IF mode = 1 THEN AMPM_BIT ELSE 0 >>))
    /\ expect' = {} /\ touched' = {CTRL_REG1}
    /\ UNCHANGED <<session, last>>

\* Item 5 with no number typed: getHourMode, to print the mode.
MenuHourMode ==
    /\ session = "menu"
    /\ Done(getHourMode(Bus))
    /\ touched' = {}
    /\ UNCHANGED <<session, expect, last>>

\* Item 6: readRTCReg refuses only i > NumberOf(regNames), like item 7.
readRTCReg(i) ==
    /\ session = "menu"
    /\ i <= 16
    /\ Done(rtcReadBytes(Bus, i, 1))
    /\ touched' = {}
    /\ UNCHANGED <<session, expect, last>>

\* Item 7: writeRTCReg refuses only i > NumberOf(regNames) and val > 0xff.
writeRTCReg(i, val) ==
    /\ session = "menu"
    /\ i <= 16 /\ val <= 255
    /\ Done(rtcWriteBytes(Bus, i, << val >>))
    /\ expect' = IF i \in TimeRegs \cup {CTRL_REG1} THEN {} ELSE expect
    /\ touched' = {i}
    /\ UNCHANGED <<session, last>>

Next ==
    \/ \E tm \in Times, junk \in MdaysJunk : MainT(tm, junk) \/ MenuSet(tm, junk)
    \/ \E p \in BOOLEAN, junk \in MdaysJunk : MainRead(p, junk) \/ MainM(p, junk)
    \/ \E on \in BOOLEAN : MainK(on)
    \/ \E x \in OscAdjs : MainA(x)
    \/ MainI \/ MenuExit
    \/ \E p \in BOOLEAN, junk \in MdaysJunk : MenuRead(p, junk)
    \/ \E mode \in {0, 1} : setHourMode(mode)
    \/ MenuHourMode
    \/ \E i \in RegChoices : readRTCReg(i)
    \/ \E i \in RegChoices, val \in ValChoices : writeRTCReg(i, val)

Spec == Init /\ [][Next]_vars
\* What fromBcd of a byte, masked as readRTC masks it, can give.
TmType == [sec : 0..165, min : 0..165, hour : 0..165, mday : 0..165,
           mon : -1..18, wday : 0..7, year : 0..265]

TypeInv ==
    /\ pins \subseteq {RTC_MOSI, RTC_CLK, RTC_CE}
    /\ chip.phase \in {"idle", "fmt", "wr", "rd"}
    /\ chip.regs \in [Regs -> Bytes]
    /\ session \in {"none", "menu"}
    /\ Cardinality(expect) <= 1
    /\ last \subseteq [tm : TmType, rtn : {OK, ERROR}]
    /\ touched \subseteq 0..16

\* A time set with setRTC (by -t, -m or menu items 3 and 4) is the time
\* readRTC returns, with OK, as long as nothing wrote the time or mode
\* registers since: the format bytes, the bit order of rtcSendByte and of
\* the sampling loop in rtcReadBytes, the 12/24-hour and century encoding
\* of setRTC and its decoding in readRTC all have to agree.
RoundTrip ==
    \A e \in expect, r \in last : ValidTm(e) => r = [tm |-> e, rtn |-> OK]

\* A step writes only the registers its code means to write: reads
\* (rtcReadBytes of the time and of CTRL_REG1) never change a register,
\* and a write changes only the registers it addresses.
RegistersAsIntended ==
    [][\A r \in Regs : chip'.regs[r] # chip.regs[r] => r \in touched']_vars

\* readRTC returns OK only for a time whose fields are in range (the
\* range checks of ricohRTC.c 456-495, as the spec's validation on read
\* describes them).
ValidRead == \A r \in last : r.rtn = OK => ValidTm(r.tm)

====
