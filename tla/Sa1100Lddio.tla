---------------------------- MODULE Sa1100Lddio ----------------------------
(***************************************************************************)
(* The SA-1100 LDDIO character device, src/native/arm-linux/src/kernel/   *)
(* sa1100lddio.c: the GPIO command language over the LCD data pins (PPSR  *)
(* output levels, PPDR directions).  parseNextByte reads PPSR into PPSRo   *)
(* before it dispatches on the operator and writes PPSRo-based values      *)
(* back; the comment at line 264 notes that this read/mask/write is not    *)
(* atomic.  An operator byte is therefore two steps here, the read and    *)
(* the switch, and a writer outside the driver (ForeignWrite, an           *)
(* interrupt handler or another driver driving pins of the same port) may  *)
(* run between them.  Sessions do not interleave inside parseNextByte:    *)
(* the 2.4 kernel does not preempt a task running in the kernel.           *)
(***************************************************************************)
EXTENDS Naturals, FiniteSets, FiniteSetsExt

CONSTANTS
    Sessions,     \* open-file structures (model values)
    USERLDDIOS,   \* user-accessible LDDIO bits (12 in the code)
    MaskBits,     \* width of the unsigned mask (32 in the code)
    HexDigits,    \* hex digit bytes written ("0" .. "F")
    Ops,          \* other bytes written ("sp" whitespace, "bs" backslash)
    ReadCounts,   \* byte counts passed to read()
    ForeignPins,  \* port pins above USERLDDIOS driven by another agent
    MaxForeign    \* bound on the writes of that agent

AllBits == 0 .. MaskBits - 1
STENCIL == 0 .. USERLDDIOS - 1
VALSIZE == 10
InvalidOffset == 255
None == "none"

\* 'V' 'L' 'S' select the register the next reloads format.
ReadModeOf == [V |-> "direction", L |-> "levels", S |-> "stencil"]
\* The enum inputType, whose value an 'R' read reports.
ReadModeCode == [levels |-> 0, stencil |-> 1, direction |-> 2]

VARIABLES
    opened,       \* sessions whose file is open
    my,           \* my[s]: the session's lddioState
    PPSR,         \* port pin set register (output levels)
    PPDR,         \* port pin direction register
    busy,         \* the session between PPSRo = PPSR and the switch, or None
    PPSRo,        \* the local copy of PPSR that session took
    opByte,       \* the operator byte it is parsing
    foreignLevels,\* history: the levels the foreign agent last gave its pins
    foreignWrites \* number of foreign writes so far

vars == <<opened, my, PPSR, PPDR, busy, PPSRo, opByte, foreignLevels,
          foreignWrites>>

justOpened == [stencil |-> STENCIL, mask |-> {}, parser |-> "notDigit",
               readMode |-> "levels", getReadMode |-> 0, separator |-> "char",
               offset |-> InvalidOffset, len |-> 0, value |-> {}]

\* Only whether the separator byte is NUL matters to the buffer's strlen.
SeparatorOf(c) == IF c = "nul" THEN "nul" ELSE "char"

maskedStencil(s) == my[s].mask \cap my[s].stencil

HexChars == <<"0", "1", "2", "3", "4", "5", "6", "7",
              "8", "9", "A", "B", "C", "D", "E", "F">>
DigitValue(c) == CHOOSE i \in 0 .. 15 : HexChars[i + 1] = c
DigitBits(c) == {i \in 0 .. 3 : (DigitValue(c) \div 2 ^ i) % 2 = 1}
Shift4(m) == {i + 4 : i \in m} \cap AllBits

TypeInv ==
    /\ opened \subseteq Sessions
    /\ \A s \in Sessions :
         /\ my[s].stencil \subseteq STENCIL /\ my[s].mask \subseteq AllBits
         /\ my[s].parser \in {"notDigit", "inDigits", "awaitingSeparator"}
         /\ my[s].readMode \in DOMAIN ReadModeCode
         /\ my[s].getReadMode \in {0, 1}
         /\ my[s].offset \in 0 .. VALSIZE \cup {InvalidOffset}
    /\ PPSR \subseteq AllBits /\ PPDR \subseteq AllBits
    /\ busy \in Sessions \cup {None}
    /\ foreignWrites \in 0 .. MaxForeign

Init ==
    /\ opened = {}
    /\ my = [s \in Sessions |-> justOpened]
    \* the port as the boot loader and other drivers left it
    /\ PPSR \in SUBSET AllBits /\ PPDR \in SUBSET AllBits
    /\ busy = None /\ PPSRo = {} /\ opByte = "sp"
    /\ foreignLevels = PPSR \cap ForeignPins /\ foreignWrites = 0

-----------------------------------------------------------------------------
(* lddio_open: *MY = justOpened.  lddio_release: kfree(MY).               *)
lddio_open(s) ==
    /\ busy = None /\ s \notin opened
    /\ opened' = opened \cup {s}
    /\ my' = [my EXCEPT ![s] = justOpened]
    /\ UNCHANGED <<PPSR, PPDR, busy, PPSRo, opByte, foreignLevels, foreignWrites>>

lddio_release(s) ==
    /\ busy = None /\ s \in opened
    /\ opened' = opened \ {s}
    /\ my' = [my EXCEPT ![s] = justOpened]
    /\ UNCHANGED <<PPSR, PPDR, busy, PPSRo, opByte, foreignLevels, foreignWrites>>

(* parseNextByte, first part: the separator byte, a hex digit, or an       *)
(* operator, for which PPSR is read into PPSRo.                            *)
ParseByte(s, c) ==
    /\ busy = None /\ s \in opened
    /\ \/ /\ my[s].parser = "awaitingSeparator"
          /\ my' = [my EXCEPT ![s].separator = SeparatorOf(c),
                               ![s].parser = "notDigit"]
          /\ UNCHANGED <<busy, PPSRo, opByte>>
       \/ /\ my[s].parser # "awaitingSeparator" /\ c \in HexDigits
          /\ LET old == IF my[s].parser = "inDigits" THEN my[s].mask ELSE {}
             IN  my' = [my EXCEPT ![s].mask = Shift4(old) \cup DigitBits(c),
                                  ![s].parser = "inDigits"]
          /\ UNCHANGED <<busy, PPSRo, opByte>>
       \/ /\ my[s].parser # "awaitingSeparator" /\ c \notin HexDigits
          /\ busy' = s /\ PPSRo' = PPSR /\ opByte' = c
          /\ my' = [my EXCEPT ![s].parser = "notDigit"]
    /\ UNCHANGED <<opened, PPSR, PPDR, foreignLevels, foreignWrites>>

(* parseNextByte, the switch on the operator byte, with PPSRo the copy of  *)
(* PPSR taken in ParseByte and my[s].mask the mask accumulated before.     *)
\* '<': MY->stencil &= mask
NarrowStencil(s) == my[s].stencil \cap my[s].mask
SetBits(s) == PPSRo \cup maskedStencil(s)
ClearBits(s) == PPSRo \cap ((AllBits \ my[s].mask) \cup (AllBits \ my[s].stencil))
AssignBits(s) == (PPSRo \ my[s].stencil) \cup maskedStencil(s)

Operate(s, c) ==
    LET ms == maskedStencil(s) IN
    \/ /\ c \in DOMAIN ReadModeOf
       /\ my' = [my EXCEPT ![s].readMode = ReadModeOf[c], ![s].getReadMode = 0]
       /\ UNCHANGED <<PPSR, PPDR>>
    \/ c = "R" /\ my' = [my EXCEPT ![s].getReadMode = 1] /\ UNCHANGED <<PPSR, PPDR>>
    \/ c = "+" /\ PPSR' = SetBits(s) /\ UNCHANGED <<my, PPDR>>
    \/ c = "-" /\ PPSR' = ClearBits(s) /\ UNCHANGED <<my, PPDR>>
    \/ c = "=" /\ PPSR' = AssignBits(s) /\ UNCHANGED <<my, PPDR>>
    \/ /\ c = "<"
       /\ my' = [my EXCEPT ![s].stencil = NarrowStencil(s)]
       /\ UNCHANGED <<PPSR, PPDR>>
    \/ c = "I" /\ PPDR' = PPDR \ ms /\ UNCHANGED <<my, PPSR>>
    \/ c = "O" /\ PPDR' = PPDR \cup ms /\ UNCHANGED <<my, PPSR>>
    \/ c = ":" /\ PPDR' = ms /\ UNCHANGED <<my, PPSR>>
    \/ /\ c = "bs"
       /\ my' = [my EXCEPT ![s].parser = "awaitingSeparator"]
       /\ UNCHANGED <<PPSR, PPDR>>
    \* whitespace, and any other byte after a printk: no effect
    \/ c \notin DOMAIN ReadModeOf \cup {"R", "+", "-", "=", "<", "I", "O", ":", "bs"}
       /\ UNCHANGED <<my, PPSR, PPDR>>

FinishOperator ==
    /\ busy # None
    /\ Operate(busy, opByte)
    \* PPSRo and c are locals of parseNextByte: they end with it
    /\ busy' = None /\ PPSRo' = {} /\ opByte' = "sp"
    /\ UNCHANGED <<opened, foreignLevels, foreignWrites>>

(* Another agent changes one of the port pins outside the LDDIO stencil.    *)
ForeignWrite(p) ==
    /\ foreignWrites < MaxForeign
    /\ PPSR' = SymDiff(PPSR, {p})
    /\ foreignLevels' = PPSR' \cap ForeignPins
    /\ foreignWrites' = foreignWrites + 1
    /\ UNCHANGED <<opened, my, PPDR, busy, PPSRo, opByte>>

-----------------------------------------------------------------------------
(* reloadMyBuffer: the value for FORMAT "%07X%c": a pending 'R' reports    *)
(* readMode once; otherwise the stencil, all of PPSR, or PPDR.             *)
CodeBits(n) == {i \in 0 .. 1 : (n \div 2 ^ i) % 2 = 1}
ReloadValue(s) ==
    IF my[s].getReadMode = 1 THEN CodeBits(ReadModeCode[my[s].readMode])
    ELSE CASE my[s].readMode = "stencil" -> my[s].stencil
           [] my[s].readMode = "levels"  -> PPSR
           [] my[s].readMode = "direction" -> PPDR
\* Hex digits printed: at least 7, more for a value at or above 2^28.
HexWidth(v) == Max({7} \cup {b \div 4 + 1 : b \in v})
\* strlen of the buffer: a NUL separator ends the string one byte early.
BufferLen(s, v) == HexWidth(v) + (IF my[s].separator = "nul" THEN 0 ELSE 1)

(* lddio_read(count = n): reload when offset is invalid or at the NUL,     *)
(* then copy min(n, len) bytes and advance offset.  sprintf's result       *)
(* counts the separator even when it is NUL.                               *)
lddio_read(s, n) ==
    /\ busy = None /\ s \in opened
    /\ IF my[s].offset = InvalidOffset \/ my[s].offset >= my[s].len
       THEN LET v == ReloadValue(s)
                lim == Min({n, HexWidth(v) + 1})
            IN  my' = [my EXCEPT ![s].offset = lim, ![s].len = BufferLen(s, v),
                                 ![s].value = v,
                                 ![s].getReadMode = 0]
       ELSE my' = [my EXCEPT ![s].offset =
                               my[s].offset + Min({n, my[s].len - my[s].offset})]
    /\ UNCHANGED <<opened, PPSR, PPDR, busy, PPSRo, opByte, foreignLevels,
                   foreignWrites>>

Next ==
    \/ \E s \in Sessions : lddio_open(s) \/ lddio_release(s)
    \/ \E s \in Sessions, c \in HexDigits \cup Ops : ParseByte(s, c)
    \/ FinishOperator
    \/ \E p \in ForeignPins : ForeignWrite(p)
    \/ \E s \in Sessions, n \in ReadCounts : lddio_read(s, n)

Spec == Init /\ [][Next]_vars

-----------------------------------------------------------------------------
(* Properties.                                                             *)

(* The header's promise (sa1100lddio.c:32): "Only bits set in the stencil *)
(* can be modified".  An operator of one session (the switch in            *)
(* parseNextByte) changes PPDR only inside that session's stencil and,     *)
(* outside it, either leaves PPSR alone or writes back what it read into   *)
(* PPSRo (the comment at line 264 leaves a change between the read and the *)
(* write-back to the user); '<' only narrows the stencil.                  *)
StencilConfinement ==
    [][busy # None /\ busy' = None =>
         LET outside == AllBits \ my[busy].stencil IN
         /\ PPSR' \cap outside \in {PPSR \cap outside, PPSRo \cap outside}
         /\ PPDR' \cap outside = PPDR \cap outside
         /\ my'[busy].stencil \subseteq my[busy].stencil]_vars

(* A level the other agent gave one of its pins stays on the pin until that *)
(* agent changes it again: parseNextByte's '+', '-' and '=' write back     *)
(* PPSRo, read before the switch, at every bit outside the masked stencil. *)
ForeignPinsKept == PPSR \cap ForeignPins = foreignLevels

=============================================================================
