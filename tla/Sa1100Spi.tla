----------------------------- MODULE Sa1100Spi -----------------------------
(***************************************************************************)
(* The SA-1100 SPI character device, src/native/arm-linux/src/kernel/     *)
(* sa1100spi.c.  Every session writes {mask}<operator> commands that       *)
(* configure the SSP unit (clock, loopback, phase, polarity, pin routing,  *)
(* word width) or clock a word out with '='; writeSPI leaves the word      *)
(* received in the globals word and wordValid, shared by all sessions, and *)
(* wakes spiWaitQ.  A read takes the word when wordValid is set, and       *)
(* otherwise fails (O_NONBLOCK), fails on a signal, or sleeps with         *)
(* interruptible_sleep_on and tries again.  The 2.4 kernel does not preempt *)
(* kernel code and writeSPI runs in process context, so each command and   *)
(* each check of wordValid is one step.                                    *)
(*                                                                         *)
(* A received word is identified by the number of the '=' that clocked it; *)
(* its bits are not modelled.  A mask is written as one token from Masks:  *)
(* parseNextByte's digit accumulation only changes the session's own mask. *)
(***************************************************************************)
EXTENDS Naturals, FiniteSets, FiniteSetsExt

CONSTANTS
    Sessions,    \* open-file structures (model values)
    Masks,       \* mask values written before an operator
    Ops,         \* operator bytes written ("sp" whitespace, "bs" backslash)
    ReadCounts,  \* byte counts passed to read()
    MaxOutputs,  \* bound on the words clocked out with '='
    BootGPDR,    \* GPIO directions the boot loader may leave
    MaxConfigs   \* bound on the configuration commands (all but '=')

InvalidOffset == 255
\* GPIOs the driver touches: 10..13 are the SSP pins, 19 the external clock;
\* 0 and 28 are pins it must leave alone.
SspPins == 10 .. 13
GpioPins == {0, 19, 28} \cup SspPins
\* "%X%c" prints one to eight hex digits of the received word.
WordDigits == {1, 8}

VARIABLES
    opened, my,                  \* sessions and their spiState
    SSCR0,                       \* [scr, dss, sse]: divisor - 1, width - 1, enable
    SSCR1,                       \* set flags among ECS, LBM, SP, SPO
    GPDR, GAFR,                  \* GPIO direction and alternate function
    PPAR_SPR,                    \* SSP reassigned to GPIOs 10..13
    MCCR0_MCE,                   \* MCP enable
    word, wordValid,             \* the last word received, not yet read
    outputs,                     \* number of '=' so far
    configs,                     \* number of 'S' 'L' 'P' 'I' 'G' 'W' so far
    rd, nonBlock, readCount,     \* read in progress: phase, O_NONBLOCK, count
    task, spiWaitQ, sigPending,  \* the reader's task state, the wait queue
    takes                        \* history: reloads that took each word

vars == <<opened, my, SSCR0, SSCR1, GPDR, GAFR, PPAR_SPR, MCCR0_MCE, word,
          wordValid, outputs, configs, rd, nonBlock, readCount, task, spiWaitQ,
          sigPending, takes>>
hw == <<SSCR0, SSCR1, GPDR, GAFR, PPAR_SPR, MCCR0_MCE>>
regs == <<hw, configs>>
waitVars == <<rd, nonBlock, readCount, task, spiWaitQ, sigPending>>

justOpened == [mask |-> 0, parser |-> "notDigit", separator |-> "char",
               offset |-> InvalidOffset, len |-> 0]

TypeInv ==
    /\ opened \subseteq Sessions
    /\ \A s \in Sessions :
         /\ my[s].mask \in Masks \cup {0}
         /\ my[s].parser \in {"notDigit", "inDigits", "awaitingSeparator"}
         /\ my[s].offset \in 0 .. 9 \cup {InvalidOffset}
    /\ SSCR0 \in [scr : 0 .. 255, dss : 0 .. 15, sse : BOOLEAN]
    /\ SSCR1 \subseteq {"ECS", "LBM", "SP", "SPO"}
    /\ GPDR \subseteq GpioPins /\ GAFR \subseteq GpioPins
    /\ word \in 0 .. MaxOutputs /\ wordValid \in BOOLEAN
    /\ outputs \in 0 .. MaxOutputs /\ configs \in 0 .. MaxConfigs
    /\ rd \in [Sessions -> {"idle", "check", "sleep"}]
    /\ task \in [Sessions -> {"TASK_RUNNING", "TASK_INTERRUPTIBLE"}]
    /\ spiWaitQ \subseteq Sessions /\ sigPending \subseteq Sessions
    /\ takes \in [1 .. MaxOutputs -> Nat]

Init ==
    /\ opened = {} /\ my = [s \in Sessions |-> justOpened]
    /\ SSCR0 = [scr |-> 0, dss |-> 0, sse |-> FALSE]
    /\ SSCR1 = {}                               \* sa1100SPI_init
    /\ GPDR \in BootGPDR /\ GAFR = {}
    /\ PPAR_SPR = FALSE /\ MCCR0_MCE = TRUE  \* the MCP driver's setting
    /\ word = 0 /\ wordValid = FALSE /\ outputs = 0 /\ configs = 0
    /\ rd = [s \in Sessions |-> "idle"] /\ nonBlock = [s \in Sessions |-> FALSE]
    /\ readCount = [s \in Sessions |-> 0]
    /\ task = [s \in Sessions |-> "TASK_RUNNING"]
    /\ spiWaitQ = {} /\ sigPending = {}
    /\ takes = [k \in 1 .. MaxOutputs |-> 0]

-----------------------------------------------------------------------------
(* spi_open: *MY = justOpened.  spi_release: kfree(MY).                   *)
spi_open(s) ==
    /\ s \notin opened
    /\ opened' = opened \cup {s} /\ my' = [my EXCEPT ![s] = justOpened]
    /\ UNCHANGED <<regs, word, wordValid, outputs, waitVars, takes>>

spi_release(s) ==
    /\ s \in opened /\ rd[s] = "idle"
    /\ opened' = opened \ {s} /\ my' = [my EXCEPT ![s] = justOpened]
    /\ UNCHANGED <<regs, word, wordValid, outputs, waitVars, takes>>

(* parseNextByte: the byte after '\' is the separator; only whether it is  *)
(* NUL matters to the buffer's strlen.                                     *)
ParseSeparator(s, c) ==
    /\ s \in opened /\ rd[s] = "idle" /\ my[s].parser = "awaitingSeparator"
    /\ my' = [my EXCEPT ![s].separator = IF c = "nul" THEN "nul" ELSE "char",
                        ![s].parser = "notDigit"]
    /\ UNCHANGED <<opened, regs, word, wordValid, outputs, waitVars, takes>>

(* parseNextByte on the hex digits of m: mask = m, parser = inDigits.      *)
WriteMask(s, m) ==
    /\ s \in opened /\ rd[s] = "idle" /\ my[s].parser = "notDigit"
    /\ my' = [my EXCEPT ![s].mask = m, ![s].parser = "inDigits"]
    /\ UNCHANGED <<opened, regs, word, wordValid, outputs, waitVars, takes>>

(* 'S': a divisor of 0 selects the external clock on GPIO19, 1..256 sets   *)
(* the divisor and keeps the data size, more is ignored.                   *)
SetClock(m) ==
    IF m > 256 THEN UNCHANGED hw
    ELSE IF m = 0
    THEN /\ GPDR' = GPDR \ {19} /\ GAFR' = GAFR \cup {19}
         /\ SSCR1' = SSCR1 \cup {"ECS"}
         /\ UNCHANGED <<SSCR0, PPAR_SPR, MCCR0_MCE>>
    ELSE /\ SSCR0' = [scr |-> m - 1, dss |-> SSCR0.dss, sse |-> TRUE]
         /\ SSCR1' = SSCR1 \ {"ECS"} /\ GAFR' = GAFR \ {19}
         /\ UNCHANGED <<GPDR, PPAR_SPR, MCCR0_MCE>>

(* 'L', 'P', 'I': set the SSCR1 flag when the mask is not zero, else clear. *)
SetFlag(f, m) ==
    /\ SSCR1' = IF m # 0 THEN SSCR1 \cup {f} ELSE SSCR1 \ {f}
    /\ UNCHANGED <<SSCR0, GPDR, GAFR, PPAR_SPR, MCCR0_MCE>>

(* 'G': route the SSP to GPIOs 10..13, or hand the pins back.  As written,  *)
(* GPDR &= ~(1<11) clears bit 0, not bit 11, and MCCR0 &= MCCR0_MCE keeps   *)
(* the MCP enable bit as it is.                                            *)
RouteToGpio(m) ==
    IF m # 0
    THEN /\ GPDR' = (GPDR \cup (SspPins \ {11})) \ {0, 28}
         /\ GAFR' = GAFR \cup SspPins /\ PPAR_SPR' = TRUE
         /\ UNCHANGED <<SSCR0, SSCR1, MCCR0_MCE>>
    ELSE /\ PPAR_SPR' = FALSE
         /\ UNCHANGED <<SSCR0, SSCR1, GPDR, GAFR, MCCR0_MCE>>

(* 'W': an even width of 8..32 bits sets the data size to half of it (two  *)
(* transfers per word) and keeps the divisor; any other is ignored.        *)
SetWidth_unchecked(m) ==
    /\ SSCR0' = [scr |-> SSCR0.scr, dss |-> m \div 2 - 1, sse |-> TRUE]
    /\ UNCHANGED <<SSCR1, GPDR, GAFR, PPAR_SPR, MCCR0_MCE>>
SetWidth(m) ==
    IF m % 2 = 1 \/ m > 32 \/ m < 8 THEN UNCHANGED hw
    ELSE /\ SSCR0' = [scr |-> SSCR0.scr, dss |-> m \div 2 - 1, sse |-> TRUE]
         /\ UNCHANGED <<SSCR1, GPDR, GAFR, PPAR_SPR, MCCR0_MCE>>

(* writeSPI: clock the word out and in, publish it and wake the readers.   *)
writeSPI_noWake ==
    /\ outputs < MaxOutputs
    /\ outputs' = outputs + 1 /\ word' = outputs + 1 /\ wordValid' = TRUE
    /\ UNCHANGED task
writeSPI_noValid ==
    /\ outputs < MaxOutputs
    /\ outputs' = outputs + 1 /\ word' = outputs + 1 /\ UNCHANGED wordValid
    /\ task' = [t \in Sessions |-> IF t \in spiWaitQ THEN "TASK_RUNNING" ELSE task[t]]
writeSPI ==
    /\ outputs < MaxOutputs
    /\ outputs' = outputs + 1 /\ word' = outputs + 1 /\ wordValid' = TRUE
    \* wake_up: every task on spiWaitQ becomes runnable
    /\ task' = [t \in Sessions |-> IF t \in spiWaitQ THEN "TASK_RUNNING" ELSE task[t]]

(* parseNextByte on an operator byte c, with mask = MY->mask.              *)
ParseOp(s, c) ==
    LET m == my[s].mask IN
    /\ s \in opened /\ rd[s] = "idle" /\ my[s].parser # "awaitingSeparator"
    /\ my' = [my EXCEPT ![s].parser =
                          IF c = "bs" THEN "awaitingSeparator" ELSE "notDigit"]
    /\ c \in {"S", "L", "P", "I", "G", "W"} =>
          configs < MaxConfigs /\ configs' = configs + 1
    /\ \/ c = "S" /\ SetClock(m) /\ UNCHANGED <<word, wordValid, outputs, task>>
       \/ c = "L" /\ SetFlag("LBM", m) /\ UNCHANGED <<word, wordValid, outputs, task>>
       \/ c = "P" /\ SetFlag("SP", m) /\ UNCHANGED <<word, wordValid, outputs, task>>
       \/ c = "I" /\ SetFlag("SPO", m) /\ UNCHANGED <<word, wordValid, outputs, task>>
       \/ c = "G" /\ RouteToGpio(m) /\ UNCHANGED <<word, wordValid, outputs, task>>
       \/ c = "W" /\ SetWidth(m) /\ UNCHANGED <<word, wordValid, outputs, task>>
       \/ c = "=" /\ writeSPI /\ UNCHANGED regs
       \* '\', whitespace, and unknown bytes (after a printk)
       \/ c \notin {"S", "L", "P", "I", "G", "W", "="}
          /\ UNCHANGED <<regs, word, wordValid, outputs, task>>
    /\ UNCHANGED <<opened, rd, nonBlock, readCount, spiWaitQ, sigPending, takes>>

-----------------------------------------------------------------------------
(* spi_read(count = n): with the buffer exhausted (offset invalid or at the *)
(* NUL) offset becomes 0 and reloadMyBuffer runs; otherwise the rest of    *)
(* the buffer is copied, at most n bytes.                                  *)
spi_read(s, n, nb) ==
    /\ s \in opened /\ rd[s] = "idle"
    /\ IF my[s].offset = InvalidOffset \/ my[s].offset >= my[s].len
       THEN /\ my' = [my EXCEPT ![s].offset = 0]
            /\ rd' = [rd EXCEPT ![s] = "check"]
            /\ nonBlock' = [nonBlock EXCEPT ![s] = nb]
            /\ readCount' = [readCount EXCEPT ![s] = n]
       ELSE /\ my' = [my EXCEPT ![s].offset =
                        my[s].offset + Min({n, my[s].len - my[s].offset})]
            /\ UNCHANGED <<rd, nonBlock, readCount>>
    /\ UNCHANGED <<opened, regs, word, wordValid, outputs, task, spiWaitQ,
                   sigPending, takes>>

(* reloadMyBuffer with wordValid set: clear it, sprintf the word, and      *)
(* spi_read copies min(count, sprintf's result) bytes.                     *)
TakeWord(s) ==
    /\ wordValid' = FALSE
    /\ takes' = [takes EXCEPT ![word] = @ + 1]
    /\ \E d \in WordDigits :
         my' = [my EXCEPT ![s].offset = Min({readCount[s], d + 1}),
                          ![s].len = d + (IF my[s].separator = "nul" THEN 0 ELSE 1)]

\* spi_read returns: its arguments are gone.
Return(s) ==
    /\ rd' = [rd EXCEPT ![s] = "idle"]
    /\ nonBlock' = [nonBlock EXCEPT ![s] = FALSE]
    /\ readCount' = [readCount EXCEPT ![s] = 0]

(* One pass of reloadMyBuffer's for(;;): take the word; else return       *)
(* -EAGAIN or -ERESTARTSYS (offset stays 0); else interruptible_sleep_on   *)
(* sets TASK_INTERRUPTIBLE, queues the task and calls schedule().          *)
ReloadCheck(s) ==
    /\ rd[s] = "check"
    /\ \/ /\ wordValid /\ TakeWord(s) /\ Return(s)
          /\ UNCHANGED <<task, spiWaitQ, sigPending>>
       \/ /\ ~wordValid /\ nonBlock[s] /\ Return(s)
          /\ UNCHANGED <<my, wordValid, takes, task, spiWaitQ, sigPending>>
       \/ /\ ~wordValid /\ ~nonBlock[s] /\ s \in sigPending
          \* the signal is handled on the way back to user space
          /\ Return(s) /\ sigPending' = sigPending \ {s}
          /\ UNCHANGED <<my, wordValid, takes, task, spiWaitQ>>
       \/ /\ ~wordValid /\ ~nonBlock[s] /\ s \notin sigPending
          /\ rd' = [rd EXCEPT ![s] = "sleep"]
          /\ task' = [task EXCEPT ![s] = "TASK_INTERRUPTIBLE"]
          /\ spiWaitQ' = spiWaitQ \cup {s}
          /\ UNCHANGED <<my, wordValid, takes, sigPending, nonBlock, readCount>>
    /\ UNCHANGED <<opened, regs, word, outputs>>

(* schedule() returns to a task that was woken, or that has a signal      *)
(* pending (2.4 schedule() keeps such a task running); sleep_on then       *)
(* removes it from spiWaitQ and the loop checks again.                     *)
Wake(s) ==
    /\ rd[s] = "sleep" /\ (task[s] = "TASK_RUNNING" \/ s \in sigPending)
    /\ rd' = [rd EXCEPT ![s] = "check"]
    /\ task' = [task EXCEPT ![s] = "TASK_RUNNING"]
    /\ spiWaitQ' = spiWaitQ \ {s}
    /\ UNCHANGED <<opened, my, regs, word, wordValid, outputs, nonBlock,
                   readCount, sigPending, takes>>

(* A signal for a task inside spi_read.                                    *)
Signal(s) ==
    /\ rd[s] # "idle" /\ s \notin sigPending
    /\ sigPending' = sigPending \cup {s}
    /\ UNCHANGED <<opened, my, regs, word, wordValid, outputs, configs, rd, nonBlock,
                   readCount, task, spiWaitQ, takes>>

Next ==
    \/ \E s \in Sessions :
         \/ spi_open(s) \/ spi_release(s) \/ ReloadCheck(s) \/ Wake(s) \/ Signal(s)
         \/ \E c \in Ops : ParseSeparator(s, c) \/ ParseOp(s, c)
         \/ \E m \in Masks : WriteMask(s, m)
         \/ \E n \in ReadCounts, nb \in BOOLEAN : spi_read(s, n, nb)

(* The scheduler runs every runnable task: a reader inside spi_read keeps  *)
(* checking and returns from schedule() once it is runnable.               *)
Fairness == \A s \in Sessions : WF_vars(ReloadCheck(s)) /\ WF_vars(Wake(s))

Spec == Init /\ [][Next]_vars /\ Fairness

-----------------------------------------------------------------------------
(* Properties.                                                             *)

(* A reader waiting in reloadMyBuffer's loop does not sleep through a      *)
(* valid word: once wordValid is set while it reads, the word is taken or  *)
(* the reader returns.  This is the lost wakeup interruptible_sleep_on is  *)
(* known for, avoided here because writeSPI runs in process context.      *)
WaitedWordTaken ==
    \A s \in Sessions :
        (wordValid /\ rd[s] # "idle") ~> (~wordValid \/ rd[s] = "idle")

(* The driver implements SpiWordSlot: wordValid and word are the slot,     *)
(* outputs counts the words received and a word is got once some read has  *)
(* taken it.  Every writeSPI is a Publish, every reloadMyBuffer that finds *)
(* wordValid a Take, and every other step, of any session, leaves the slot *)
(* alone: no read takes a word twice or takes one without clearing it.    *)
Slot == INSTANCE SpiWordSlot WITH
            slot <- IF wordValid THEN word ELSE 0,
            sent <- outputs,
            got  <- {k \in 1 .. MaxOutputs : takes[k] > 0}
WordSlotRefined == Slot!Spec
=============================================================================
