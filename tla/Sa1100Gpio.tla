----------------------------- MODULE Sa1100Gpio -----------------------------
(***************************************************************************)
(* The SA-1100 GPIO character device, src/native/arm-linux/src/kernel/     *)
(* sa1100gpio.c.  Every open file is a session with a private gpioState   *)
(* (stencil, accumulated mask, parser state, read mode, separator and the  *)
(* formatted read buffer, plus a snapshot of the global edge counters).    *)
(* The sessions share the GPIO registers, the per-bit edge tallies that    *)
(* the interrupt handler bumps, and the wait queue gpioWaitQ on which      *)
(* blocking readers sleep.                                                 *)
(*                                                                         *)
(* Bit masks are sets of bit numbers: & is \cap, | is \cup, x & ~m is x\m. *)
(* Each session is driven by one task; a write is modelled one byte at a   *)
(* time (a one-byte write() is a legal call, so every interleaving of      *)
(* bytes here is one a user program can produce).                         *)
(***************************************************************************)
EXTENDS Naturals, Integers, FiniteSets, FiniteSetsExt

CONSTANTS
    Sessions,     \* the open-file structures (model values)
    USERGPIOS,    \* number of user-accessible GPIO bits (16 in the code)
    MaskBits,     \* width of the unsigned mask and tally (32 in the code)
    CountBits,    \* width of the unsigned short edge counters (16)
    Workloads,    \* the byte sets one run lets the sessions write: records
                  \* [digits, ops] of hex digit bytes ("0" .. "F") and of the
                  \* other bytes (upper case; "sp" is whitespace, "nul" the
                  \* NUL byte, "bs" the backslash)
    ReadCounts,   \* the byte counts passed to read()
    KernelPins,   \* pins above USERGPIOS the kernel drives as outputs
    InputHigh,    \* input pins held high by the outside world
    MaxEdges      \* bound on the number of edge interrupts in a behaviour

AllBits == 0 .. MaskBits - 1
STENCIL == 0 .. USERGPIOS - 1            \* (1<<USERGPIOS)-1
VALSIZE == 10
InvalidOffset == 255                     \* unsigned char offset = -1
CountMod == 2 ^ CountBits

\* The letters that select the value of the next read (parseNextByte).
ReadModeOf == [P |-> "counts", Q |-> "nonblockingEdges",
               W |-> "blockingEdges", L |-> "levels", S |-> "stencil"]

VARIABLES
    opened,       \* sessions whose file is open
    my,           \* my[s]: the session's gpioState (MY)
    edgeCount,    \* edgeInterrupt[b].count
    installed,    \* {b : edgeInterrupt[b].installed = 1}
    latch,        \* output latch written through GPSR / GPCR
    GPDR,         \* pin direction register (1 = output)
    GAFR,         \* alternate function register
    rd,           \* where the session's task is inside gpio_read
    readReq,      \* the count argument of the read in progress
    task,         \* current->state of the session's task
    gpioWaitQ,    \* the tasks queued on gpioWaitQ
    sigPending,   \* tasks with a signal pending
    \* history variables, not in the code
    pendingTrue,  \* pendingTrue[s][b]: edges on b not yet consumed by s
    edgeWanted,   \* bits on which s asked for edges and got a handler
    delivered,    \* the whole buffer of s has been copied to the user
    lastReturn,   \* what the last read of s returned
    written,      \* bytes the last sprintf wrote into MY->buffer, NUL included
    edges,        \* number of edge interrupts so far
    load          \* the workload of this behaviour, chosen once

stateVars == <<opened, my, edgeCount, installed, latch, GPDR, GAFR, rd,
               readReq, task, gpioWaitQ, sigPending, pendingTrue, edgeWanted,
               delivered, lastReturn, written, edges>>
vars == <<stateVars, load>>

\* The bytes the sessions write in this behaviour.
HexDigits == load.digits
Ops == load.ops

pinVars  == <<latch, GPDR, GAFR>>
edgeVars == <<edgeCount, installed, edgeWanted, pendingTrue, edges>>
readVars == <<rd, readReq, task, gpioWaitQ, sigPending, delivered, lastReturn,
              written>>

\* The static initializer justOpened; the rest of the buffer is zero.
justOpened == [stencil |-> STENCIL, mask |-> {}, parser |-> "notDigit",
               readMode |-> "levels", separator |-> "nl",
               offset |-> InvalidOffset, len |-> 0, value |-> {},
               count |-> [b \in STENCIL |-> 0]]

maskedStencil(s) == my[s].mask \cap my[s].stencil

\* Input levels: outputs read back their latch, inputs the outside world.
GPLR == (latch \cap GPDR) \cup (InputHigh \ GPDR)

\* c - '0' or c + 10 - 'A' for a hex digit byte, the bits of that value,
\* and mask <<= 4 on an unsigned of MaskBits.
HexChars == <<"0", "1", "2", "3", "4", "5", "6", "7",
              "8", "9", "A", "B", "C", "D", "E", "F">>
DigitValue(c) == CHOOSE i \in 0 .. 15 : HexChars[i + 1] = c
DigitBits(c) == {i \in 0 .. 3 : (DigitValue(c) \div 2 ^ i) % 2 = 1}
Shift4(m) == {i + 4 : i \in m} \cap AllBits

pendingEvents(s, bits) == {b \in bits : my[s].count[b] # edgeCount[b]}

\* The int sum of unsigned-short differences, and its unsigned image.
SignedTally(s, bits) ==
    MapThenSumSet(LAMBDA b : edgeCount[b] - my[s].count[b], bits)
eventTally(s, bits) == SignedTally(s, bits) % (2 ^ MaskBits)

\* The value reloadMyBuffer formats for the current read mode; the
\* stencil mode has no case of its own and falls into default: levels.
ReadValue(s) ==
    CASE my[s].readMode = "counts" -> eventTally(s, maskedStencil(s))
      [] my[s].readMode \in {"nonblockingEdges", "blockingEdges"}
            -> pendingEvents(s, maskedStencil(s))
      [] OTHER -> GPLR \cap maskedStencil(s)

\* sprintf(FORMAT): "%07X" is 8 digits only when the tally went negative.
HexWidth(s) ==
    IF my[s].readMode = "counts" /\ SignedTally(s, maskedStencil(s)) < 0
    THEN 8 ELSE 7

TypeInv ==
    /\ load \in Workloads
    /\ opened \subseteq Sessions
    /\ \A s \in Sessions :
         /\ my[s].stencil \subseteq STENCIL
         /\ my[s].mask \subseteq AllBits
         /\ my[s].parser \in {"notDigit", "inDigits", "awaitingSeparator"}
         /\ my[s].readMode \in {"levels", "nonblockingEdges",
                                "blockingEdges", "stencil", "counts"}
         /\ my[s].separator \in HexDigits \cup Ops \cup {"nl"}
         /\ my[s].offset \in 0 .. VALSIZE \cup {InvalidOffset}
         /\ my[s].len \in 0 .. VALSIZE - 1
         /\ my[s].count \in [STENCIL -> 0 .. CountMod - 1]
         /\ pendingTrue[s] \in [STENCIL -> 0 .. MaxEdges]
         /\ edgeWanted[s] \subseteq STENCIL
    /\ edgeCount \in [STENCIL -> 0 .. CountMod - 1]
    /\ installed \subseteq STENCIL
    /\ {latch, GPDR, GAFR} \subseteq SUBSET AllBits
    /\ rd \in [Sessions -> {"idle", "enqueue", "loop", "sched"}]
    /\ task \in [Sessions -> {"TASK_RUNNING", "TASK_INTERRUPTIBLE"}]
    /\ gpioWaitQ \subseteq Sessions /\ sigPending \subseteq Sessions
    /\ lastReturn \in [Sessions -> {"none", "data", "stale", "EAGAIN",
                                    "ERESTARTSYS"}]
    /\ written \in [Sessions -> 0 .. VALSIZE + 1]
    /\ edges \in 0 .. MaxEdges

Init ==
    /\ opened = {}
    /\ my = [s \in Sessions |-> justOpened]
    /\ edgeCount = [b \in STENCIL |-> 0]
    /\ installed = {}
    /\ latch = KernelPins /\ GPDR = KernelPins /\ GAFR = {}
    /\ rd = [s \in Sessions |-> "idle"]
    /\ readReq = [s \in Sessions |-> 0]
    /\ task = [s \in Sessions |-> "TASK_RUNNING"]
    /\ gpioWaitQ = {} /\ sigPending = {}
    /\ pendingTrue = [s \in Sessions |-> [b \in STENCIL |-> 0]]
    /\ edgeWanted = [s \in Sessions |-> {}]
    /\ delivered = [s \in Sessions |-> FALSE]
    /\ lastReturn = [s \in Sessions |-> "none"]
    /\ written = [s \in Sessions |-> 0]
    /\ edges = 0
    /\ load \in Workloads

-----------------------------------------------------------------------------
(* gpio_open: *MY = justOpened, then purgeEvents(file, STENCIL).  The      *)
(* kmalloc failure path returns -ENOMEM with nothing changed.              *)
gpio_open(s) ==
    /\ s \notin opened
    /\ opened' = opened \cup {s}
    /\ my' = [my EXCEPT ![s] = [justOpened EXCEPT !.count = edgeCount]]
    /\ pendingTrue' = [pendingTrue EXCEPT ![s] = [b \in STENCIL |-> 0]]
    /\ UNCHANGED <<pinVars, edgeCount, installed, edgeWanted, edges, readVars>>

(* gpio_release: kfree(MY).  The handlers the session installed stay.      *)
(* The last close cannot run while the session's task is inside read().    *)
gpio_release(s) ==
    /\ s \in opened /\ rd[s] = "idle"
    /\ opened' = opened \ {s}
    /\ my' = [my EXCEPT ![s] = justOpened]
    /\ pendingTrue' = [pendingTrue EXCEPT ![s] = [b \in STENCIL |-> 0]]
    /\ edgeWanted' = [edgeWanted EXCEPT ![s] = {}]
    /\ delivered' = [delivered EXCEPT ![s] = FALSE]
    /\ lastReturn' = [lastReturn EXCEPT ![s] = "none"]
    /\ written' = [written EXCEPT ![s] = 0]
    /\ UNCHANGED <<pinVars, edgeCount, installed, edges, rd, readReq, task,
                   gpioWaitQ, sigPending>>

\* Seeded fault: the unsigned short counter does not wrap.
sa1100_gpio_handler_noWrap(b) ==
    /\ b \in installed /\ edges < MaxEdges
    /\ edgeCount' = [edgeCount EXCEPT ![b] = @ + 1]
    /\ task' = [t \in Sessions |->
                  IF t \in gpioWaitQ THEN "TASK_RUNNING" ELSE task[t]]
    /\ pendingTrue' = [s \in Sessions |->
                         IF s \in opened
                         THEN [pendingTrue[s] EXCEPT ![b] = @ + 1]
                         ELSE pendingTrue[s]]
    /\ edges' = edges + 1
    /\ UNCHANGED <<opened, my, installed, edgeWanted, pinVars, rd, readReq,
                   gpioWaitQ, sigPending, delivered, lastReturn, written>>

(* sa1100_gpio_handler: edge->count++ and wake_up_interruptible, which     *)
(* makes every task on gpioWaitQ runnable.  Only a bit with a handler      *)
(* installed raises the interrupt.                                        *)
sa1100_gpio_handler(b) ==
    /\ b \in installed /\ edges < MaxEdges
    /\ edgeCount' = [edgeCount EXCEPT ![b] = (@ + 1) % CountMod]
    /\ task' = [t \in Sessions |->
                  IF t \in gpioWaitQ THEN "TASK_RUNNING" ELSE task[t]]
    /\ pendingTrue' = [s \in Sessions |->
                         IF s \in opened
                         THEN [pendingTrue[s] EXCEPT ![b] = @ + 1]
                         ELSE pendingTrue[s]]
    /\ edges' = edges + 1
    /\ UNCHANGED <<opened, my, installed, edgeWanted, pinVars, rd, readReq,
                   gpioWaitQ, sigPending, delivered, lastReturn, written>>

-----------------------------------------------------------------------------
(* parseNextByte.  A hex digit resets the mask unless the parser is        *)
(* already inDigits, then shifts it in; every other byte first sets the    *)
(* parser to notDigit, then dispatches on the operator.  In the operator   *)
(* actions below m is the session's state with that parser update done.   *)

ParseDigit(s, d) ==
    LET old == IF my[s].parser = "inDigits" THEN my[s].mask ELSE {}
    IN  my' = [my EXCEPT ![s].mask = Shift4(old) \cup DigitBits(d),
                         ![s].parser = "inDigits"]

NotDigit(s) == [my[s] EXCEPT !.parser = "notDigit"]

\* 'P' 'Q' 'W' 'L' 'S': select what the next reload formats.
SelectReadMode(s, c) ==
    /\ c \in DOMAIN ReadModeOf
    /\ my' = [my EXCEPT ![s] = [NotDigit(s) EXCEPT !.readMode = ReadModeOf[c]]]
    /\ UNCHANGED <<pinVars, edgeVars>>

\* '+': GPSR = maskedStencil.   '-': GPCR = maskedStencil.
GPSR_write(s) ==
    /\ latch' = latch \cup maskedStencil(s)
    /\ UNCHANGED <<GPDR, GAFR>>
GPCR_write(s) ==
    /\ latch' = latch \ maskedStencil(s)
    /\ UNCHANGED <<GPDR, GAFR>>

\* Seeded fault: GPCR = ~mask, without the stencil.
AssignOutputs_noStencil(s) ==
    /\ latch' = (latch \ (AllBits \ my[s].mask)) \cup maskedStencil(s)
    /\ UNCHANGED <<GPDR, GAFR>>

\* '=': GPCR = ~mask & stencil; GPSR = maskedStencil.
AssignOutputs(s) ==
    /\ latch' = (latch \ (my[s].stencil \ my[s].mask)) \cup maskedStencil(s)
    /\ UNCHANGED <<GPDR, GAFR>>

\* '@': GAFR |= maskedStencil.   '$': GAFR &= ~maskedStencil.
AltFunction(s) ==
    /\ GAFR' = GAFR \cup maskedStencil(s)
    /\ UNCHANGED <<latch, GPDR>>
StdFunction(s) ==
    /\ GAFR' = GAFR \ maskedStencil(s)
    /\ UNCHANGED <<latch, GPDR>>

\* 'I': GPDR &= ~maskedStencil.  ':' does the same and falls through into
\* 'O': GPDR |= maskedStencil.
ConfigInputs(s) ==
    /\ GPDR' = GPDR \ maskedStencil(s)
    /\ UNCHANGED <<latch, GAFR>>
ConfigDirection(s) ==
    /\ GPDR' = (GPDR \ maskedStencil(s)) \cup maskedStencil(s)
    /\ UNCHANGED <<latch, GAFR>>
ConfigOutputs(s) ==
    /\ GPDR' = GPDR \cup maskedStencil(s)
    /\ UNCHANGED <<latch, GAFR>>

\* The operators that write a register and leave the session's state alone.
PinWrite(s, c) ==
    /\ \/ c = "+" /\ GPSR_write(s)
       \/ c = "-" /\ GPCR_write(s)
       \/ c = "=" /\ AssignOutputs(s)
       \/ c = "@" /\ AltFunction(s)
       \/ c = "$" /\ StdFunction(s)
       \/ c = "I" /\ ConfigInputs(s)
       \/ c = ":" /\ ConfigDirection(s)
       \/ c = "O" /\ ConfigOutputs(s)
    /\ my' = [my EXCEPT ![s] = NotDigit(s)]
    /\ UNCHANGED edgeVars

\* '<': MY->stencil &= mask.
RestrictStencil(s) ==
    /\ my' = [my EXCEPT ![s] = [NotDigit(s) EXCEPT
                                  !.stencil = my[s].stencil \cap my[s].mask]]
    /\ UNCHANGED <<pinVars, edgeVars>>

(* setGPIOedge(maskedStencil, edges).  With edges on, request_irq is       *)
(* called for each bit that has no handler yet and may fail, in which      *)
(* case installed stays 0; with edges off, every installed handler of the  *)
(* mask is freed, whoever asked for it.                                    *)
setGPIOedge(s, on) ==
    LET bits == maskedStencil(s) IN
    /\ \/ /\ on
          /\ \E granted \in SUBSET (bits \ installed) :
                installed' = installed \cup granted
          /\ edgeWanted' = [edgeWanted EXCEPT ![s] = @ \cup (bits \cap installed')]
       \/ /\ ~on
          /\ installed' = installed \ bits
          /\ edgeWanted' = [edgeWanted EXCEPT ![s] = @ \ bits]
    /\ my' = [my EXCEPT ![s] = NotDigit(s)]
    /\ UNCHANGED <<pinVars, edgeCount, pendingTrue, edges>>

\* ';': purgeEvents copies the global counts into the session's snapshot.
purgeEvents(s) ==
    LET bits == maskedStencil(s) IN
    /\ my' = [my EXCEPT ![s] = [NotDigit(s) EXCEPT !.count =
                 [b \in STENCIL |-> IF b \in bits THEN edgeCount[b]
                                                  ELSE my[s].count[b]]]]
    /\ pendingTrue' = [pendingTrue EXCEPT ![s] =
                 [b \in STENCIL |-> IF b \in bits THEN 0 ELSE @[b]]]
    /\ UNCHANGED <<pinVars, edgeCount, installed, edgeWanted, edges>>

\* Seeded fault: the snapshot is advanced without the != test.
removeOneEvent_unguarded(s) ==
    LET due == pendingEvents(s, maskedStencil(s)) IN
    /\ my' = [my EXCEPT ![s] = [NotDigit(s) EXCEPT !.count =
                 [b \in STENCIL |-> IF b \in maskedStencil(s)
                                    THEN (my[s].count[b] + 1) % CountMod
                                    ELSE my[s].count[b]]]]
    /\ pendingTrue' = [pendingTrue EXCEPT ![s] =
                 [b \in STENCIL |-> IF b \in due THEN @[b] - 1 ELSE @[b]]]
    /\ UNCHANGED <<pinVars, edgeCount, installed, edgeWanted, edges>>

\* ',': removeOneEvent advances the snapshot of every bit with an event.
removeOneEvent(s) ==
    LET due == pendingEvents(s, maskedStencil(s)) IN
    /\ my' = [my EXCEPT ![s] = [NotDigit(s) EXCEPT !.count =
                 [b \in STENCIL |-> IF b \in due THEN (my[s].count[b] + 1) % CountMod
                                                 ELSE my[s].count[b]]]]
    /\ pendingTrue' = [pendingTrue EXCEPT ![s] =
                 [b \in STENCIL |-> IF b \in due THEN @[b] - 1 ELSE @[b]]]
    /\ UNCHANGED <<pinVars, edgeCount, installed, edgeWanted, edges>>

\* '\\': the next byte becomes the separator.  Whitespace and unknown
\* bytes only leave the parser at notDigit.
AwaitSeparator(s) ==
    /\ my' = [my EXCEPT ![s] = [NotDigit(s) EXCEPT !.parser = "awaitingSeparator"]]
    /\ UNCHANGED <<pinVars, edgeVars>>
IgnoreByte(s) ==
    /\ my' = [my EXCEPT ![s] = NotDigit(s)]
    /\ UNCHANGED <<pinVars, edgeVars>>

EdgeOps == {"^", "V", "~", "."}
PinOps == {"+", "-", "=", "@", "$", "I", ":", "O"}
KnownOps == DOMAIN ReadModeOf \cup EdgeOps \cup PinOps \cup {"<", ";", ",", "bs"}

\* One byte c written to session s while its task is not inside read().
\* In awaitingSeparator the byte, whatever it is, becomes the separator.
parseNextByte(s, c) ==
    /\ s \in opened /\ rd[s] = "idle"
    /\ \/ /\ my[s].parser = "awaitingSeparator"
          /\ my' = [my EXCEPT ![s].separator = c,
                              ![s].parser = "notDigit"]
          /\ UNCHANGED <<pinVars, edgeVars>>
       \/ /\ my[s].parser # "awaitingSeparator"
          /\ \/ c \in HexDigits /\ ParseDigit(s, c) /\ UNCHANGED <<pinVars, edgeVars>>
             \/ SelectReadMode(s, c)
             \/ c \in PinOps /\ PinWrite(s, c)
             \/ c = "<" /\ RestrictStencil(s)
             \/ c \in EdgeOps /\ setGPIOedge(s, c # ".")
             \/ c = ";" /\ purgeEvents(s)
             \/ c = "," /\ removeOneEvent(s)
             \/ c = "bs" /\ AwaitSeparator(s)
             \/ c \notin HexDigits \cup KnownOps /\ IgnoreByte(s)
    /\ UNCHANGED <<opened, readVars>>

-----------------------------------------------------------------------------
(* gpio_read.  The buffer is reloaded when the offset is past VALSIZE or   *)
(* at its terminating NUL; otherwise the rest of the string is copied.     *)
BufferExhausted(s) == my[s].offset >= VALSIZE \/ my[s].offset >= my[s].len

(* reloadMyBuffer's sprintf(FORMAT, read, separator) followed by the copy  *)
(* of limit bytes: sprintf returns the digits plus the separator byte,     *)
(* while strlen stops at a NUL separator.  The offset is already 0.       *)
FillAndCopy(s, n) ==
    LET ret == HexWidth(s) + 1
        str == IF my[s].separator = "nul" THEN ret - 1 ELSE ret
        limit == Min({n, ret})
    IN  /\ my' = [my EXCEPT ![s].offset = limit, ![s].len = str,
                            ![s].value = ReadValue(s)]
        /\ delivered' = [delivered EXCEPT ![s] = limit >= str]
        /\ lastReturn' = [lastReturn EXCEPT ![s] = "data"]
        /\ written' = [written EXCEPT ![s] = ret + 1]

\* The rest of the old string, from a valid offset.
CopyRest(s, n) ==
    LET limit == Min({n, my[s].len - my[s].offset}) IN
    /\ my' = [my EXCEPT ![s].offset = @ + limit]
    /\ delivered' = [delivered EXCEPT ![s] = my[s].offset + limit >= my[s].len]
    /\ lastReturn' = [lastReturn EXCEPT ![s] =
                        IF delivered[s] THEN "stale" ELSE "data"]
    /\ UNCHANGED written

MustBlock(s) ==
    my[s].readMode = "blockingEdges" /\ pendingEvents(s, maskedStencil(s)) = {}

(* The read up to the point where a blocking read enters the wait: a copy, *)
(* a reload, -EAGAIN under O_NONBLOCK, or DECLARE_WAITQUEUE.  The error    *)
(* returns leave MY->offset at 0 and the old string in the buffer.         *)
gpio_read(s) ==
    /\ s \in opened /\ rd[s] = "idle"
    /\ \E n \in ReadCounts :
         \/ /\ ~BufferExhausted(s)
            /\ CopyRest(s, n)
            /\ UNCHANGED <<rd, readReq>>
         \/ /\ BufferExhausted(s) /\ ~MustBlock(s)
            /\ FillAndCopy(s, n)
            /\ UNCHANGED <<rd, readReq>>
         \/ /\ BufferExhausted(s) /\ MustBlock(s)
            /\ \E O_NONBLOCK \in BOOLEAN :
                 \/ /\ O_NONBLOCK
                    /\ lastReturn' = [lastReturn EXCEPT ![s] = "EAGAIN"]
                    /\ UNCHANGED <<rd, readReq>>
                 \/ /\ ~O_NONBLOCK
                    /\ rd' = [rd EXCEPT ![s] = "enqueue"]
                    /\ readReq' = [readReq EXCEPT ![s] = n]
                    /\ UNCHANGED lastReturn
            /\ my' = [my EXCEPT ![s].offset = 0]
            /\ UNCHANGED <<delivered, written>>
    /\ UNCHANGED <<opened, pinVars, edgeVars, task, gpioWaitQ, sigPending>>

\* Seeded fault: schedule() without the check after TASK_INTERRUPTIBLE.
add_wait_queue_noRecheck(s) ==
    /\ rd[s] = "enqueue"
    /\ gpioWaitQ' = gpioWaitQ \cup {s}
    /\ task' = [task EXCEPT ![s] = "TASK_INTERRUPTIBLE"]
    /\ rd' = [rd EXCEPT ![s] = "sched"]
    /\ UNCHANGED <<opened, my, pinVars, edgeVars, readReq, sigPending,
                   delivered, lastReturn, written>>

\* add_wait_queue(&gpioWaitQ, &self); current->state = TASK_INTERRUPTIBLE.
add_wait_queue(s) ==
    /\ rd[s] = "enqueue"
    /\ gpioWaitQ' = gpioWaitQ \cup {s}
    /\ task' = [task EXCEPT ![s] = "TASK_INTERRUPTIBLE"]
    /\ rd' = [rd EXCEPT ![s] = "loop"]
    /\ UNCHANGED <<opened, my, pinVars, edgeVars, readReq, sigPending,
                   delivered, lastReturn, written>>

\* Seeded fault: the -ERESTARTSYS exit without remove_wait_queue.
WaitLoop_keepQueued(s) ==
    /\ rd[s] = "loop"
    /\ \/ /\ ~MustBlock(s)
          /\ FillAndCopy(s, readReq[s])
          /\ gpioWaitQ' = gpioWaitQ \ {s}
       \/ /\ MustBlock(s) /\ s \in sigPending
          /\ lastReturn' = [lastReturn EXCEPT ![s] = "ERESTARTSYS"]
          /\ UNCHANGED <<my, delivered, gpioWaitQ, written>>
    /\ task' = [task EXCEPT ![s] = "TASK_RUNNING"]
    /\ rd' = [rd EXCEPT ![s] = "idle"]
    /\ sigPending' = sigPending \ {s}
    /\ UNCHANGED <<opened, pinVars, edgeVars, readReq>>

(* One pass of the for(;;) body: leave with the pending mask, leave with   *)
(* -ERESTARTSYS on a signal (both set TASK_RUNNING and remove_wait_queue), *)
(* or go on to schedule().  The signal is delivered on the way out.        *)
WaitLoop(s) ==
    /\ rd[s] = "loop"
    /\ \/ /\ ~MustBlock(s)
          /\ FillAndCopy(s, readReq[s])
       \/ /\ MustBlock(s) /\ s \in sigPending
          /\ lastReturn' = [lastReturn EXCEPT ![s] = "ERESTARTSYS"]
          /\ UNCHANGED <<my, delivered, written>>
    /\ task' = [task EXCEPT ![s] = "TASK_RUNNING"]
    /\ gpioWaitQ' = gpioWaitQ \ {s}
    /\ rd' = [rd EXCEPT ![s] = "idle"]
    /\ sigPending' = sigPending \ {s}
    /\ UNCHANGED <<opened, pinVars, edgeVars, readReq>>
WaitAgain(s) ==
    /\ rd[s] = "loop" /\ MustBlock(s) /\ s \notin sigPending
    /\ rd' = [rd EXCEPT ![s] = "sched"]
    /\ UNCHANGED <<opened, my, pinVars, edgeVars, readReq, task, gpioWaitQ,
                   sigPending, delivered, lastReturn, written>>

\* schedule() switches away from a TASK_INTERRUPTIBLE task and returns
\* once it is TASK_RUNNING again; a task with a signal pending is put
\* back to TASK_RUNNING instead of being taken off the run queue.
schedule(s) ==
    /\ rd[s] = "sched"
    /\ task[s] = "TASK_RUNNING" \/ s \in sigPending
    /\ rd' = [rd EXCEPT ![s] = "loop"]
    /\ task' = [task EXCEPT ![s] = "TASK_RUNNING"]
    /\ UNCHANGED <<opened, my, pinVars, edgeVars, readReq, gpioWaitQ,
                   sigPending, delivered, lastReturn, written>>

\* A signal sent to a task inside read() wakes it if it sleeps.
Signal(s) ==
    /\ rd[s] # "idle" /\ s \notin sigPending
    /\ sigPending' = sigPending \cup {s}
    /\ task' = [task EXCEPT ![s] = "TASK_RUNNING"]
    /\ UNCHANGED <<opened, my, pinVars, edgeVars, rd, readReq, gpioWaitQ,
                   delivered, lastReturn, written>>

Next ==
    /\ UNCHANGED load
    /\ \/ \E s \in Sessions :
            \/ gpio_open(s) \/ gpio_release(s)
            \/ \E c \in HexDigits \cup Ops : parseNextByte(s, c)
            \/ gpio_read(s) \/ add_wait_queue(s) \/ WaitLoop(s) \/ WaitAgain(s)
            \/ schedule(s) \/ Signal(s)
       \/ \E b \in STENCIL : sa1100_gpio_handler(b)

(* The kernel runs a runnable task: the steps of a task inside read() are  *)
(* weakly fair.  Nothing obliges a user to write, read or raise an edge.   *)
Fairness ==
    \A s \in Sessions :
        /\ WF_stateVars(add_wait_queue(s)) /\ WF_stateVars(WaitLoop(s))
        /\ WF_stateVars(WaitAgain(s)) /\ WF_stateVars(schedule(s))

Spec == Init /\ [][Next]_vars /\ Fairness

-----------------------------------------------------------------------------
(* Properties.                                                             *)

\* No step changes a pin outside the stencils of the open sessions: every
\* register write of parseNextByte ('+', '-', '=', '@', '$', 'I', ':', 'O')
\* is confined by mask & stencil, so the kernel's own pins above USERGPIOS
\* and the pins every session has given up are never disturbed.
PinsChanged == SymDiff(latch, latch') \cup SymDiff(GPDR, GPDR')
                 \cup SymDiff(GAFR, GAFR')
PinWritesConfined ==
    [][PinsChanged \subseteq UNION {my[s].stencil : s \in opened}]_vars

\* pendingEvents compares the session's unsigned short snapshot with the
\* global counter by !=; as long as fewer than 2^16 edges are unconsumed,
\* a bit is reported pending exactly when an edge arrived on it since the
\* session opened, purged (';') or consumed (',') its events, also across
\* the wrap of the counters.
PendingExact ==
    \A s \in opened, b \in STENCIL :
        pendingTrue[s][b] < CountMod =>
            (pendingEvents(s, {b}) # {} <=> pendingTrue[s][b] > 0)

\* eventTally, what a read in 'P' mode reports, is the number of
\* unconsumed edges of the masked bits.
EventTallyExact ==
    \A s \in opened :
        (\A b \in STENCIL : pendingTrue[s][b] < CountMod) =>
            eventTally(s, maskedStencil(s)) =
                MapThenSumSet(LAMBDA b : pendingTrue[s][b], maskedStencil(s))

\* A task is on gpioWaitQ exactly while it is inside the wait loop of a
\* blocking read, and it only sleeps while it is on the queue: every exit
\* of the loop (events or -ERESTARTSYS) removes it and makes it runnable,
\* so no wakeup target dangles and no sleeper is unreachable.
WaitRegistration ==
    \A s \in Sessions :
        /\ (s \in gpioWaitQ) <=> (rd[s] \in {"loop", "sched"})
        /\ task[s] = "TASK_INTERRUPTIBLE" => s \in gpioWaitQ

\* A task blocked in a 'W' read returns once an edge it waits for is
\* pending or a signal arrives: the check after add_wait_queue and
\* TASK_INTERRUPTIBLE closes the window in which a wakeup could be lost.
BlockedReaderReturns ==
    \A s \in Sessions :
        (rd[s] # "idle" /\ (~MustBlock(s) \/ s \in sigPending))
            ~> rd[s] = "idle"

\* A read never hands the user again bytes of a string it already read
\* to the end.  After -EAGAIN or -ERESTARTSYS MY->offset is 0 while the
\* buffer still holds the old string.
NoStaleRead == \A s \in Sessions : lastReturn[s] # "stale"

\* A session that asked for edges with '^', 'V' or '~' and got a handler
\* keeps it while it is open (the spec asks for reference counting).
EdgeRequestHonoured == \A s \in opened : edgeWanted[s] \subseteq installed

=============================================================================
