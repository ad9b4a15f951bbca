------------------------------ MODULE Consoles ------------------------------
(***************************************************************************)
(* The two terminal relays: console.c joins the keyboard to a serial port, *)
(* rconsole.c joins it to a TCP socket.  Both put the keyboard in raw mode *)
(* (restored by killhandler on SIGTERM and on every exit path), poll it    *)
(* with ttypoll, and answer their own prompts with the blocking ttygetc.   *)
(*                                                                         *)
(* console: CTRL-B asks for a break time, reads it with ttygets, and holds *)
(* the serial line in break until wait_for_char sees CTRL-C or the time    *)
(* runs out; CTRL-G asks whether to exit; every other key is logged and    *)
(* written to the port, with a tcdrain after every FIFO_LIMIT bytes; then  *)
(* whatever the port has sent is copied to the screen.                     *)
(* rconsole: CTRL-A opens an options menu (local echo, <NL> after <CR> out *)
(* and in), CTRL-X asks whether to exit; keys are written to the socket,   *)
(* and one read of up to READ_BUFFER_SIZE bytes per loop is shown.         *)
(*                                                                         *)
(* Which program runs is fixed at the start (prog).  Keys are abstract:    *)
(* "^A" .. "^X" are control characters, "CR", "LF", "SP" themselves, "hi"  *)
(* a byte 0xE1 and "ff" the byte 0xFF, digits and letters stand for        *)
(* themselves.  The device's bytes are only counted.  Whether char is      *)
(* signed depends on the build: console is built for ARM (unsigned char),  *)
(* rconsole for ARM or x86 (signedChar chooses).                           *)
(***************************************************************************)
EXTENDS Integers, Sequences, SequencesExt

CONSTANTS
    Programs,         \* which of "console", "rconsole" may run
    ConsoleKeys,      \* the keys a user of console may type
    RconsoleKeys,     \* the keys a user of rconsole may type
    FIFO_LIMIT,       \* console.c: the other side's input FIFO (32)
    MIN_BREAK_TIME,   \* console.c: 1 ms
    MAX_BREAK_TIME,   \* console.c: 10000 ms
    TMP_BUFF_SIZE,    \* console.c: sizeof(tmp_buff) (256)
    READ_BUFFER_SIZE, \* rconsole.c: 32
    MaxKeys,          \* keys the user types in a behaviour
    MaxRx             \* bytes the device or server sends in a behaviour

VARIABLES
    prog,       \* "console" or "rconsole"
    signedChar, \* the build's char is signed
    pc,         \* where the main loop is
    kbd,        \* keys typed and not yet read
    typed,      \* keys typed so far (bounded by MaxKeys)
    raw,        \* the keyboard is in raw mode
    handler,    \* killhandler is installed for SIGTERM
    restore,    \* iOldstateSet / reset_kb_state
    outLog,     \* console: the user out log is open
    cur,        \* c: the key being handled
    breakTime,  \* console: break_time
    tmp,        \* console: tmp_buff, the break time as typed
    gi,         \* console: ttygets' index i
    brk,        \* console: the serial line is held in break
    txq,        \* console: bytes written to the port not yet sent
    queued,     \* console: queued4output
    rx,         \* bytes the device or server sent not yet read
    rxTotal,    \* bytes it sent so far (bounded by MaxRx)
    hup,        \* rconsole: the server has closed the connection
    nlOut       \* rconsole: append_nl_out

vars == <<prog, signedChar, pc, kbd, typed, raw, handler, restore, outLog, cur, breakTime,
          tmp, gi, brk, txq, queued, rx, rxTotal, hup, nlOut>>
rconsoleVars == <<hup, nlOut>>
consoleVars == <<outLog, breakTime, tmp, gi, brk, txq, queued>>

NoKey == "none"                      \* c = -1
Prompts == {"brkPrompt", "gets", "exitPrompt", "optPrompt", "optMenu"}

\* ttypoll: a non-blocking read of one byte, returned as (int) of a char:
\* no byte gives -1, and so does a byte of 0x80 or more where char is
\* signed.
ttypoll == IF kbd = <<>> \/ (signedChar /\ Head(kbd) \in {"hi", "ff"})
           THEN NoKey ELSE Head(kbd)
KbdAfterPoll == IF kbd = <<>> THEN kbd ELSE Tail(kbd)

\* ttygetc: a blocking read that skips 0xFF and returns the byte & 0x7F.
Mask7(k) == IF k = "hi" THEN "a" ELSE k
ttygetc_skip ==
    /\ pc \in Prompts
    /\ kbd # <<>> /\ Head(kbd) = "ff"
    /\ kbd' = Tail(kbd)
    /\ UNCHANGED <<prog, signedChar, pc, typed, raw, handler, restore, outLog, cur,
                   breakTime, tmp, gi, brk, txq, queued, rx, rxTotal,
                   rconsoleVars>>
\* The key a blocked ttygetc returns.
Getc == Mask7(Head(kbd))
GetcReady == kbd # <<>> /\ Head(kbd) # "ff"

\* atoi over the typed characters: leading white space, then digits.
RECURSIVE AtoiFrom(_, _)
AtoiFrom(s, n) ==
    IF s = <<>> \/ Head(s) \notin {"0", "5"} THEN n
    ELSE AtoiFrom(Tail(s), 10 * n + (IF Head(s) = "5" THEN 5 ELSE 0))
atoi(s) == LET i == SelectInSeq(s, LAMBDA x : x \notin {"SP", "CR", "LF"})
           IN IF i = 0 THEN 0 ELSE AtoiFrom(SubSeq(s, i, Len(s)), 0)

(***************************************************************************)
(* Start-up, SIGTERM and the exit paths.                                   *)
(***************************************************************************)
Init ==
    /\ prog \in Programs
    /\ signedChar \in IF prog = "console" THEN {FALSE} ELSE BOOLEAN
    /\ pc = "setRaw"
    /\ kbd = <<>> /\ typed = 0
    /\ raw = FALSE /\ handler = FALSE /\ restore = FALSE
    /\ outLog \in IF prog = "console" THEN BOOLEAN ELSE {FALSE}
    /\ cur = NoKey /\ breakTime = -1 /\ tmp = <<>> /\ gi = 0
    /\ brk = FALSE /\ txq = <<>> /\ queued = 0
    /\ rx = 0 /\ rxTotal = 0 /\ hup = FALSE
    /\ nlOut = FALSE

\* The keyboard set raw, then signal(SIGTERM, killhandler), then the flag
\* that lets killhandler restore it: three steps a signal can fall between.
SetupStep ==
    /\ \/ pc = "setRaw" /\ raw' = TRUE /\ pc' = "setSig" /\ UNCHANGED <<handler, restore>>
       \/ pc = "setSig" /\ handler' = TRUE /\ pc' = "setFlag" /\ UNCHANGED <<raw, restore>>
       \/ pc = "setFlag" /\ restore' = TRUE /\ pc' = "poll" /\ UNCHANGED <<raw, handler>>
    /\ UNCHANGED <<prog, signedChar, kbd, typed, outLog, cur, breakTime, tmp, gi, brk, txq,
                   queued, rx, rxTotal, rconsoleVars>>

\* The process ends; closing the serial port ends a break.
Exit(rawAfter) ==
    /\ pc' = "exited" /\ raw' = rawAfter /\ brk' = FALSE
    /\ UNCHANGED <<prog, signedChar, kbd, typed, handler, restore, outLog, cur, breakTime,
                   tmp, gi, txq, queued, rx, rxTotal, rconsoleVars>>

\* killhandler followed by exit: the keyboard is restored if the flag is set.
Quit == Exit(raw /\ ~restore)

\* console's killhandler restores the keyboard and exits; before signal()
\* SIGTERM simply kills the process.
ConsoleSigterm ==
    /\ prog = "console" /\ pc # "exited"
    /\ IF handler THEN Quit ELSE Exit(raw)

\* rconsole's killhandler restores the keyboard and returns: the program
\* goes on running.
RconsoleSigterm ==
    /\ prog = "rconsole" /\ pc # "exited"
    /\ IF handler
       THEN /\ raw /\ restore
            /\ raw' = FALSE
            /\ UNCHANGED <<prog, signedChar, pc, kbd, typed, handler, restore, outLog, cur,
                           breakTime, tmp, gi, brk, txq, queued, rx, rxTotal,
                           rconsoleVars>>
       ELSE Exit(raw)

(***************************************************************************)
(* console.c's main loop.                                                  *)
(***************************************************************************)

\* Logging, and the decision to write c to the port: a CTRL-B that found
\* break_time > 0 is logged as <BREAK n ms> and not sent, when the out log
\* is open.
Forward(c, bt) ==
    /\ cur' = c
    /\ pc' = IF c # NoKey /\ ~(outLog /\ c = "^B" /\ bt > 0) THEN "write" ELSE "rx"

ConsolePoll ==
    /\ prog = "console" /\ pc = "poll"
    /\ kbd' = KbdAfterPoll
    /\ LET c == ttypoll IN
          \/ c = "^B" /\ pc' = "brkPrompt" /\ UNCHANGED cur
          \/ c = "^G" /\ pc' = "exitPrompt" /\ UNCHANGED cur
          \/ c \notin {"^B", "^G"} /\ Forward(c, breakTime)
    /\ UNCHANGED <<prog, signedChar, typed, raw, handler, restore, outLog, breakTime, tmp,
                   gi, brk, txq, queued, rx, rxTotal, rconsoleVars>>

\* "Enter break time ... or SPACE to continue": break_time = -1, and a
\* SPACE sends the CTRL-B on.
BreakPrompt ==
    /\ prog = "console" /\ pc = "brkPrompt" /\ GetcReady
    /\ kbd' = Tail(kbd)
    /\ breakTime' = -1
    /\ \/ Getc = "SP" /\ Forward("^B", -1) /\ UNCHANGED <<tmp, gi>>
       \/ Getc # "SP" /\ tmp' = <<Getc>> /\ gi' = 0 /\ pc' = "gets" /\ UNCHANGED cur
    /\ UNCHANGED <<prog, signedChar, typed, raw, handler, restore, outLog, brk, txq, queued,
                   rx, rxTotal, rconsoleVars>>

\* (A range check without its upper bound.)
StartBreak_nomax(t) ==
    LET bt == atoi(t) IN
    \/ /\ bt < MIN_BREAK_TIME
       /\ breakTime' = -1 /\ UNCHANGED brk
       /\ Forward("^B", -1)
    \/ /\ bt >= MIN_BREAK_TIME
       /\ breakTime' = bt /\ brk' = TRUE
       /\ pc' = "breaking" /\ UNCHANGED cur

\* atoi(tmp_buff) and the range check; a break in range starts with
\* TIOCSBRK and wait_for_char.
StartBreak(t) ==
    LET bt == atoi(t) IN
    \/ /\ bt < MIN_BREAK_TIME \/ bt > MAX_BREAK_TIME
       /\ breakTime' = -1 /\ UNCHANGED brk
       /\ Forward("^B", -1)
    \/ /\ bt >= MIN_BREAK_TIME /\ bt <= MAX_BREAK_TIME
       /\ breakTime' = bt /\ brk' = TRUE
       /\ pc' = "breaking" /\ UNCHANGED cur

\* ttygets(tmp_buff + 1, sizeof(tmp_buff) - 1): one character per step, up
\* to a CR or LF or until i reaches len.
ttygets ==
    /\ prog = "console" /\ pc = "gets" /\ GetcReady
    /\ kbd' = Tail(kbd)
    /\ LET eol == Getc \in {"CR", "LF"}
           t == IF eol THEN tmp ELSE Append(tmp, Getc)
       IN /\ tmp' = t
          /\ IF eol \/ gi + 1 >= TMP_BUFF_SIZE - 1
             THEN StartBreak(t) /\ UNCHANGED gi
             ELSE gi' = gi + 1 /\ UNCHANGED <<pc, cur, breakTime, brk>>
    /\ UNCHANGED <<prog, signedChar, typed, raw, handler, restore, outLog, txq, queued, rx,
                   rxTotal, rconsoleVars>>

\* (A CTRL-C that does not reach the TIOCCBRK.)
BreakKey_noclear ==
    /\ prog = "console" /\ pc = "breaking" /\ kbd # <<>>
    /\ kbd' = Tail(kbd)
    /\ IF ttypoll = "^C"
       THEN /\ UNCHANGED brk
            /\ \E left \in 0 .. breakTime :
                  LET ret == IF left > 1000 THEN left ELSE 1
                  IN breakTime' = ret /\ Forward("^B", ret)
       ELSE UNCHANGED <<pc, cur, breakTime, brk>>
    /\ UNCHANGED <<prog, signedChar, typed, raw, handler, restore, outLog, tmp, gi, txq,
                   queued, rx, rxTotal, rconsoleVars>>

\* wait_for_char(0x3, ...): ttypoll consumes every key; CTRL-C ends the
\* wait with the time left (in ms if over a second, else 1), and TIOCCBRK
\* ends the break.
BreakKey ==
    /\ prog = "console" /\ pc = "breaking" /\ kbd # <<>>
    /\ kbd' = Tail(kbd)
    /\ IF ttypoll = "^C"
       THEN /\ brk' = FALSE
            /\ \E left \in 0 .. breakTime :
                  LET ret == IF left > 1000 THEN left ELSE 1
                  IN breakTime' = ret /\ Forward("^B", ret)
       ELSE UNCHANGED <<pc, cur, breakTime, brk>>
    /\ UNCHANGED <<prog, signedChar, typed, raw, handler, restore, outLog, tmp, gi, txq,
                   queued, rx, rxTotal, rconsoleVars>>

\* The time runs out: wait_for_char returns 0 and break_time stays.
BreakTimeout ==
    /\ prog = "console" /\ pc = "breaking"
    /\ brk' = FALSE
    /\ Forward("^B", breakTime)
    /\ UNCHANGED <<prog, signedChar, kbd, typed, raw, handler, restore, outLog, breakTime,
                   tmp, gi, txq, queued, rx, rxTotal, rconsoleVars>>

\* (An exit that skips killhandler(1).)
ExitPrompt_nokill ==
    /\ pc = "exitPrompt" /\ GetcReady
    /\ IF Getc \in {"x", "X"}
       THEN Exit(raw)
       ELSE /\ kbd' = Tail(kbd)
            /\ IF prog = "console" THEN Forward("^G", breakTime)
                                   ELSE /\ cur' = "^X" /\ pc' = "write"
            /\ UNCHANGED <<prog, signedChar, typed, raw, handler, restore, outLog, breakTime,
                           tmp, gi, brk, txq, queued, rx, rxTotal, rconsoleVars>>

\* "Hit X to exit or SPACE to continue" (CTRL-G in console, CTRL-X in
\* rconsole); any other answer sends the control key on.
ExitPrompt ==
    /\ pc = "exitPrompt" /\ GetcReady
    /\ IF Getc \in {"x", "X"}
       THEN Quit
       ELSE /\ kbd' = Tail(kbd)
            /\ IF prog = "console" THEN Forward("^G", breakTime)
                                   ELSE /\ cur' = "^X" /\ pc' = "write"
            /\ UNCHANGED <<prog, signedChar, typed, raw, handler, restore, outLog, breakTime,
                           tmp, gi, brk, txq, queued, rx, rxTotal, rconsoleVars>>

\* (A drain only once the count passes FIFO_LIMIT.)
ConsoleWrite_gt ==
    /\ prog = "console" /\ pc = "write"
    /\ \/ LET q == queued + 1 IN
          /\ txq' = Append(txq, cur)
          /\ queued' = IF q > FIFO_LIMIT THEN 0 ELSE q
          /\ pc' = IF q > FIFO_LIMIT THEN "drain" ELSE "rx"
          /\ UNCHANGED <<prog, signedChar, kbd, typed, raw, handler, restore, outLog, cur,
                         breakTime, tmp, gi, brk, rx, rxTotal, rconsoleVars>>
       \/ Quit

\* write(ser_port_dev, &cc, 1) until it succeeds; tcdrain after every
\* FIFO_LIMIT bytes; a failed write ends the program.
ConsoleWrite ==
    /\ prog = "console" /\ pc = "write"
    /\ \/ LET q == queued + 1 IN
          /\ txq' = Append(txq, cur)
          /\ queued' = IF q >= FIFO_LIMIT THEN 0 ELSE q
          /\ pc' = IF q >= FIFO_LIMIT THEN "drain" ELSE "rx"
          /\ UNCHANGED <<prog, signedChar, kbd, typed, raw, handler, restore, outLog, cur,
                         breakTime, tmp, gi, brk, rx, rxTotal, rconsoleVars>>
       \/ Quit

\* tcdrain returns once the port has sent everything written.
tcdrain ==
    /\ prog = "console" /\ pc = "drain" /\ txq = <<>>
    /\ pc' = "rx"
    /\ UNCHANGED <<prog, signedChar, kbd, typed, raw, handler, restore, outLog, cur,
                   breakTime, tmp, gi, brk, txq, queued, rx, rxTotal,
                   rconsoleVars>>

\* select with a zero timeout, then one byte copied to the screen (and the
\* session log), until nothing is waiting.
ConsoleRx ==
    /\ prog = "console" /\ pc = "rx"
    /\ IF rx > 0 THEN rx' = rx - 1 /\ UNCHANGED pc
                 ELSE pc' = "poll" /\ UNCHANGED rx
    /\ UNCHANGED <<prog, signedChar, kbd, typed, raw, handler, restore, outLog, cur,
                   breakTime, tmp, gi, brk, txq, queued, rxTotal, rconsoleVars>>

(***************************************************************************)
(* rconsole.c's main loop.  local_echo and append_nl_in only change what   *)
(* is shown on the screen, and are left out; their menu choices, like an   *)
(* unknown one, just print the menu again.                                 *)
(***************************************************************************)

\* After check_char: a c >= 0 is written to the socket.
Continue(c) ==
    /\ cur' = c
    /\ pc' = IF c # NoKey THEN "write" ELSE "rx"

\* ttypoll, then check_char: CTRL-A asks about the options menu, CTRL-X
\* whether to exit.
RconsolePoll ==
    /\ prog = "rconsole" /\ pc = "poll"
    /\ kbd' = KbdAfterPoll
    /\ LET c == ttypoll IN
          \/ c = "^A" /\ pc' = "optPrompt" /\ UNCHANGED cur
          \/ c = "^X" /\ pc' = "exitPrompt" /\ UNCHANGED cur
          \/ c \notin {"^A", "^X"} /\ Continue(c)
    /\ UNCHANGED <<prog, signedChar, typed, raw, handler, restore, consoleVars, rx, rxTotal,
                   rconsoleVars>>

\* set_options: "Hit 'a' to enter options menu"; any other answer returns
\* 0 and the CTRL-A is written.  ttygetc masks the byte to 7 bits.
set_options ==
    /\ prog = "rconsole" /\ pc = "optPrompt" /\ GetcReady
    /\ kbd' = Tail(kbd)
    /\ IF Getc \in {"a", "A"} THEN pc' = "optMenu" /\ UNCHANGED cur
                              ELSE Continue("^A")
    /\ UNCHANGED <<prog, signedChar, typed, raw, handler, restore, consoleVars, rx, rxTotal,
                   rconsoleVars>>

\* One choice of the options menu; X leaves it and set_options returns 1,
\* so check_char sets c = -1.
OptionsChoice ==
    /\ prog = "rconsole" /\ pc = "optMenu" /\ GetcReady
    /\ kbd' = Tail(kbd)
    /\ \/ Getc \in {"x", "X"} /\ Continue(NoKey) /\ UNCHANGED nlOut
       \/ Getc \notin {"x", "X"}
          /\ nlOut' = (nlOut # (Getc \in {"o", "O"}))
          /\ UNCHANGED <<pc, cur>>
    /\ UNCHANGED <<prog, signedChar, typed, raw, handler, restore, consoleVars, rx, rxTotal,
                   hup>>

\* write(socket_desc, &cc, 1), and the <NL> after a <CR> when append_nl_out
\* is set; the bytes themselves are left out.  Once the server has closed,
\* a write may still succeed (the byte is lost), fail (killhandler, exit),
\* or raise SIGPIPE, whose default action ends the process without
\* killhandler.
RconsoleWrite ==
    /\ prog = "rconsole" /\ pc \in {"write", "writeNL"}
    /\ \/ /\ pc' = IF pc = "write" /\ nlOut /\ cur = "CR" THEN "writeNL" ELSE "rx"
          /\ UNCHANGED <<prog, signedChar, kbd, typed, raw, handler, restore, cur,
                         consoleVars, rx, rxTotal, rconsoleVars>>
       \/ hup /\ Quit
       \/ hup /\ Exit(raw)

\* select, then one read of up to READ_BUFFER_SIZE bytes; a read of 0
\* bytes (the server closed) or less ends the program.
RconsoleRx ==
    /\ prog = "rconsole" /\ pc = "rx"
    /\ \/ /\ rx > 0
          /\ rx' = IF rx > READ_BUFFER_SIZE THEN rx - READ_BUFFER_SIZE ELSE 0
          /\ pc' = "poll"
          /\ UNCHANGED <<prog, signedChar, kbd, typed, raw, handler, restore, cur,
                         consoleVars, rxTotal, rconsoleVars>>
       \/ rx = 0 /\ hup /\ Quit
       \/ /\ rx = 0 /\ ~hup
          /\ pc' = "poll"
          /\ UNCHANGED <<prog, signedChar, kbd, typed, raw, handler, restore, cur,
                         consoleVars, rx, rxTotal, rconsoleVars>>

(***************************************************************************)
(* The environment: the user, the device or server, the port's sending.   *)
(***************************************************************************)
Running == pc # "exited"

Type ==
    /\ Running /\ typed < MaxKeys
    /\ \E k \in IF prog = "console" THEN ConsoleKeys ELSE RconsoleKeys :
          kbd' = Append(kbd, k)
    /\ typed' = typed + 1
    /\ UNCHANGED <<prog, signedChar, pc, raw, handler, restore, cur, consoleVars, rx,
                   rxTotal, rconsoleVars>>

DeviceSend ==
    /\ Running /\ ~hup /\ rxTotal < MaxRx
    /\ rx' = rx + 1 /\ rxTotal' = rxTotal + 1
    /\ UNCHANGED <<prog, signedChar, pc, kbd, typed, raw, handler, restore, cur,
                   consoleVars, rconsoleVars>>

\* The UART sends the oldest byte written.
Transmit ==
    /\ txq # <<>>
    /\ txq' = Tail(txq)
    /\ UNCHANGED <<prog, signedChar, pc, kbd, typed, raw, handler, restore, outLog, cur,
                   breakTime, tmp, gi, brk, queued, rx, rxTotal, rconsoleVars>>

ServerClose ==
    /\ prog = "rconsole" /\ Running /\ ~hup
    /\ hup' = TRUE
    /\ UNCHANGED <<prog, signedChar, pc, kbd, typed, raw, handler, restore, cur,
                   consoleVars, rx, rxTotal, nlOut>>

\* The steps the program takes by itself; the break's timeout is one,
\* since the clock the loop reads keeps advancing.
ConsoleStep ==
    \/ ConsolePoll \/ BreakPrompt \/ ttygets \/ BreakKey \/ BreakTimeout
    \/ ConsoleWrite \/ tcdrain \/ ConsoleRx
RconsoleStep ==
    \/ RconsolePoll \/ set_options \/ OptionsChoice \/ RconsoleWrite
    \/ RconsoleRx
ProgramStep ==
    SetupStep \/ ttygetc_skip \/ ExitPrompt \/ ConsoleStep \/ RconsoleStep

Next ==
    \/ ProgramStep
    \/ ConsoleSigterm \/ RconsoleSigterm
    \/ Type \/ DeviceSend \/ Transmit \/ ServerClose

\* The properties are safety properties: no fairness is assumed.
Spec == Init /\ [][Next]_vars

(***************************************************************************)
(* Properties.                                                             *)
(***************************************************************************)
Keys == {Mask7(k) : k \in ConsoleKeys \cup RconsoleKeys}
        \cup ConsoleKeys \cup RconsoleKeys \cup {NoKey, "^B", "^G", "^A", "^X", "LF"}
PCs == {"setRaw", "setSig", "setFlag", "poll", "write", "writeNL", "drain",
        "rx", "breaking", "exited"} \cup Prompts

\* Types; break_time is -1 or a time in range, and tmp_buff's characters
\* never outgrow the array (ttygets stops at len = sizeof(tmp_buff) - 1
\* after the first character).
TypeInv ==
    /\ prog \in Programs /\ pc \in PCs
    /\ kbd \in Seq(Keys) /\ typed \in 0 .. MaxKeys
    /\ {signedChar, raw, handler, restore, outLog, brk, hup, nlOut} \subseteq BOOLEAN
    /\ cur \in Keys /\ breakTime \in -1 .. MAX_BREAK_TIME
    /\ tmp \in Seq(Keys) /\ Len(tmp) <= TMP_BUFF_SIZE
    /\ gi \in 0 .. TMP_BUFF_SIZE
    /\ txq \in Seq(Keys) /\ queued \in 0 .. FIFO_LIMIT
    /\ rx \in 0 .. MaxRx /\ rxTotal \in 0 .. MaxRx

\* console never has more than FIFO_LIMIT bytes written to the port and not
\* yet sent: the write after which queued4output reaches FIFO_LIMIT is
\* followed by a tcdrain, whatever keys, breaks and prompts came between.
TxWithinFifo == prog = "console" => Len(txq) <= FIFO_LIMIT

\* The serial line is held in break (TIOCSBRK) only while console waits in
\* wait_for_char: every way out of the wait, CTRL-C, the timeout or the
\* process ending, clears it before the loop writes or reads again.
BreakConfined == brk => pc = "breaking"

\* Once iOldstateSet is set, every way console ends (CTRL-G X, a failed
\* write, SIGTERM) leaves the keyboard in its old state.
KeyboardRestored ==
    (prog = "console" /\ pc = "exited" /\ restore) => ~raw

============================================================================
