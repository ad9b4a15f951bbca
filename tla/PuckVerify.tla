------------------------------ MODULE PuckVerify ------------------------------
(***************************************************************************)
(* The PuckVerify Windows tool talking to a sensor puck over the serial   *)
(* line: src/native/x86-win32/PuckVerify/PuckVerifyUtil.                   *)
(*                                                                         *)
(* OnButtonStart runs the memory test and the command test when their     *)
(* boxes are checked (the other three tests do nothing).  Each test sends *)
(* PUCK commands with sendPuckCmd: write the command, then readUntil the  *)
(* puck's "RDY\r" prompt, up to three times when readUntil times out.     *)
(* The puck (main.c) takes one line at a time from its receive buffer,    *)
(* echoes it when echo is on, runs the handler and sends its output and   *)
(* the RDY prompt.  How long the puck takes is not known to the host: a   *)
(* timeout may race a reply that is still coming.                        *)
(*                                                                         *)
(* Bytes from the puck are tokens [ch, ans]: ch is one character of the   *)
(* prompt (R, D, Y, CR, LF) or a whole output line (its text abstracted   *)
(* to what sscanf makes of it), and ans numbers the host's write the puck *)
(* was answering.                                                          *)
(***************************************************************************)
EXTENDS Naturals, Sequences

CONSTANT MaxTimeouts   \* bound on the readUntil timeouts of a behaviour

VARIABLES
    tests,      \* the checked boxes: "mem" for memoryTest, "cmd" for commandTest
    portOpen,   \* _serialPort.IsOpen(): initPuck opened a COM port
    hpc,        \* the step of the tests: the command being sent, or "done"
    phase,      \* sendPuckCmd: "idle", "write", "read" (in readUntil), "ret"
    attempt,    \* i + 1 of sendPuckCmd's retry loop
    callLines,  \* the writes of the current sendPuckCmd
    resp,       \* the bytes the current readUntil has stored
    termIndex,  \* readUntil's match of the terminator
    bytesRead,  \* readUntil's byte count
    ret,        \* what sendPuckCmd returned
    memSize,    \* memoryTest's memSize after sscanf
    sentN,      \* writes so far
    timeouts,   \* readUntil timeouts so far
    puckQ,      \* lines written and not yet read by the puck's getCommand
    busy,       \* <<the line the puck is running>>, or << >>
    echoMode,   \* the puck's echo flag (main.c), left by earlier sessions
    fromPuck    \* bytes the puck sent that the host has not read

vars == <<tests, portOpen, hpc, phase, attempt, callLines, resp, termIndex,
          bytesRead, ret, memSize, sentN, timeouts, puckQ, busy, echoMode,
          fromPuck>>

\* errors.h of PuckVerifyUtil.
ERR_SUCCESS == 0
ERR_PUCK_PORT_CLOSED == 10
ERR_SEND_CMD_RETRIES == 20

MIN_PUCK_MEM == 96
RETRIES == 3          \* every sendPuckCmd call passes 3
MAX_CHARS == 100      \* sendPuckCmd's max_chars for readUntil

\* The command each step sends.
Cmd == [SZ |-> "PUCKSZ", TY1 |-> "PUCKTY", EM |-> "PUCKEM",
        VR |-> "PUCKVR", TY2 |-> "PUCKTY"]

\* _puckTermStr, "RDY\r".
Term == <<"R", "D", "Y", "CR">>

\* Characters in each token: "135168\r\n" for PUCKSZ (2112 * 64), "0002\r\n"
\* for PUCKTY, "MBARI PUCK REV 0.4\r\n" for PUCKVR, an echoed "PUCKxx\r\n".
Width(ch) == CASE ch = "SZ" -> 8 [] ch = "TY" -> 6 [] ch = "VR" -> 20
                [] ch = "echo" -> 8 [] OTHER -> 1

\* main's loop for one line: the handler's output (funcMemSizeCmd,
\* funcGetTypeCmd, funcVersionCmd; eraseFlash sends nothing and succeeds),
\* then "RDY\r", and '\n' after it in echo mode.
Answer(ln) ==
    LET out == CASE ln.cmd = "PUCKSZ" -> <<"SZ">> [] ln.cmd = "PUCKTY" -> <<"TY">>
                 [] ln.cmd = "PUCKVR" -> <<"VR">> [] OTHER -> <<>>
        chs == out \o Term \o (IF echoMode = 1 THEN <<"LF">> ELSE <<>>)
    IN  [i \in 1 .. Len(chs) |-> [ch |-> chs[i], ans |-> ln.n]]

\* getCommand echoes a line's characters, '\r' as "\r\n", as it takes them.
Echo(ln) == IF echoMode = 1 THEN <<[ch |-> "echo", ans |-> ln.n]>> ELSE <<>>

\* readUntil's terminator match after the character ch.
NextTerm(t, ch) == IF ch = Term[t + 1] THEN t + 1
                   ELSE IF ch = Term[1] THEN 1 ELSE 0

\* resp as readUntil leaves it: cut where the terminator starts.
Resp == SubSeq(resp, 1, Len(resp) - Len(Term))

\* sscanf(respBuff, "%ld", &memSize): blanks ('\r', '\n') skipped, then
\* the number that starts the text, or memSize left as it was.
IsSpace(t) == t.ch \in {"CR", "LF"}
ScanLong(s, old) ==
    LET rest == {i \in 1 .. Len(s) : ~IsSpace(s[i])}
        first == CHOOSE i \in rest : \A j \in rest : i <= j
    IN  IF rest = {} THEN old
        ELSE CASE s[first].ch = "SZ" -> 135168 [] s[first].ch = "TY" -> 2
               [] OTHER -> old

\* The step after memoryTest returns.
AfterMem == IF "cmd" \in tests THEN "VR" ELSE "done"

-----------------------------------------------------------------------------
Init ==
    /\ tests \in SUBSET {"mem", "cmd"}
    /\ portOpen \in BOOLEAN
    /\ hpc = CASE "mem" \in tests -> "SZ" [] "cmd" \in tests -> "VR"
              [] OTHER -> "done"
    /\ phase = "idle"
    /\ attempt = 0 /\ callLines = {}
    /\ resp = <<>> /\ termIndex = 0 /\ bytesRead = 0
    /\ ret = ERR_SUCCESS /\ memSize = 0
    /\ sentN = 0 /\ timeouts = 0
    /\ puckQ = <<>> /\ busy = <<>>
    /\ echoMode \in {0, 1}
    /\ fromPuck = <<>>

puckVars == <<puckQ, busy, echoMode, fromPuck>>
testVars == <<tests, portOpen, hpc, memSize>>

\* sendPuckCmd is called: with no port open it returns at once.
sendPuckCmd ==
    /\ hpc # "done" /\ phase = "idle"
    /\ IF portOpen
       THEN phase' = "write" /\ attempt' = 0 /\ callLines' = {} /\ UNCHANGED ret
       ELSE phase' = "ret" /\ ret' = ERR_PUCK_PORT_CLOSED
            /\ UNCHANGED <<attempt, callLines>>
    /\ UNCHANGED <<testVars, resp, termIndex, bytesRead, sentN, timeouts,
                   puckVars>>

\* One pass of the retry loop: Write the command, enter readUntil.
Write ==
    /\ phase = "write"
    /\ puckQ' = Append(puckQ, [cmd |-> Cmd[hpc], n |-> sentN])
    /\ callLines' = callLines \cup {sentN}
    /\ sentN' = sentN + 1
    /\ attempt' = attempt + 1
    /\ resp' = <<>> /\ termIndex' = 0 /\ bytesRead' = 0
    /\ phase' = "read"
    /\ UNCHANGED <<testVars, ret, timeouts, busy, echoMode, fromPuck>>

\* readUntil failed: the loop writes again, or gives up after RETRIES.
Retry ==
    IF attempt < RETRIES THEN phase' = "write" /\ UNCHANGED ret
    ELSE phase' = "ret" /\ ret' = ERR_SEND_CMD_RETRIES

\* readUntil reads one byte: the terminator ends it with ERR_SUCCESS, a
\* full buffer with ERR_READ_OVERRUN.
readUntil ==
    /\ phase = "read" /\ fromPuck # <<>>
    /\ LET c == Head(fromPuck)
           t == NextTerm(termIndex, c.ch)
           b == bytesRead + Width(c.ch)
       IN  /\ resp' = Append(resp, c) /\ termIndex' = t /\ bytesRead' = b
           /\ CASE t = Len(Term) -> phase' = "ret" /\ ret' = ERR_SUCCESS
                [] b >= MAX_CHARS -> Retry
                [] OTHER -> UNCHANGED <<phase, ret>>
    /\ fromPuck' = Tail(fromPuck)
    /\ UNCHANGED <<testVars, attempt, callLines, sentN, timeouts, puckQ, busy,
                   echoMode>>

\* elapsed > timeout: readUntil returns ERR_READ_TIMEOUT, whatever the
\* puck is still sending.
ReadTimeout ==
    /\ phase = "read" /\ timeouts < MaxTimeouts
    /\ timeouts' = timeouts + 1
    /\ Retry
    /\ UNCHANGED <<testVars, attempt, callLines, resp, termIndex, bytesRead,
                   sentN, puckVars>>

\* memoryTest goes on with what sendPuckCmd returned: it stops on an error
\* or a size below MIN_PUCK_MEM, and after PUCKEM at writePuckPattern,
\* which returns ERR_FAILURE.  (The read-only bit of PUCKTY's answer
\* changes only the size of the pattern that is never written.)
memoryTest ==
    /\ phase = "ret" /\ hpc \in {"SZ", "TY1", "EM"}
    /\ phase' = "idle"
    /\ memSize' = IF hpc = "SZ" /\ ret = ERR_SUCCESS
                  THEN ScanLong(Resp, memSize) ELSE memSize
    /\ hpc' = CASE ret # ERR_SUCCESS -> AfterMem
                [] hpc = "SZ" -> IF memSize' < MIN_PUCK_MEM THEN AfterMem ELSE "TY1"
                [] hpc = "TY1" -> "EM"
                [] hpc = "EM" -> AfterMem
    /\ UNCHANGED <<tests, portOpen, attempt, callLines, resp, termIndex,
                   bytesRead, ret, sentN, timeouts, puckVars>>

\* commandTest: PUCKVR, then PUCKTY unless PUCKVR failed.
commandTest ==
    /\ phase = "ret" /\ hpc \in {"VR", "TY2"}
    /\ phase' = "idle"
    /\ hpc' = IF hpc = "VR" /\ ret = ERR_SUCCESS THEN "TY2" ELSE "done"
    /\ UNCHANGED <<tests, portOpen, memSize, attempt, callLines, resp,
                   termIndex, bytesRead, ret, sentN, timeouts, puckVars>>

\* The puck's getCommand takes the next line and echoes it.
getCommand ==
    /\ busy = <<>> /\ puckQ # <<>>
    /\ busy' = <<Head(puckQ)>>
    /\ puckQ' = Tail(puckQ)
    /\ fromPuck' = fromPuck \o Echo(Head(puckQ))
    /\ UNCHANGED echoMode

\* The handler ends and main sends its output and RDY.
Dispatch ==
    /\ busy # <<>>
    /\ fromPuck' = fromPuck \o Answer(busy[1])
    /\ busy' = <<>>
    /\ UNCHANGED <<puckQ, echoMode>>

Host == sendPuckCmd \/ Write \/ readUntil \/ ReadTimeout \/ memoryTest \/ commandTest
PuckSteps == (getCommand \/ Dispatch)
    /\ UNCHANGED <<testVars, phase, attempt, callLines, resp, termIndex,
                   bytesRead, ret, sentN, timeouts>>

Next == Host \/ PuckSteps

Spec == Init /\ [][Next]_vars

-----------------------------------------------------------------------------
TypeInv ==
    /\ tests \subseteq {"mem", "cmd"}
    /\ phase \in {"idle", "write", "read", "ret"}
    /\ attempt \in 0 .. RETRIES
    /\ termIndex \in 0 .. Len(Term)
    /\ bytesRead \in 0 .. MAX_CHARS + 20

\* When sendPuckCmd returns ERR_SUCCESS, the reply readUntil accepted is the
\* puck's answer to this call's command: the tests use it as the answer
\* ("PUCKVR command returned '%s'", memoryTest's sscanf of PUCKSZ).
ReplyAnswersCommand ==
    phase = "ret" /\ ret = ERR_SUCCESS => resp[Len(resp)].ans \in callLines
=============================================================================
