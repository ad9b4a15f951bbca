-------------------------------- MODULE Puck --------------------------------
(***************************************************************************)
(* The MSP430 sensor-puck firmware of src/native/msp430/puck.             *)
(*                                                                         *)
(* The USART1 receive interrupt (serial.c) puts each byte of the wire into *)
(* the ring buffer rxByteBuffer (buffers.c); the main loop (main.c) takes  *)
(* bytes with getChar, assembles a line in getCommand, and on a carriage   *)
(* return dispatches it through the puckCmds table (commands.c, parser.c)  *)
(* to a handler of actions.c; the memory handlers drive the DataFlash      *)
(* (flash_mem.c): a page buffer in the chip, programmed into a page of     *)
(* main memory when it fills or when PUCKFM flushes it.                    *)
(*                                                                         *)
(* The host speaks the PUCK protocol: it sends one message, waits for the  *)
(* RDY prompt, erases (PUCKEM) before a write session of sequential        *)
(* PUCKWM commands and ends it with PUCKFM; it gives up waiting only when  *)
(* the puck has nothing left to answer (a long timeout), and it may cut    *)
(* the puck's power at any moment.                                         *)
(*                                                                         *)
(* Bytes are abstract: a command token stands for a whole command word and *)
(* its argument ("WM1" for "PUCKWM 1"), CR and BS for '\r' and '\b', and   *)
(* the DataBytes for values written into memory.                           *)
(***************************************************************************)
EXTENDS Naturals, Sequences, SequencesExt

CONSTANTS
    RX_BUFFER_SIZE,   \* serial.c: receive buffer, a power of two (32)
    MAX_CHARS,        \* main.c: the command line buffer (80)
    PAGE_SIZE,        \* flash_mem.c: bytes of a DataFlash page (264)
    PAGES,            \* pages of the DataFlash (4096)
    DataBytes,        \* values the host writes into memory
    Commands,         \* token -> [name |-> command word, arg |-> strtol of the rest]
    ReadMsgs,         \* messages the host sends outside a write session
    WriteMsgs         \* messages the host sends inside one

VARIABLES
    rxHead, rxTail, rxBytes, \* rxByteBuffer and rxBytes[] of serial.c
    got,          \* the byte getByte read from rxBytes[tail], before tail moves
    line,         \* line[0 .. char_count-1] of getCommand
    echoMode,     \* main.c
    UBR1,         \* baud-rate divisor register, UBR11:UBR01
    mpc,          \* "cmd": main loop; "data": funcWriteMemCmd's read loop;
                  \* "sensor": LPM4 after PUCKIM
    wmLeft,       \* bytes funcWriteMemCmd still waits for
    wmData,       \* data[] of funcWriteMemCmd
    flashMemPtr,  \* flash_mem.c
    sram,         \* the DataFlash's page buffer
    mem,          \* the DataFlash's main memory
    wire,         \* bytes the host has sent that the UART has not received
    awaiting,     \* the host waits for RDY
    hmode,        \* the host's session: "read" or "write"
    sent,         \* the command word of the host's last message
    written       \* what the PUCKWM commands since the last erase wrote where

puck == <<rxHead, rxTail, rxBytes, got, line, echoMode, UBR1, mpc,
          wmLeft, wmData, flashMemPtr, sram, mem>>
host == <<wire, awaiting, hmode, sent, written>>
vars == <<puck, host>>

CR == "CR"
BS == "BS"
NUL == "NUL"          \* a zeroed static byte
None == "none"
Erased == "FF"        \* an erased flash byte
Garbled == "garbled"  \* two different values programmed over each other

Bytes == DataBytes \cup {CR, BS} \cup DOMAIN Commands

\* errors.h
ERR_SUCCESS == 0
ERR_EMPTY_LINE == 2
ERR_NO_COMMAND == 4
ERR_SERIAL_INVALID_BAUD == 10
ERR_BYTES_OUT_OF_RANGE == 20
ERR_ADDRESS_RANGE == 21

SYSTEM_CLOCK == 7372800
MAX_READ_BYTES == 1024
MAX_WRITE_BYTES == 32

MemSize == PAGE_SIZE * PAGES      \* getMemSize: BYTES_PER_BLOCK * blocks
Addr == 0 .. MemSize - 1
PageBytes == 0 .. PAGE_SIZE - 1

(***************************************************************************)
(* buffers.c over rxByteBuffer; ptr_mask = RX_BUFFER_SIZE - 1, so & is %. *)
(***************************************************************************)
\* An isBufferFull that counts one slot too many as taken.
isBufferFull_early ==
    \/ (rxHead + 1) % RX_BUFFER_SIZE = rxTail
    \/ (rxHead + 2) % RX_BUFFER_SIZE = rxTail
isBufferFull == (rxHead + 1) % RX_BUFFER_SIZE = rxTail
isBufferEmpty == rxTail = rxHead
dataAvailable == (rxHead - rxTail) % RX_BUFFER_SIZE

\* The bytes in the ring, oldest first.
RxQueue == [i \in 1 .. dataAvailable |-> rxBytes[(rxTail + i - 1) % RX_BUFFER_SIZE]]

\* The bytes the main loop has not read yet: the refinement mapping.
Unread == IF got = None \/ RxQueue = <<>> THEN RxQueue ELSE Tail(RxQueue)

\* A putByte that does not test for a full buffer.
putByte_unchecked(c) ==
    /\ rxBytes' = [rxBytes EXCEPT ![rxHead] = c]
    /\ rxHead' = (rxHead + 1) % RX_BUFFER_SIZE

putByte(c) ==
    IF isBufferFull
    THEN UNCHANGED <<rxHead, rxBytes>>
    ELSE /\ rxBytes' = [rxBytes EXCEPT ![rxHead] = c]
         /\ rxHead' = (rxHead + 1) % RX_BUFFER_SIZE

\* getByte past its read: the tail moves on and the byte is consumed.
getByte_advance ==
    /\ rxTail' = (rxTail + 1) % RX_BUFFER_SIZE
    /\ got' = None

(***************************************************************************)
(* serial.c                                                                *)
(***************************************************************************)
isBaudValid(b) == b \in {9600, 19200, 38400, 57600, 115200}

\* initSerial's divisor, UBR11 = 0x03 and UBR01 = 0x00: 9600 baud.
UBR_9600 == 3 * 256 + 0

\* initSerial: the divisor for 9600 baud and empty receive and transmit
\* rings (the hardware set-up is outside the model).
initSerial ==
    /\ rxHead' = 0 /\ rxTail' = 0
    /\ UBR1' = UBR_9600

\* getBaud: the rate the divisor UBR11:UBR01 gives.
getBaud == SYSTEM_CLOCK \div UBR1

\* Mutant: the rate is not checked before the divisor is written.
setBaud_unchecked(baud) ==
    LET reg_val == (SYSTEM_CLOCK \div baud) % 2^16
    IN  [ret |-> ERR_SUCCESS, ubr |-> ((reg_val \div 256) % 256) * 256 + (reg_val % 256)]

\* setBaud: an invalid rate is refused and the divisor kept; otherwise
\* the 16-bit SYSTEM_CLOCK / baud is split over UBR11 and UBR01.
setBaud(baud) ==
    IF ~isBaudValid(baud) THEN [ret |-> ERR_SERIAL_INVALID_BAUD, ubr |-> UBR1]
    ELSE LET reg_val == (SYSTEM_CLOCK \div baud) % 2^16
         IN  [ret |-> ERR_SUCCESS, ubr |-> ((reg_val \div 256) % 256) * 256 + (reg_val % 256)]

(***************************************************************************)
(* flash_mem.c and the DataFlash.  Page numbers are masked with            *)
(* MEM_ARCH_PAGE_SZ, so a page past the end is page 0 again.              *)
(***************************************************************************)
addressToMemArch(a) == [page |-> a \div PAGE_SIZE, byte |-> a % PAGE_SIZE]

\* Programming without built-in erase can only clear bits.
ProgramByte(old, new) ==
    IF old = new \/ new = Erased THEN old
    ELSE IF old = Erased THEN new
    ELSE Garbled

\* BUFFER_TO_MAIN_MEMORY: the page buffer programmed into a page.
ProgramPage(page, buf) ==
    [a \in Addr |-> IF a \div PAGE_SIZE = page % PAGES
                    THEN ProgramByte(mem[a], buf[a % PAGE_SIZE])
                    ELSE mem[a]]

adjustAddressPtr(p) == IF p >= MemSize THEN p % MemSize ELSE p

\* A writeFlash that programs the page only once a write runs past its end.
writeFlash_pastEnd(data) ==
    LET n == Len(data)
        at == addressToMemArch(flashMemPtr)
        k == PAGE_SIZE - at.byte
        filled == [j \in PageBytes |->
                     IF j >= at.byte /\ j < at.byte + n THEN data[j - at.byte + 1]
                     ELSE sram[j]]
    IN IF at.byte + n > PAGE_SIZE
       THEN /\ mem' = ProgramPage(at.page, filled)
            /\ sram' = [j \in PageBytes |-> IF j < n - k THEN data[k + j + 1]
                                            ELSE filled[j]]
       ELSE /\ sram' = filled
            /\ UNCHANGED mem

\* writeFlash(data, bytes): BUFFER_WRITE from byte_addr; a write that
\* reaches the end of the page programs the page and goes on at buffer 0.
\* (flashMemPtr moves on by the bytes written: see funcWriteMemCmd_write.)
writeFlash(data) ==
    LET n == Len(data)
        at == addressToMemArch(flashMemPtr)
        k == PAGE_SIZE - at.byte
        filled == [j \in PageBytes |->
                     IF j >= at.byte /\ j < at.byte + n THEN data[j - at.byte + 1]
                     ELSE sram[j]]
    IN /\ IF at.byte + n >= PAGE_SIZE
          THEN /\ mem' = ProgramPage(at.page, filled)
               /\ sram' = [j \in PageBytes |-> IF j < n - k THEN data[k + j + 1]
                                               ELSE filled[j]]
          ELSE /\ sram' = filled
               /\ UNCHANGED mem

\* closeFlash: the rest of the page buffer set to 0xFF and programmed.
closeFlash ==
    LET at == addressToMemArch(flashMemPtr)
        padded == [j \in PageBytes |-> IF j >= at.byte THEN Erased ELSE sram[j]]
    IN /\ sram' = padded
       /\ mem' = ProgramPage(at.page, padded)
       /\ flashMemPtr' = flashMemPtr + (PAGE_SIZE - at.byte)

\* eraseFlash: every block erased, the pointer back to 0.
eraseFlash ==
    /\ mem' = [a \in Addr |-> Erased]
    /\ flashMemPtr' = 0
    /\ UNCHANGED sram

(***************************************************************************)
(* parser.c over the puckCmds table: a line whose first word is a command *)
(* name runs that command on the rest of the line.  Here a token stands   *)
(* for the command word; PuckParser checks parse on the characters.       *)
(***************************************************************************)
parse(l) ==
    IF l = <<>> THEN "empty"
    ELSE IF l[1] \in DOMAIN Commands THEN Commands[l[1]].name
    ELSE "unknown"

arg(l) == Commands[l[1]].arg

(***************************************************************************)
(* The state after initModules: static data zeroed, the serial buffers     *)
(* cleared, the pointer at 0, 9600 baud; the page buffer holds whatever it *)
(* held; memory is what it was.                                            *)
(***************************************************************************)
initModules ==
    /\ initSerial
    /\ rxBytes' = [i \in 0 .. RX_BUFFER_SIZE - 1 |-> NUL]
    /\ got' = None
    /\ line' = <<>>
    /\ echoMode' = 0
    /\ mpc' = "cmd"
    /\ wmLeft' = 0 /\ wmData' = <<>>
    /\ flashMemPtr' = 0
    /\ sram' \in [PageBytes -> DataBytes \cup {Erased}]

Init ==
    /\ rxHead = 0 /\ rxTail = 0
    /\ rxBytes = [i \in 0 .. RX_BUFFER_SIZE - 1 |-> NUL]
    /\ got = None
    /\ line = <<>>
    /\ echoMode = 0
    /\ UBR1 = UBR_9600
    /\ mpc = "cmd"
    /\ wmLeft = 0 /\ wmData = <<>>
    /\ flashMemPtr = 0
    /\ sram \in [PageBytes -> DataBytes \cup {Erased}]
    /\ mem = [a \in Addr |-> Erased]
    /\ wire = <<>> /\ awaiting = FALSE /\ hmode = "read" /\ sent = None
    /\ written = mem

(***************************************************************************)
(* The host hears the RDY prompt that main sends after every line.  A      *)
(* PUCKEM that succeeded opens a write session, a PUCKFM that succeeded    *)
(* closes it.                                                              *)
(***************************************************************************)
Reply(ret) ==
    /\ awaiting' = FALSE
    /\ hmode' = CASE sent = "PUCKEM" /\ ret = ERR_SUCCESS -> "write"
                  [] sent = "PUCKFM" /\ ret = ERR_SUCCESS -> "read"
                  [] OTHER -> hmode
    /\ UNCHANGED <<wire, sent>>

(***************************************************************************)
(* usart1_rx: the UART hands the next byte of the wire to putByte; a byte  *)
(* that finds the buffer full is lost.                                     *)
(***************************************************************************)
usart1_rx ==
    /\ mpc # "sensor"
    /\ wire # <<>>
    /\ putByte(Head(wire))
    /\ wire' = Tail(wire)
    /\ UNCHANGED <<rxTail, got, line, echoMode, UBR1, mpc, wmLeft,
                   wmData, flashMemPtr, sram, mem, awaiting, hmode,
                   sent, written>>

(***************************************************************************)
(* getChar -> getByte: the main loop finds the buffer non-empty and reads  *)
(* rxBytes[tail]; the interrupt may run before it moves the tail on.       *)
(***************************************************************************)
getChar ==
    /\ mpc \in {"cmd", "data"}
    /\ got = None
    /\ ~isBufferEmpty
    /\ got' = rxBytes[rxTail]
    /\ UNCHANGED <<rxHead, rxTail, rxBytes, line, echoMode, UBR1,
                   mpc, wmLeft, wmData, flashMemPtr, sram, mem, host>>

\* A getCommand that stores every byte but a backspace.
getCommand_unbounded ==
    /\ mpc = "cmd"
    /\ got \notin {None, CR}
    /\ getByte_advance
    /\ line' = IF got # BS THEN Append(line, got)
               ELSE IF Len(line) > 0 THEN Front(line)
               ELSE line
    /\ UNCHANGED <<rxHead, rxBytes, echoMode, UBR1, mpc, wmLeft, wmData,
                   flashMemPtr, sram, mem, host>>

(***************************************************************************)
(* getCommand with a byte other than the terminator: stored while the line *)
(* has room and it is not a backspace, otherwise the last byte is dropped.  *)
(***************************************************************************)
getCommand ==
    /\ mpc = "cmd"
    /\ got \notin {None, CR}
    /\ getByte_advance
    /\ line' = IF got # BS /\ Len(line) < MAX_CHARS THEN Append(line, got)
               ELSE IF Len(line) > 0 THEN Front(line)
               ELSE line
    /\ UNCHANGED <<rxHead, rxBytes, echoMode, UBR1, mpc, wmLeft, wmData,
                   flashMemPtr, sram, mem, host>>

(***************************************************************************)
(* getCommand with the terminator: the line goes to main, which parses it  *)
(* and runs the command it names.                                          *)
(***************************************************************************)
LineEnd(name) ==
    /\ mpc = "cmd"
    /\ got = CR
    /\ parse(line) = name
    /\ getByte_advance
    /\ line' = <<>>
    /\ UNCHANGED rxHead /\ UNCHANGED rxBytes

EmptyLine ==
    /\ LineEnd("empty")
    /\ Reply(ERR_EMPTY_LINE)
    /\ UNCHANGED <<echoMode, UBR1, mpc, wmLeft, wmData, flashMemPtr, sram, mem,
                   written>>

NoCommand ==
    /\ LineEnd("unknown")
    /\ Reply(ERR_NO_COMMAND)
    /\ UNCHANGED <<echoMode, UBR1, mpc, wmLeft, wmData, flashMemPtr, sram, mem,
                   written>>

\* readFlash: a continuous read from the pointer; the pointer after it
\* (the bytes sent to the host are not modelled).
readFlash(ptr, bytes) == ptr + bytes

\* funcReadMemCmd's loop: readFlash in chunks of at most 32 bytes until
\* i reaches bytes; the pointer it leaves.
RECURSIVE ReadLoop(_, _, _)
ReadLoop(ptr, bytes, i) ==
    IF i >= bytes THEN ptr
    ELSE IF bytes - i > 32 THEN ReadLoop(readFlash(ptr, 32), bytes, i + 32)
    ELSE ReadLoop(readFlash(ptr, bytes - i), bytes, bytes)

\* funcReadMemCmd: a count in range is read through ReadLoop, then
\* adjustAddressPtr.
funcReadMemCmd ==
    /\ LineEnd("PUCKRM")
    /\ \/ /\ arg(line) \in 0 .. MAX_READ_BYTES
          /\ flashMemPtr' = adjustAddressPtr(ReadLoop(flashMemPtr, arg(line), 0))
          /\ Reply(ERR_SUCCESS)
       \/ /\ arg(line) \notin 0 .. MAX_READ_BYTES
          /\ UNCHANGED flashMemPtr
          /\ Reply(ERR_BYTES_OUT_OF_RANGE)
    /\ UNCHANGED <<echoMode, UBR1, mpc, wmLeft, wmData, sram, mem, written>>

\* Mutant: the read loop asks for one byte more than the command names.
funcWriteMemCmd_extraByte ==
    /\ LineEnd("PUCKWM")
    /\ \/ /\ arg(line) \notin 0 .. MAX_WRITE_BYTES
          /\ Reply(ERR_BYTES_OUT_OF_RANGE)
          /\ UNCHANGED <<mpc, wmLeft>>
       \/ /\ arg(line) \in 0 .. MAX_WRITE_BYTES
          /\ arg(line) + flashMemPtr > MemSize
          /\ Reply(ERR_ADDRESS_RANGE)
          /\ UNCHANGED <<mpc, wmLeft>>
       \/ /\ arg(line) \in 0 .. MAX_WRITE_BYTES
          /\ arg(line) + flashMemPtr <= MemSize
          /\ mpc' = "data"
          /\ wmLeft' = arg(line) + 1
          /\ UNCHANGED host
    /\ wmData' = <<>>
    /\ UNCHANGED <<echoMode, UBR1, flashMemPtr, sram, mem, written>>

\* funcWriteMemCmd up to its read loop.
funcWriteMemCmd ==
    /\ LineEnd("PUCKWM")
    /\ \/ /\ arg(line) \notin 0 .. MAX_WRITE_BYTES
          /\ Reply(ERR_BYTES_OUT_OF_RANGE)
          /\ UNCHANGED <<mpc, wmLeft>>
       \/ /\ arg(line) \in 0 .. MAX_WRITE_BYTES
          /\ arg(line) + flashMemPtr > MemSize
          /\ Reply(ERR_ADDRESS_RANGE)
          /\ UNCHANGED <<mpc, wmLeft>>
       \/ /\ arg(line) \in 0 .. MAX_WRITE_BYTES
          /\ arg(line) + flashMemPtr <= MemSize
          /\ mpc' = "data"
          /\ wmLeft' = arg(line)
          /\ UNCHANGED host
    /\ wmData' = <<>>
    /\ UNCHANGED <<echoMode, UBR1, flashMemPtr, sram, mem, written>>

\* The read loop of funcWriteMemCmd: data[i] = c for each byte getChar gives.
funcWriteMemCmd_getChar ==
    /\ mpc = "data"
    /\ wmLeft > 0
    /\ got # None
    /\ getByte_advance
    /\ wmData' = Append(wmData, got)
    /\ wmLeft' = wmLeft - 1
    /\ UNCHANGED <<rxHead, rxBytes, line, echoMode, UBR1, mpc, flashMemPtr,
                   sram, mem, host>>

\* The end of funcWriteMemCmd: writeFlash, adjustAddressPtr, and main's RDY.
funcWriteMemCmd_write ==
    /\ mpc = "data"
    /\ wmLeft = 0
    /\ writeFlash(wmData)
    /\ flashMemPtr' = adjustAddressPtr(flashMemPtr + Len(wmData))
    /\ written' = [a \in Addr |->
                     IF a >= flashMemPtr /\ a < flashMemPtr + Len(wmData)
                     THEN wmData[a - flashMemPtr + 1] ELSE written[a]]
    /\ mpc' = "cmd"
    /\ Reply(ERR_SUCCESS)
    /\ UNCHANGED <<rxHead, rxTail, rxBytes, got, line, echoMode,
                   UBR1, wmLeft, wmData>>

funcSetAddressCmd ==
    /\ LineEnd("PUCKSA")
    /\ \/ /\ arg(line) \in 0 .. MemSize - 1
          /\ flashMemPtr' = arg(line)
          /\ Reply(ERR_SUCCESS)
       \/ /\ arg(line) \notin 0 .. MemSize - 1
          /\ UNCHANGED flashMemPtr
          /\ Reply(ERR_ADDRESS_RANGE)
    /\ UNCHANGED <<echoMode, UBR1, mpc, wmLeft, wmData, sram, mem, written>>

funcFlushMemCmd ==
    /\ LineEnd("PUCKFM")
    /\ closeFlash
    /\ Reply(ERR_SUCCESS)
    /\ UNCHANGED <<echoMode, UBR1, mpc, wmLeft, wmData, written>>

funcClearMemCmd ==
    /\ LineEnd("PUCKEM")
    /\ eraseFlash
    /\ written' = [a \in Addr |-> Erased]
    /\ Reply(ERR_SUCCESS)
    /\ UNCHANGED <<echoMode, UBR1, mpc, wmLeft, wmData>>

\* funcSensorModeCmd: relays to the instrument, the flash deselected, and
\* LPM4 with every clock off; no RDY is ever sent.
funcSensorModeCmd ==
    /\ LineEnd("PUCKIM")
    /\ mpc' = "sensor"
    /\ UNCHANGED <<echoMode, UBR1, wmLeft, wmData, flashMemPtr, sram, mem, host>>

funcSetBaudCmd ==
    /\ LineEnd("PUCKSB")
    /\ UBR1' = setBaud(arg(line)).ubr
    /\ Reply(setBaud(arg(line)).ret)
    /\ UNCHANGED <<echoMode, mpc, wmLeft, wmData, flashMemPtr, sram, mem, written>>

funcToggleEchoCmd ==
    /\ LineEnd("ECHO")
    /\ echoMode' = 1 - echoMode
    /\ Reply(ERR_SUCCESS)
    /\ UNCHANGED <<UBR1, mpc, wmLeft, wmData, flashMemPtr, sram, mem, written>>

\* The handlers that only send text: funcGetAddressCmd, funcMemSizeCmd,
\* funcGetBaudCmd, funcGetTypeCmd, funcIsBaudValidCmd, funcVersionCmd,
\* funcShowHelpCmd, funcHelloKittyCmd.
ReportNames == {"PUCKGA", "PUCKSZ", "PUCKGB", "PUCKTY", "PUCKVB", "PUCKVR",
                "HELP", "HELLO KITTY"}

ReportCmd ==
    /\ \E name \in ReportNames : LineEnd(name) /\ Reply(ERR_SUCCESS)
    /\ UNCHANGED <<echoMode, UBR1, mpc, wmLeft, wmData, flashMemPtr, sram, mem,
                   written>>

(***************************************************************************)
(* The host.                                                               *)
(***************************************************************************)
HostSend ==
    /\ ~awaiting
    /\ wire = <<>>
    /\ \E m \in (IF hmode = "read" THEN ReadMsgs ELSE WriteMsgs) :
          /\ wire' = m
          /\ sent' = IF m[1] \in DOMAIN Commands THEN Commands[m[1]].name ELSE None
    /\ awaiting' = TRUE
    /\ UNCHANGED <<puck, hmode, written>>

\* The host stops waiting only once the puck has every byte, has nothing
\* left in its buffer and is not in the middle of a write.
HostTimeout ==
    /\ awaiting
    /\ wire = <<>>
    /\ isBufferEmpty
    /\ got = None
    /\ mpc # "data"
    /\ awaiting' = FALSE
    /\ UNCHANGED <<puck, wire, hmode, sent, written>>

\* In LPM4 the UART has no clock: bytes on the wire are not received.
WireToSleeper ==
    /\ mpc = "sensor"
    /\ wire # <<>>
    /\ wire' = Tail(wire)
    /\ UNCHANGED <<puck, awaiting, hmode, sent, written>>

\* The host cuts and restores the puck's power; what the page buffer held
\* and was not programmed is lost, and the host knows it.
PowerCycle ==
    /\ initModules
    /\ UNCHANGED mem
    /\ wire' = <<>>
    /\ awaiting' = FALSE
    /\ hmode' = "read"
    /\ written' = mem
    /\ UNCHANGED sent

Main ==
    \/ getChar \/ getCommand
    \/ EmptyLine \/ NoCommand \/ ReportCmd
    \/ funcReadMemCmd \/ funcWriteMemCmd \/ funcWriteMemCmd_getChar
    \/ funcWriteMemCmd_write \/ funcSetAddressCmd \/ funcFlushMemCmd
    \/ funcClearMemCmd \/ funcSensorModeCmd \/ funcSetBaudCmd
    \/ funcToggleEchoCmd

Next ==
    \/ Main
    \/ usart1_rx
    \/ HostSend \/ HostTimeout \/ WireToSleeper \/ PowerCycle

Spec ==
    /\ Init /\ [][Next]_vars
    /\ WF_vars(Main)
    /\ WF_vars(usart1_rx)
    /\ WF_vars(HostTimeout)
    /\ WF_vars(WireToSleeper)

(***************************************************************************)
(* Properties                                                              *)
(***************************************************************************)
TypeInv ==
    /\ rxHead \in 0 .. RX_BUFFER_SIZE - 1
    /\ rxTail \in 0 .. RX_BUFFER_SIZE - 1
    /\ rxBytes \in [0 .. RX_BUFFER_SIZE - 1 -> Bytes \cup {NUL}]
    /\ got \in Bytes \cup {None}
    /\ line \in Seq(Bytes) /\ Len(line) <= MAX_CHARS
    /\ mpc \in {"cmd", "data", "sensor"}
    /\ flashMemPtr \in Nat
    /\ sram \in [PageBytes -> DataBytes \cup {Erased} \cup Bytes]
    /\ mem \in [Addr -> Bytes \cup {Erased, Garbled}]
    /\ hmode \in {"read", "write"}

\* The ring buffer, its interrupt handler and getChar implement a bounded
\* FIFO of RX_BUFFER_SIZE - 1 bytes (one slot stays free to tell full from
\* empty), even though the interrupt may run between getByte's read of
\* rxBytes[tail] and its move of the tail.
\* A byte the UART hands to putByte while the ring holds fewer than
\* RX_BUFFER_SIZE - 1 bytes is stored behind the unread ones: the ring loses
\* a byte only when it is full (buffers.c:16), whatever the main loop's
\* getByte is doing.  A power cycle, which empties the ring, is the only
\* other way a byte leaves the wire while the puck is awake.  (RxFifo maps a
\* lost byte to a stutter, so it does not say this.)
ReceivedUnlessFull ==
    [][/\ wire # <<>> /\ wire' = Tail(wire)
       /\ mpc # "sensor" /\ dataAvailable < RX_BUFFER_SIZE - 1
       => RxQueue' \in {Append(RxQueue, Head(wire)), <<>>}]_vars

Fifo == INSTANCE PuckRxFifo WITH queue <- Unread, taken <- got,
                                 Capacity <- RX_BUFFER_SIZE - 1
RxFifo == Fifo!Spec

\* Every message the host sends ends with RDY, or with the host giving up
\* because the puck has nothing left to answer: funcWriteMemCmd's read loop
\* never waits for a byte the host does not send.
HostAnswered == awaiting ~> ~awaiting

\* States that differ only in receive-buffer slots outside the queue, which
\* are overwritten before they are read, behave alike; so do states that
\* differ only in echoMode, which decides what the puck echoes and no guard
\* of the model reads.  UBR1 stays: BaudReported reads it.
View == <<RxQueue, rxHead, got, line, UBR1, mpc, wmLeft,
          wmData, flashMemPtr, sram, mem, host>>

\* PUCKGB (funcGetBaudCmd, through getBaud) always reports a rate that
\* PUCKVB accepts, whatever PUCKSB commands, valid or not, and power
\* cycles came before: setBaud refuses a bad rate before it writes the
\* divisor, and the 16-bit divisor of every valid rate divides back exactly.
BaudReported == isBaudValid(getBaud)

\* Memory never holds a value no PUCKWM wrote there since the last erase,
\* and when the host has closed its write session with PUCKFM (or never
\* opened one) memory holds exactly what it wrote: the page-buffer writes
\* of writeFlash, its programming at the page end, and closeFlash's padding
\* lose and invent nothing.
FlashHoldsWrites ==
    /\ \A a \in Addr : mem[a] \in {written[a], Erased}
    /\ hmode = "read" => mem = written

=============================================================================
