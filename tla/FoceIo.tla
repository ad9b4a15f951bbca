------------------------------- MODULE FoceIo -------------------------------
(***************************************************************************)
(* The FOCE I/O server, src/native/foce/foceio.c.  main() claims the Elmo *)
(* digital I/O board, switches the Elmo power bits on and accepts         *)
(* connections; each connection gets an ioSrv thread that reads command  *)
(* lines and runs each of them under iomutex.  The threads share the      *)
(* relay boards (relayBoards, relayStates and the words written to their  *)
(* I/O ports), the A/D boards (adBoards, adSettings and the settings      *)
(* loaded into each board), the settings cache lastBoard/lastChan and the *)
(* Elmo power byte on DIO port A of board 0.                              *)
(*                                                                         *)
(* A command is two steps of its thread: Lock reads a line and takes      *)
(* iomutex; the command's action runs it and releases iomutex.  Every    *)
(* call into the Diamond Systems library may fail, which is how the      *)
(* code's error paths are reached.                                        *)
(*                                                                         *)
(* The env* commands talk to the Sensoray 518 board (sensoray.c) one byte  *)
(* at a time while the thread keeps iomutex: each byte sent waits for the  *)
(* board's command register to empty (CRMT), each byte read waits for its  *)
(* data register to fill (DAV).  The board is the environment.             *)
(*                                                                         *)
(* Every thread also talks to the LPC super-I/O chip through its index   *)
(* and data ports: initCPUTemp, before the thread's command loop and      *)
(* without iomutex, and the CPUtemp command, under iomutex.               *)
(***************************************************************************)
EXTENDS Integers, FiniteSets, Bitwise, SequencesExt

CONSTANTS Conns,              \* the connections, one ioSrv thread each
          MAX_RELAY_BOARDS,
          MAX_ANALOG_BOARDS,
          AD_CHANS_PER_BOARD,
          RelayAddrs,         \* the addresses relayInit may name
          Workloads,          \* sets of command lines the clients may send
          NUMBER_OF_CHANNELS, \* Sensoray channels (8 in sensoray.h)
          None

VARIABLES conn,         \* per connection: "open", or "closed" when no thread serves it
          holder,       \* iomutex: the thread holding it, or None
          relayBoards,  \* board index -> I/O address, -1 when free
          relayStates,  \* board index -> relay word last computed
          port,         \* I/O address -> last word outw wrote, or None
          adBoards,     \* A/D slot -> base address, -1 when free
          adSettings,   \* A/D slot -> channel -> DSCADSETTINGS
          loaded,       \* A/D slot -> settings the board holds, or Default
          lastBoard, lastChan,
          elmo,         \* DIO port A of board 0, the Elmo power enables
          envOps,       \* per thread: the Sensoray byte transfers its env command has left
          cmdReg,       \* the 518's command register: a byte, or None when CRMT is set
          boardIn,      \* the bytes of the command the 518 has taken so far
          dataQ,        \* the reply bytes the 518 still has to give (DAV = dataQ > 0)
          lines,        \* the command lines this behaviour's clients send
          lpcOps,       \* per thread: the LPC port transfers it has left
          lpcIndex      \* the LPC chip's index register, or None before any write

ioVars == <<conn, holder, relayBoards, relayStates, port, adBoards,
            adSettings, loaded, lastBoard, lastChan, elmo, lines>>
envVars == <<envOps, cmdReg, boardIn, dataQ>>
lpcVars == <<lpcOps, lpcIndex>>
vars == <<conn, holder, relayBoards, relayStates, port, adBoards,
          adSettings, loaded, lastBoard, lastChan, elmo,
          envOps, cmdReg, boardIn, dataQ, lines, lpcOps, lpcIndex>>

OK == 0
ERROR == -1
AD_INT_LEVEL == 7
ELMO_ADDR == 768            \* 0x300
ELMO_ALL_ON == 192          \* 0xC0
Byte == 0 .. 255
Relays == 0 .. MAX_RELAY_BOARDS - 1
Slots == 0 .. MAX_ANALOG_BOARDS - 1
Chans == 0 .. AD_CHANS_PER_BOARD - 1
\* memset(adSettings, -1, ...): every byte of every field is 0xFF.
Unset == [current_channel |-> 255, range |-> 255, polarity |-> 255, gain |-> 255]
\* What dscInitBoard leaves in the board's A/D registers: no channel's
\* settings.
Default == [current_channel |-> -1, range |-> -1, polarity |-> -1, gain |-> -1]
\* The field codes of dscud.h.
RANGE_5 == 0
RANGE_10 == 1
BIPOLAR == 0
UNIPOLAR == 1
GAIN == [g \in {1, 2, 4, 8} |-> CASE g = 1 -> 0 [] g = 2 -> 1 [] g = 4 -> 2 [] g = 8 -> 3]

\* Mutant: claims a free index without first looking for the address.
getRelayBoard_noLookup(addr) ==
    IF \E i \in Relays : relayBoards[i] = -1
    THEN CHOOSE i \in Relays : relayBoards[i] = -1
             /\ \A j \in Relays : j < i => relayBoards[j] # -1
    ELSE -1

\* The index of a relay board with address addr: an existing one, else the
\* first free one, which it claims; -1 when all are taken.
getRelayBoard(addr) ==
    IF \E i \in Relays : relayBoards[i] = addr
    THEN CHOOSE i \in Relays : relayBoards[i] = addr
    ELSE IF \E i \in Relays : relayBoards[i] = -1
         THEN CHOOSE i \in Relays : relayBoards[i] = -1
                  /\ \A j \in Relays : j < i => relayBoards[j] # -1
         ELSE -1

\* The first A/D slot that has address addr or is free.
adSlot(addr) ==
    LET S == {i \in Slots : adBoards[i] \in {addr, -1}}
    IN IF S = {} THEN -1 ELSE CHOOSE i \in S : \A j \in S : i <= j

\* adDIOConfig(addr, config_byte): initADBoard claims the first slot that
\* has addr or is free, before dscInit, dscInitBoard and dscDIOSetConfig,
\* any of which may fail after the claim; boards are the slots before.
adDIOConfig(boards, addr) ==
    LET S == {i \in Slots : boards[i] \in {addr, -1}}
    IN  IF S = {} THEN boards
        ELSE [boards EXCEPT ![CHOOSE i \in S : \A j \in S : i <= j] = addr]

\* adDIOOutputByte: dscDIOOutputByte writes ioByte to a DIO port holding
\* old, or fails and leaves it (its error code is returned, not acted on).
adDIOOutputByte(old, ioByte) == {old, ioByte}

\* configElmo: the Elmo board's DIO ports configured at ELMO_ADDR.
configElmo(boards) == adDIOConfig(boards, ELMO_ADDR)

verifyADChan(board, chan, nchans, checkSetup) ==
    /\ board < MAX_ANALOG_BOARDS
    /\ adBoards[board] >= 0
    /\ chan + nchans <= AD_CHANS_PER_BOARD
    /\ checkSetup => adSettings[board][chan].current_channel <= AD_CHANS_PER_BOARD

Init ==
    /\ conn = [t \in Conns |-> "closed"]
    /\ holder = None
    /\ relayBoards = [i \in Relays |-> -1]
    /\ relayStates = [i \in Relays |-> 0]
    /\ port = [a \in RelayAddrs \cup {-1} |-> None]
    \* adBoards[i] = -1 for every slot, then configElmo
    /\ adBoards = configElmo([i \in Slots |-> -1])
    /\ adSettings = [i \in Slots |-> [c \in Chans |-> Unset]]
    /\ loaded = [i \in Slots |-> Default]
    /\ lastBoard = -1 /\ lastChan = -1
    \* switchElmo(ELMO_ALL_ON) on the port's reset value 0
    /\ elmo \in adDIOOutputByte(0, ELMO_ALL_ON)
    \* main never touches the 518: it is idle until the first env command.
    /\ envOps = [t \in Conns |-> <<>>]
    /\ cmdReg = None /\ boardIn = <<>> /\ dataQ = 0
    /\ lines \in Workloads
    /\ lpcOps = [t \in Conns |-> <<>>] /\ lpcIndex = None

-----------------------------------------------------------------------------
(* ioSrv: the connection's thread and its lock discipline.                  *)

\* The LPC chip's ports.  A byte written to LPC_INDEX selects a register;
\* LPC_DATA reads or writes the register selected.  A transfer to LPC_DATA
\* carries the register its code selected just before (sel); the values
\* written and read are left out.
LPC_INDEX == 661            \* 0x295
LPC_DATA == 662             \* 0x296
SelectLpc(reg) == [io |-> "outb", port |-> LPC_INDEX, byte |-> reg]
WriteLpc(reg) == << SelectLpc(reg), [io |-> "outb", port |-> LPC_DATA, sel |-> reg] >>
ReadLpc(reg) == << SelectLpc(reg), [io |-> "inb", port |-> LPC_DATA, sel |-> reg] >>

\* initCPUTemp: thermal diode mode (0x51), unlock the offset registers
\* (0x5c), CPU and ambient offsets (0x56, 0x57), lock them again.
initCPUTemp ==
    WriteLpc(81) \o WriteLpc(92) \o WriteLpc(86) \o WriteLpc(87) \o WriteLpc(92)

\* CPUtemp: the CPU (0x29) and ambient (0x2a) temperature registers.
CPUtempOps == ReadLpc(41) \o ReadLpc(42)

\* ioSrv, before its command loop: socket options, fdopen, then
\* initCPUTemp, all without iomutex.
ioSrvStart(t) == lpcOps' = [lpcOps EXCEPT ![t] = initCPUTemp]

\* main: accept() returns a socket and a new ioSrv thread serves it.
Accept(t) ==
    /\ conn[t] # "open"
    /\ conn' = [conn EXCEPT ![t] = "open"]
    /\ ioSrvStart(t)
    /\ UNCHANGED <<holder, relayBoards, relayStates, port, adBoards,
                   adSettings, loaded, lastBoard, lastChan, elmo, lpcIndex>>

\* fgets returns a line; the thread takes iomutex before it looks at it.
\* The line is the thread's own until then, so the model picks it when the
\* command runs.
Lock(t) ==
    /\ conn[t] = "open" /\ lpcOps[t] = <<>>
    /\ holder = None
    /\ holder' = t
    /\ UNCHANGED <<conn, relayBoards, relayStates, port, adBoards,
                   adSettings, loaded, lastBoard, lastChan, elmo>>

\* fgets returns NULL: the client has gone, the thread closes and ends.
Disconnect(t) ==
    /\ conn[t] = "open" /\ lpcOps[t] = <<>>
    /\ holder # t
    /\ conn' = [conn EXCEPT ![t] = "closed"]
    /\ UNCHANGED <<holder, relayBoards, relayStates, port, adBoards,
                   adSettings, loaded, lastBoard, lastChan, elmo>>

\* The end of every branch of the command chain: pthread_mutex_unlock.
Unlock(t) == holder' = None

\* Thread t holds iomutex and is between commands (no env or CPUtemp
\* command of its own still doing port I/O).
Holds(t) == holder = t /\ envOps[t] = <<>> /\ lpcOps[t] = <<>>

\* Thread t holds iomutex and its line cmd is command op.
Cmd(t, cmd, op) == Holds(t) /\ cmd.op = op

\* A command that changes nothing the model keeps: relayState, relayAddr,
\* readDIOByte, readElmo, envReadConfig, envBoardAddr and an
\* unknown line.  envConfigureChannel and envSetFilterConstant are among
\* the unknown lines: their sscanf formats hold "%h", which converts
\* nothing, so the ">= 7" test never holds and writeErrorReturn answers.
ReplyOnly(t, cmd) ==
    /\ Cmd(t, cmd, "reply")
    /\ Unlock(t)
    /\ UNCHANGED <<conn, relayBoards, relayStates, port, adBoards,
                   adSettings, loaded, lastBoard, lastChan, elmo>>

\* Mutant: bye returns without pthread_mutex_unlock.
bye_keepLock(t, cmd) ==
    /\ Cmd(t, cmd, "bye")
    /\ conn' = [conn EXCEPT ![t] = "closed"]
    /\ UNCHANGED <<holder, relayBoards, relayStates, port, adBoards,
                   adSettings, loaded, lastBoard, lastChan, elmo>>

\* "bye": unlock, close the socket and return.
bye(t, cmd) ==
    /\ Cmd(t, cmd, "bye")
    /\ Unlock(t)
    /\ conn' = [conn EXCEPT ![t] = "closed"]
    /\ UNCHANGED <<relayBoards, relayStates, port, adBoards,
                   adSettings, loaded, lastBoard, lastChan, elmo>>

-----------------------------------------------------------------------------
(* Relay boards.                                                            *)

\* relayInit: getRelayBoard, then the address's index or an error.
relayInit(t, cmd) ==
    /\ Cmd(t, cmd, "relayInit")
    /\ LET a == cmd.addr
           i == getRelayBoard(a)
       IN relayBoards' = IF i >= 0 THEN [relayBoards EXCEPT ![i] = a]
                                   ELSE relayBoards
    /\ Unlock(t)
    /\ UNCHANGED <<conn, relayStates, port, adBoards, adSettings, loaded,
                   lastBoard, lastChan, elmo>>

\* Mutant: &= ~parm2 written as -= parm2.
ClearBits_sub(w, m) == w - m

SetBits(w, m) == w | m
ClearBits(w, m) == w - (w & m)

\* relayOn / relayOff: relayStates[parm1] |= or &= ~parm2, then outw of the
\* new word to relayBoards[parm1], which is -1 for an index never claimed.
relayOnOff(t, cmd) ==
    /\ Holds(t)
    /\ cmd.op \in {"relayOn", "relayOff"}
    /\ LET i == cmd.index
           w == IF cmd.op = "relayOn" THEN SetBits(relayStates[i], cmd.mask)
                                      ELSE ClearBits(relayStates[i], cmd.mask)
       IN /\ relayStates' = [relayStates EXCEPT ![i] = w]
          /\ port' = [port EXCEPT ![relayBoards[i]] = w]
    /\ Unlock(t)
    /\ UNCHANGED <<conn, relayBoards, adBoards, adSettings, loaded,
                   lastBoard, lastChan, elmo>>

-----------------------------------------------------------------------------
(* A/D boards.                                                              *)

\* Mutant: initADBoard without lastBoard = -1.
analogInit_keepCache(t, cmd) ==
    /\ Cmd(t, cmd, "analogInit")
    /\ LET a == cmd.addr
           i == adSlot(a)
       IN \/ /\ i = -1
             /\ UNCHANGED <<adBoards, loaded, lastBoard>>
          \/ /\ i >= 0
             /\ adBoards' = [adBoards EXCEPT ![i] = a]
             /\ \/ UNCHANGED <<loaded, lastBoard>>
                \/ /\ loaded' = [loaded EXCEPT ![i] = Default]
                   /\ UNCHANGED lastBoard
    /\ Unlock(t)
    /\ UNCHANGED <<conn, relayBoards, relayStates, port, adSettings,
                   lastChan, elmo>>

\* analogInit addr [intLevel]: initADBoard claims the slot before dscInit
\* and dscInitBoard, either of which may fail (adInited is never set, so
\* dscInit runs every time); only a board initialised forgets the cache.
analogInit(t, cmd) ==
    /\ Cmd(t, cmd, "analogInit")
    /\ LET a == cmd.addr
           i == adSlot(a)
       IN \/ /\ i = -1
             /\ UNCHANGED <<adBoards, loaded, lastBoard>>
          \/ /\ i >= 0
             /\ adBoards' = [adBoards EXCEPT ![i] = a]
             /\ \/ UNCHANGED <<loaded, lastBoard>>
                \/ /\ loaded' = [loaded EXCEPT ![i] = Default]
                   /\ lastBoard' = -1
    /\ Unlock(t)
    /\ UNCHANGED <<conn, relayBoards, relayStates, port, adSettings,
                   lastChan, elmo>>

\* adSetup: each field is stored as soon as it is checked, and only a setup
\* that passes every check forces a reload (lastChan = -1).
analogSetup(t, cmd) ==
    /\ Cmd(t, cmd, "analogSetup")
    /\ LET b == cmd.board
           c == cmd.chan
           r == cmd.range
           pol == cmd.polarity
           g == cmd.gain
           s1 == [adSettings[b][c] EXCEPT !.current_channel = c]
           s2 == [s1 EXCEPT !.range = IF r = 10 THEN RANGE_10 ELSE RANGE_5,
                            !.polarity = IF pol = 0 THEN UNIPOLAR ELSE BIPOLAR]
           s3 == [s2 EXCEPT !.gain = GAIN[g]]
           store(s) == adSettings' = [adSettings EXCEPT ![b][c] = s]
       IN \/ /\ ~verifyADChan(b, c, 1, FALSE)
             /\ UNCHANGED <<adSettings, lastChan>>
          \/ /\ verifyADChan(b, c, 1, FALSE)
             /\ \/ r < 10 /\ pol = 0
                \/ r \notin {10, 5}
             /\ store(s1)
             /\ UNCHANGED lastChan
          \/ /\ verifyADChan(b, c, 1, FALSE)
             /\ r \in {10, 5} /\ ~(r < 10 /\ pol = 0)
             /\ g \notin {1, 2, 4, 8}
             /\ store(s2)
             /\ UNCHANGED lastChan
          \/ /\ verifyADChan(b, c, 1, FALSE)
             /\ r \in {10, 5} /\ ~(r < 10 /\ pol = 0)
             /\ g \in {1, 2, 4, 8}
             /\ store(s3)
             /\ lastChan' = -1
    /\ Unlock(t)
    /\ UNCHANGED <<conn, relayBoards, relayStates, port, adBoards, loaded,
                   lastBoard, elmo>>

\* The part adSample and adScan share: dscADSetSettings with the channel's
\* settings unless the cache says the board holds them already.  When the
\* call fails the command returns ERROR and the cache is left as it was;
\* the sample or scan after it changes nothing the model keeps.
LoadSettings(b, c) ==
    \/ /\ <<b, c>> = <<lastBoard, lastChan>>
       /\ UNCHANGED <<loaded, lastBoard, lastChan>>
    \/ /\ <<b, c>> # <<lastBoard, lastChan>>
       /\ \/ UNCHANGED <<loaded, lastBoard, lastChan>>
          \/ /\ loaded' = [loaded EXCEPT ![b] = adSettings[b][c]]
             /\ lastBoard' = b
             /\ lastChan' = c

\* adSample and adScan: verifyADChan with the setup checked, then
\* LoadSettings; dscADSample or dscADScan and dscADCodeToVoltage change
\* nothing the model keeps.
SampleChans(t, b, c, nchans) ==
    /\ \/ /\ ~verifyADChan(b, c, nchans, TRUE)
          /\ UNCHANGED <<loaded, lastBoard, lastChan>>
       \/ /\ verifyADChan(b, c, nchans, TRUE)
          /\ LoadSettings(b, c)
    /\ Unlock(t)
    /\ UNCHANGED <<conn, relayBoards, relayStates, port, adBoards,
                   adSettings, elmo>>

\* analogSample board chan.
adSample(t, cmd) ==
    /\ Cmd(t, cmd, "analogSample")
    /\ SampleChans(t, cmd.board, cmd.chan, 1)

\* analogScan board chan nchans.
adScan(t, cmd) ==
    /\ Cmd(t, cmd, "analogScan")
    /\ SampleChans(t, cmd.board, cmd.chan, cmd.nchans)

-----------------------------------------------------------------------------
(* The Elmo power enables on DIO port A of board 0.                         *)

\* adDIOInputByte: dscDIOInputByte stores the port's byte in *value when
\* it succeeds and leaves *value as the caller preset it when it fails.
adDIOInputByte(ok, preset) == IF ok THEN elmo ELSE preset

\* switchElmo(select) and readElmo(value): ELMO_PORT of ELMO_BOARD.
switchElmoPort(select) == elmo' \in adDIOOutputByte(elmo, select)
readElmo(ok, preset) == adDIOInputByte(ok, preset)

\* switchElmoBit bit state: readElmo into a byte preset to 0xFF, set or
\* clear the bit, switchElmo the result.  Both calls may fail; their
\* results are not checked.
switchElmoBit(t, cmd) ==
    /\ Cmd(t, cmd, "switchElmoBit")
    /\ LET bit == cmd.bit
           mask == 2 ^ bit
       IN \/ /\ bit \notin 0 .. 7
             /\ UNCHANGED elmo
          \/ /\ bit \in 0 .. 7
             /\ \E readOk \in BOOLEAN :
                  LET byte2 == readElmo(readOk, 255)
                      byte3 == IF cmd.state = 0
                               THEN byte2 - (byte2 & mask)
                               ELSE byte2 | mask
                  IN switchElmoPort(byte3)
    /\ Unlock(t)
    /\ UNCHANGED <<conn, relayBoards, relayStates, port, adBoards,
                   adSettings, loaded, lastBoard, lastChan>>

\* switchElmo byte: write the byte to port A.
switchElmo(t, cmd) ==
    /\ Cmd(t, cmd, "switchElmo")
    /\ switchElmoPort(cmd.byte)
    /\ Unlock(t)
    /\ UNCHANGED <<conn, relayBoards, relayStates, port, adBoards,
                   adSettings, loaded, lastBoard, lastChan>>

-----------------------------------------------------------------------------
(* The Sensoray 518 (sensoray.c, sensoray.h).  A transfer is an outb of a   *)
(* byte to COMMAND_REG after waitCRMT, or an inb of DATA_REG after waitDAV. *)

CMD_DEFINE_SENSOR_CHANNEL == 16
CMD_SET_OPEN_SENSOR_VALUES == 80
CMD_SET_FILTER_TC == 96
CMD_READ_BOARD_TEMP == 64
CMD_READ_ALL_CHANNEL_DATA == 88
CMD_HIGH_SPEED_MODE == <<240, 8, 2>>
CMD_READ_FIRMWARE_VERSION == <<240, 5, 0>>
CMD_READ_PRODUCT_ID == <<240, 4, 0>>
OPEN_SENSOR_VALUE_MASK == 255
SENSOR_TYPE_THERMISTOR == 26
SENSOR_TYPE_VOLTAGE_5V == 21
DEGREES_F == 0
DEGREES_C == 1
DEGREES_K == 2

\* The sensor type and filter constant of each channel in channelData.
channelData ==
    [i \in 0 .. 7 |->
        IF i \in {4, 7} THEN [sensorType |-> SENSOR_TYPE_VOLTAGE_5V, filterConstant |-> 38]
                        ELSE [sensorType |-> SENSOR_TYPE_THERMISTOR, filterConstant |-> 25]]

sensoraySendByte(cmd_byte) == <<[io |-> "outb", byte |-> cmd_byte]>>
sensorayReadByte == <<[io |-> "inb"]>>
sensorayReadWord == sensorayReadByte \o sensorayReadByte
SendBytes(bs) == [i \in 1 .. Len(bs) |-> [io |-> "outb", byte |-> bs[i]]]
\* n reads of a word.
ReadWords(n) == FlattenSeq([i \in 1 .. n |-> sensorayReadWord])

defineChannelSensor(channel, type) ==
    sensoraySendByte(CMD_DEFINE_SENSOR_CHANNEL + channel) \o sensoraySendByte(type)
setFilterTimeConstant(channel, filterConstant) ==
    sensoraySendByte(CMD_SET_FILTER_TC + channel) \o sensoraySendByte(filterConstant)
setOpenSensorValues(mask) ==
    sensoraySendByte(CMD_SET_OPEN_SENSOR_VALUES) \o sensoraySendByte(mask)
highSpeedMode == SendBytes(CMD_HIGH_SPEED_MODE)
readProductId == SendBytes(CMD_READ_PRODUCT_ID) \o sensorayReadWord
readFirmwareVersion == SendBytes(CMD_READ_FIRMWARE_VERSION) \o sensorayReadWord
readBoardTemperature == sensoraySendByte(CMD_READ_BOARD_TEMP) \o sensorayReadWord

readAllChannelData ==
    sensoraySendByte(CMD_READ_ALL_CHANNEL_DATA) \o ReadWords(NUMBER_OF_CHANNELS)

initializeSensoray(channels) ==
    highSpeedMode
    \o FlattenSeq([i \in 1 .. channels |->
                     defineChannelSensor(i - 1, channelData[i - 1].sensorType)
                     \o setFilterTimeConstant(i - 1, channelData[i - 1].filterConstant)])
    \o setOpenSensorValues(OPEN_SENSOR_VALUE_MASK)

\* An env command starts its transfers; it keeps iomutex until the last.
StartEnv(t, ops) ==
    /\ envOps' = [envOps EXCEPT ![t] = ops]
    /\ UNCHANGED <<ioVars, cmdReg, boardIn, dataQ, lpcVars>>

\* An env command that answers without touching the 518.
EnvReply(t) ==
    /\ Unlock(t)
    /\ UNCHANGED <<conn, relayBoards, relayStates, port, adBoards, adSettings,
                   loaded, lastBoard, lastChan, elmo, envVars, lines, lpcVars>>

envInit(t, cmd) ==
    Cmd(t, cmd, "envInit") /\ StartEnv(t, initializeSensoray(NUMBER_OF_CHANNELS))

envProductId(t, cmd) == Cmd(t, cmd, "envProductId") /\ StartEnv(t, readProductId)

envFirmwareVersion(t, cmd) ==
    Cmd(t, cmd, "envFirmwareVersion") /\ StartEnv(t, readFirmwareVersion)

\* envReadChannel chan / envReadChannels chan nchans: the range check, then
\* readAllChannelData whatever the range asked for.
envReadData(t, cmd) ==
    /\ Cmd(t, cmd, "envReadData")
    /\ LET chan == cmd.chan
           nchans == cmd.nchans
           bad == \/ chan < 0 \/ chan > NUMBER_OF_CHANNELS
                  \/ nchans <= 0 \/ nchans > NUMBER_OF_CHANNELS
                  \/ chan + nchans > NUMBER_OF_CHANNELS
       IN IF bad THEN EnvReply(t) ELSE StartEnv(t, readAllChannelData)

\* envReadBoardTemp units: an unknown unit is answered with an error text.
envReadBoardTemp(t, cmd) ==
    /\ Cmd(t, cmd, "envReadBoardTemp")
    /\ IF cmd.units \in {DEGREES_F, DEGREES_C, DEGREES_K}
       THEN StartEnv(t, readBoardTemperature)
       ELSE EnvReply(t)

\* isSet(STA_CRMT_MASK): the command register is empty.
STA_CRMT == cmdReg = None

\* isSet(STA_DAV_MASK): a reply byte is in the data register.
STA_DAV == dataQ > 0

\* The transfer is done; after the last one the branch replies and unlocks.
NextTransfer(t) ==
    /\ envOps' = [envOps EXCEPT ![t] = Tail(@)]
    /\ holder' = IF Tail(envOps[t]) = <<>> THEN None ELSE holder

\* sensoraySendByte: waitCRMT spins until the command register is empty,
\* then outb writes the byte into it.
HostSend(t) ==
    /\ holder = t /\ envOps[t] # <<>>
    /\ Head(envOps[t]).io = "outb"
    /\ STA_CRMT
    /\ cmdReg' = Head(envOps[t]).byte
    /\ NextTransfer(t)
    /\ UNCHANGED <<conn, relayBoards, relayStates, port, adBoards, adSettings,
                   loaded, lastBoard, lastChan, elmo, boardIn, dataQ, lines,
                   lpcVars>>

\* sensorayReadByte: waitDAV spins until a reply byte is ready, inb takes it.
HostRead(t) ==
    /\ holder = t /\ envOps[t] # <<>>
    /\ Head(envOps[t]).io = "inb"
    /\ STA_DAV
    /\ dataQ' = dataQ - 1
    /\ NextTransfer(t)
    /\ UNCHANGED <<conn, relayBoards, relayStates, port, adBoards, adSettings,
                   loaded, lastBoard, lastChan, elmo, cmdReg, boardIn, lines,
                   lpcVars>>

\* How the 518 frames the bytes it takes, by their first byte, and how many
\* reply bytes a whole command makes it produce.  The 518's manual is not
\* part of the repository: the framing is read off the opcodes of
\* sensoray.h (an opcode in the high nibble, a channel in the low one) and
\* the transfers sensoray.c makes for each.
CmdLength(op) ==
    CASE op = 240 -> 3
      [] op \in {CMD_SET_OPEN_SENSOR_VALUES}
                \cup (CMD_DEFINE_SENSOR_CHANNEL .. CMD_DEFINE_SENSOR_CHANNEL + 15)
                \cup (CMD_SET_FILTER_TC .. CMD_SET_FILTER_TC + 15) -> 2
      [] OTHER -> 1
ReplyLength(c) ==
    CASE c = <<CMD_READ_ALL_CHANNEL_DATA>> -> 2 * NUMBER_OF_CHANNELS
      [] c \in {<<CMD_READ_BOARD_TEMP>>, CMD_READ_PRODUCT_ID,
                CMD_READ_FIRMWARE_VERSION} -> 2
      [] Len(c) = 1 /\ c[1] < 16 -> 2       \* readChannelData: the opcode is the channel
      [] OTHER -> 0

\* The 518 takes the byte in its command register (CRMT sets again); a
\* command complete with it makes the reply bytes ready.
BoardTake ==
    /\ cmdReg # None
    /\ cmdReg' = None
    /\ LET c == Append(boardIn, cmdReg)
       IN \/ /\ Len(c) < CmdLength(c[1])
             /\ boardIn' = c
             /\ UNCHANGED dataQ
          \/ /\ Len(c) >= CmdLength(c[1])
             /\ boardIn' = <<>>
             /\ dataQ' = dataQ + ReplyLength(c)
    /\ UNCHANGED <<ioVars, envOps, lpcVars>>

-----------------------------------------------------------------------------
(* The LPC chip.                                                            *)

\* "CPUtemp": the thread keeps iomutex over the four transfers and replies.
CPUtemp(t, cmd) ==
    /\ Cmd(t, cmd, "CPUtemp")
    /\ lpcOps' = [lpcOps EXCEPT ![t] = CPUtempOps]
    /\ UNCHANGED <<ioVars, envVars, lpcIndex>>

\* One outb or inb of thread t to the LPC ports; after the last transfer of
\* CPUtemp the branch replies and unlocks (initCPUTemp holds no lock).
LpcTransfer(t) ==
    /\ lpcOps[t] # <<>>
    /\ lpcIndex' = IF Head(lpcOps[t]).port = LPC_INDEX
                   THEN Head(lpcOps[t]).byte ELSE lpcIndex
    /\ lpcOps' = [lpcOps EXCEPT ![t] = Tail(@)]
    /\ holder' = IF holder = t /\ Tail(lpcOps[t]) = <<>> THEN None ELSE holder
    /\ UNCHANGED <<conn, relayBoards, relayStates, port, adBoards, adSettings,
                   loaded, lastBoard, lastChan, elmo, envVars, lines>>

-----------------------------------------------------------------------------

\* The command chain of ioSrv, run by thread t while it holds iomutex.
IoCmd(t, cmd) ==
    \/ adSample(t, cmd) \/ adScan(t, cmd) \/ analogSetup(t, cmd) \/ analogInit(t, cmd)
    \/ relayOnOff(t, cmd) \/ relayInit(t, cmd)
    \/ switchElmoBit(t, cmd) \/ switchElmo(t, cmd) \/ ReplyOnly(t, cmd) \/ bye(t, cmd)

EnvCmd(t, cmd) ==
    \/ envInit(t, cmd) \/ envProductId(t, cmd) \/ envFirmwareVersion(t, cmd)
    \/ envReadData(t, cmd) \/ envReadBoardTemp(t, cmd)

Exec(t) ==
    \E cmd \in lines :
        \/ IoCmd(t, cmd) /\ UNCHANGED <<envVars, lines, lpcVars>>
        \/ EnvCmd(t, cmd)
        \/ CPUtemp(t, cmd)

Next ==
    \/ \E t \in Conns :
          \/ Accept(t) /\ UNCHANGED <<envVars, lines>>
          \/ (Lock(t) \/ Disconnect(t)) /\ UNCHANGED <<envVars, lines, lpcVars>>
          \/ Exec(t) \/ HostSend(t) \/ HostRead(t) \/ LpcTransfer(t)
    \/ BoardTake

\* The properties are safety properties: no fairness is assumed.
Spec == Init /\ [][Next]_vars

-----------------------------------------------------------------------------

Setting == [current_channel : Chans \cup {255},
            range : {RANGE_10, RANGE_5, 255},
            polarity : {UNIPOLAR, BIPOLAR, 255},
            gain : {0, 1, 2, 3, 255}]

TypeInv ==
    /\ conn \in [Conns -> {"open", "closed"}]
    /\ holder \in Conns \cup {None}
    /\ relayBoards \in [Relays -> RelayAddrs \cup {-1}]
    /\ relayStates \in [Relays -> Nat]
    /\ adBoards \in [Slots -> Nat \cup {-1}]
    /\ adSettings \in [Slots -> [Chans -> Setting]]
    /\ loaded \in [Slots -> Setting \cup {Default}]
    /\ lastBoard \in Slots \cup {-1} /\ lastChan \in Chans \cup {-1}
    /\ elmo \in Byte
    /\ lines \in Workloads
    /\ envOps \in [Conns -> Seq([io : {"inb"}] \cup [io : {"outb"}, byte : Byte])]
    /\ cmdReg \in Byte \cup {None}
    /\ boardIn \in Seq(Byte)
    /\ dataQ \in Nat
    /\ lpcOps \in [Conns -> Seq([io : {"outb"}, port : {LPC_INDEX}, byte : Byte]
                               \cup [io : {"outb", "inb"}, port : {LPC_DATA}, sel : Byte])]
    /\ lpcIndex \in Byte \cup {None}

\* Each relay board's I/O port holds the word relayStates keeps for it (or
\* has not been written since the server started).  This needs
\* getRelayBoard to give every address a single index, across all the
\* clients that send relayInit for it, and relayOn/relayOff to write the
\* word they store.
RelayPortMirrorsState ==
    \A i \in Relays :
        relayBoards[i] # -1 => port[relayBoards[i]] \in {None, relayStates[i]}

\* When the cache names a board and channel, the board holds settings that
\* were loaded for that channel: adSample and adScan then skip
\* dscADSetSettings.  initADBoard resets the board and must drop the cache.
CacheNamesLoadedChannel ==
    lastBoard # -1 /\ lastChan # -1 =>
        /\ loaded[lastBoard] # Default
        /\ loaded[lastBoard].current_channel = lastChan

\* Only a live ioSrv thread holds iomutex: every way out of ioSrv, bye's
\* early return included, unlocks first, so a client that leaves cannot
\* block the other clients' commands forever.
MutexHeldByLiveThread == holder # None => conn[holder] = "open"


\* Every transfer to LPC_DATA reaches the register its thread selected
\* with the outb to LPC_INDEX just before: the CPUtemp command reads the
\* two temperature registers, and initCPUTemp's writes land in the mode,
\* lock and offset registers.  initCPUTemp runs at the start of every
\* ioSrv thread without iomutex, so it can select another register
\* between the two halves of a pair of another thread.
LpcRegisterSelected ==
    \A t \in Conns :
        lpcOps[t] # <<>> /\ Head(lpcOps[t]).port = LPC_DATA =>
            lpcIndex = Head(lpcOps[t]).sel

=============================================================================
