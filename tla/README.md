# TLA+ models of the mbari-siam native code

This directory holds TLA+ models of the C code under `src/`. TLC checks
them. The repository is a collection of independent programs. Its one
piece of real protocol substance is the command language of the SA-1100
character drivers and the clients built on top of it. The models start
there.

## 1. Inventory of the system

| Part | Source | State | Operations | Concurrency and hard behaviour |
|---|---|---|---|---|
| GPIO command driver | `src/native/arm-linux/src/kernel/sa1100gpio.c` | Per open file (`gpioState`): stencil, hex mask, parser state, read mode, separator, read buffer and offset, and a snapshot of the edge counts. Shared: `edgeInterrupt[16]` (count, installed), GPSR/GPCR/GPDR/GAFR/GPLR, `gpioWaitQ`. | `gpio_open`, `gpio_release`, `gpio_write` → `parseNextByte` (digits and 25 operators), `gpio_read` → `reloadMyBuffer` (levels, pending edges, blocking edges, counts), `gpio_poll`, `sa1100_gpio_handler` (IRQ). | Several sessions share the pins and edge tallies. An interrupt can come between any two statements. A blocking read sleeps on a wait queue and can be interrupted by a signal. 16-bit counters wrap. A 10-byte buffer holds the formatted result. |
| LDDIO command driver | `src/native/arm-linux/src/kernel/sa1100lddio.c` | The same per-session state (12 bits). Shared: PPSR/PPDR. | open, release, write/parse, read (`R` one-shot mode). | A non-atomic PPSR read-modify-write (see the comment at line 264). ':' overwrites all of PPDR. |
| SPI command driver | `src/native/arm-linux/src/kernel/sa1100spi.c` | Per-session parser. A global `word` and `wordValid`, and the SSP registers. | parse (divisor, length, word, 'G' pin setup), `writeSPI`, read with `interruptible_sleep_on`. | The word and its valid flag are global: sessions steal each other's words. `interruptible_sleep_on` has a check-then-sleep race. |
| Ricoh RTC bit-banger | `src/native/arm-linux/src/ricohRTC/ricohRTC.c`, `ricohRTC.h` | The LDDIO file descriptor and the chip-enable line. | `rtcSelect`/`rtcUnselect`, `rtcSendByte`, `rtcReadBytes`, `rtcWriteBytes`, `readRTC`, `setRTC`, `setHourMode`, `suspendForMinutes`. | Bits are clocked MSB-first through LDDIO command strings. Error paths skip `rtcUnselect`. The BCD and 12/24-hour codec has range checks, and one of them is overwritten. |
| Puck firmware (MSP430) | `src/native/msp430/puck/*.c` | RX/TX ring buffers, the command line buffer, the 32-bit tick counter, and the flash page buffer. | `usart1_rx` ISR → `putByte`; `getByte`; `getCommand`; `readTimer`/`delayTimerTicks`; `openFlash`/`writeFlash`/`closeFlash`. | An ISR and the main loop share the ring buffer and the timer. A full buffer drops bytes. The 80-character line has off-by-ones. A 32-bit read on a 16-bit CPU can be torn. Flash pages are buffered before they are committed. |
| FOCE relay and A/D server | `src/native/foce/foceio.c`, `sensoray.c` | Relay board tables, A/D slots, settings and cache, the Elmo byte, all under one `iomutex`; the Sensoray 518's command and data registers; the LPC super-I/O index register. | A pthread per client running relay, A/D, Elmo, `env*` and `CPUtemp` commands; `initCPUTemp` at thread start. `relayOn` does not check its index. | Threads serialise on one mutex, except `initCPUTemp`, which runs without it. The 518 is driven byte by byte with busy waits. Every library call can fail. |
| Serial consoles | `src/native/arm-linux/src/console/console.c`, `src/native/multi-platform/src/rconsole/rconsole.c` | The keyboard's terminal mode and the flag that lets `killhandler` restore it, the break time and `tmp_buff`, the count of bytes written since the last `tcdrain`, rconsole's option flags. | `ttypoll`, `ttygetc`, `ttygets`, `wait_for_char`, the CTRL-B/CTRL-G (console) and CTRL-A/CTRL-X (rconsole) prompts, the write to the port or socket, the read loop, `killhandler` on SIGTERM. | A signal can come between any two steps, the set-up included. A break races CTRL-C against a deadline. The UART drains while the loop runs. The server may close at any time. |
| PuckVerify (Windows) | `src/native/x86-win32/PuckVerify/PuckVerifyUtil/PuckIO.cpp`, `PuckVerifyUtilDlg.cpp`, `SerialPort.cpp` | The serial port, the tests' locals (`memSize`, `respBuff`), `readUntil`'s byte count and terminator match. | `OnButtonStart` → `memoryTest`, `commandTest` → `sendPuckCmd` → `Write`, `readUntil`. | A read times out while the puck may still answer, and the command is written again. Nothing drains the line between commands. |
| Utilities, GUI | `resetSerial.c`, `cpuAwake.c`, `suspend.c`, `setPWER.c`, `writeRegister.c`, `rootsrv.c`, `commandRunner.c`, `ipaddr.c`, `ethaddr.c`, JNI, `et2ut.cc`, `ut2et.cc`, `SampleHR.cpp` | File descriptors and terminal settings. | Byte relays and one-shot register or system calls. | None worth a model checker: each is sequential I/O glue. |

How the parts interact: user programs drive the drivers through
`write()` (command bytes) and `read()` (formatted hex values). The RTC
bit-banger is such a client of the LDDIO driver. The Puck firmware talks
to its host over a serial line; PuckVerify is such a host. The FOCE server is independent. The
consoles join an operator's keyboard to a serial port (`console`) or to a
serial-port server over TCP (`rconsole`).

Properties each part needs, from the spec (spec.md) and the code:
- **Drivers.** A session's register writes stay inside its stencil.
  The stencil only narrows. Pending-edge reports are exact. A blocking
  read returns on an event or a signal and leaves no dangling wait
  registration. Every read returns a fresh `<hex><separator>` frame.
  Edge handlers are reference-counted between sessions.
- **RTC.** A transfer clocks exactly the format byte and the data bits
  MSB-first, and chip enable is released after every transfer. The BCD
  and hour encodings round-trip.
- **Puck.** No received byte is lost or duplicated by the ring buffer
  unless it is full. A command line never overruns its buffer. Timer
  reads are monotonic.

The hazards, each at the line where it bites, are listed in
`PROJECT.json` under `hazards`.

## 2. Plan

The modules come in this order, the most important behaviour first:

1. `Sa1100Gpio` (done): the GPIO driver, with all sessions, the IRQ
   handler, the wait queue and signals.
2. `ChunkedWrite` (done): the `write()` chunk loop the three drivers
   share, as a recursive operator.
3. `Sa1100Lddio` (done): the LDDIO parser, each operator split at its
   read of PPSR, with another driver writing its pins in between; the
   read path with the `R` one-shot.
4. `RicohRtc` (done): the RTC program. Its LDDIO commands are folded
   over the pins and a chip model, and it includes the BCD and
   12/24-hour codec, `readRTC`'s checks, and main's options and menu
   items. It was planned as two modules, `RicohRtcTransport` and
   `RtcCodec`. They became one module because the round trip through
   both is the property worth checking. The transport uses only LDDIO's
   `+`, `-` and level reads, so it applies their effect directly
   instead of instancing `Sa1100Lddio`.
6. `Sa1100Spi` (done): the global `wordValid` shared by sessions,
   `interruptible_sleep_on`, and the configuration operators. The word
   hand-off is shown to implement the abstract slot `SpiWordSlot`.
7. `Puck` with `PuckRxFifo` (done): the puck firmware's receive
   interrupt, ring buffer and main loop, every command handler, the
   DataFlash page buffer, and a host that speaks the PUCK protocol. The
   ring buffer is shown to implement the abstract FIFO `PuckRxFifo`.
8. `FoceIo` (done): the FOCE I/O server's client threads under
   `iomutex`, its relay tables, A/D slot and settings cache, the Elmo
   bits, the `env*` commands byte by byte against the Sensoray 518, and
   the LPC transfers of `initCPUTemp` and `CPUtemp`.
9. `Consoles` (done): `console` and `rconsole` in one module, the
   program chosen in the initial state.
10. `PuckParser` (done): the puck's `name_match`, `skip` and `parse`
    over the `puckCmds` table, checked against a reference definition.
11. `PuckVerify` (done): the Windows test tool's `sendPuckCmd` retries
    and `readUntil` timeouts against the puck's main loop answering
    one line at a time.

The project has two abstract specifications with refinements:
`PuckRxFifo` (section 3e) and `SpiWordSlot` (section 3c). The "atomic command interpreter" that the
GPIO and LDDIO models could refine is not written.

## 3. `Sa1100Gpio`: what it models and how

**Data abstraction.** Bit masks are sets of bit numbers: `&` is `\cap`,
`|` is `\cup`, and `x & ~m` is `x \ m`. `mask <<= 4` is `Shift4`, which
keeps the bits below `MaskBits`. Hex digit bytes are strings `"0".."F"`.
The other bytes are the operator characters, plus `"sp"` (whitespace),
`"nul"` and `"bs"` (backslash). The formatted buffer is kept as its
`strlen` (`len`), the value it holds, and the read `offset`. The number
of hex digits `%07X` produces is 7, or 8 when a tally went negative
(`HexWidth`).

**Variables and code state:**
- `my[s]` is `*MY`.
- `edgeCount[b]` and `installed` are `edgeInterrupt[b]`.
- `latch`, `GPDR` and `GAFR` are the pin registers. GPSR and GPCR act on
  `latch`. `GPLR` is derived from the latch and the inputs.
- `rd[s]` is the position of the session's task inside `gpio_read`:
  `idle`, `enqueue` (before `add_wait_queue`), `loop` (at the
  `pendingEvents` check) or `sched` (at `schedule()`).
- `task[s]` is `current->state`.
- `gpioWaitQ` is the wait queue.
- `sigPending` holds the tasks with a signal pending.
- The history variables are `pendingTrue` (the true number of
  unconsumed edges), `edgeWanted`, `delivered`, `lastReturn`, `written`
  and `edges`.

**Actions:**
- `gpio_open` and `gpio_release`.
- `parseNextByte(s, c)`, which dispatches to one definition per operator
  group: `ParseDigit`, `SelectReadMode`, `PinWrite` (`GPSR_write`,
  `GPCR_write`, `AssignOutputs`, `AltFunction`, `StdFunction`,
  `ConfigInputs`, `ConfigDirection`, `ConfigOutputs`),
  `RestrictStencil`, `setGPIOedge`, `purgeEvents`, `removeOneEvent`,
  `AwaitSeparator` and `IgnoreByte`.
- `gpio_read`: copy the rest, reload, `-EAGAIN`, or enter the wait.
- `add_wait_queue`, `WaitLoop` (one pass of the `for(;;)` that returns),
  `WaitAgain` (a pass that goes on to `schedule()`) and `schedule`.
- `Signal`, the environment sending a signal.
- `sa1100_gpio_handler(b)`, the interrupt.

Each write is one byte per step. A one-byte `write()` is a legal call,
so every interleaving is one a user program can produce. Each session is
driven by one task.

**Nondeterminism:**
- `request_irq` may fail per bit.
- `O_NONBLOCK` is chosen per read.
- Input pins are a constant (`InputHigh`).

**Fairness.** Weak fairness holds for `add_wait_queue`, `WaitLoop`,
`WaitAgain` and `schedule` of every session. The kernel eventually runs
a runnable task. A task in `schedule()` with a signal pending is made
runnable, as Linux 2.4's `schedule()` does. Writes, reads, signals and
edges are user or environment steps and have no fairness.

### Runs

| Run | Checks | Shows |
|---|---|---|
| `gpio_regs` | `TypeInv`, `PendingExact`, `PinWritesConfined` | Two workloads in one state space. In the first, two sessions narrow stencils and use every register operator, and never change a pin outside the open stencils, kernel pin 4 included (a two-digit mask like `12` reaches it). In the second, edges, `^`/`.`, `;` and `,` keep the `!=` pending test exact across the wrap of 2-bit counters (5 edges, more than 2^2). |
| `gpio_wait` | `WaitRegistration`, `BlockedReaderReturns` | Blocking reads of two sessions with edges and signals. The queue holds exactly the waiting tasks, only queued tasks sleep, and a blocked reader returns once its event is pending or a signal comes. No wakeup is lost, contrary to the spec's open question. |
| `gpio_stale` (violation) | `NoStaleRead` | After `-EAGAIN` the next read re-delivers the previous value. |

Each property of a passing run has a seeded fault in the module, listed
under `mutants` in `PROJECT.json`, that TLC finds.

### Bounds, and why they are enough

- **Sessions.** Two sessions: enough for one to disturb the other's
  handler, pins or wake-ups. Sessions are symmetric in the safety runs.
- **Pins.** `USERGPIOS = 2` and `MaskBits = 5`: two user pins, and a
  second hex digit shifts bit 0 onto pin 4, which belongs to the kernel.
  The wait, reads and stale runs use a single pin and a 1-bit mask. They
  are about the read path, not about masks.
- **Counters.** `CountBits = 2` makes the `unsigned short` counters wrap
  after 4 edges. `MaxEdges = 5` lets the edges run cross the wrap. The
  liveness run uses `MaxEdges = 1`: a blocked reader needs one edge, and
  with fewer edges than the counter modulus pending events cannot vanish
  by wrap.
- **Reads.** `ReadCounts` `{4, 9}` gives a partial read and a whole-frame
  read.
- **Chunks.** `ChunkedWrite.cfg` gives a 4-byte chunk and writes of up
  to 12 bytes, which covers one, two and three chunks. No run uses it
  now (section 4).

## 3b. `Sa1100Lddio`: what it models and how

`sa1100lddio.c` is the GPIO driver's command language over the LCD data
pins: no edge interrupts, no blocking, registers PPSR (levels) and PPDR
(directions). State:

- `opened` and `my[s]` are the sessions and their `lddioState`; the
  `separator` keeps only whether it is NUL, which is all `strlen` sees.
- `PPSR` and `PPDR` start at any value: the boot loader and other drivers
  set them before the module is loaded.
- `busy`, `PPSRo` and `opByte` are the locals of one `parseNextByte`
  call between `unsigned PPSRo = PPSR` (line 272) and the end of the
  switch.
- `foreignLevels` and `foreignWrites` belong to the environment: another
  driver (PCMCIA, per the header comment at line 34) that drives port
  pins above `USERLDDIOS`, from interrupt context.

Actions: `lddio_open`, `lddio_release`, `ParseByte` (separator byte, hex
digit, or the read of PPSR for an operator), `FinishOperator` (the whole
switch, with `SetBits`, `ClearBits`, `AssignBits`, `NarrowStencil`),
`ForeignWrite` (the environment, not mapped to code) and `lddio_read`
(reload through `ReloadValue` when the buffer is exhausted, otherwise
the rest of the buffer). Two sessions never interleave inside
`parseNextByte`, because the 2.4 kernel does not preempt kernel code;
only an interrupt can run there, hence `ForeignWrite`.

Runs (`MC_Sa1100Lddio`, `USERLDDIOS` 2, 3 mask bits, pin 2 foreign):

| run | expect | shows |
|---|---|---|
| `lddio_stencil` | violation | `StencilConfinement`, the header's "only bits set in the stencil can be modified" (`sa1100lddio.c:32`): an operator changes PPSR (relative to the PPSRo it read) and PPDR only inside the stencil, and the stencil only narrows. `:` assigns `PPDR = maskedStencil` (line 312): after open, `:` with an empty mask turns pin 2, an output of another driver outside the stencil, into an input, in three steps. Every other operator keeps to the stencil, so `PPSRo & (~mask \| ~stencil)` is a correct masked clear, which settles the spec's open question. The property accepts the write-back of the PPSR an operator read: the comment at line 264 leaves a change between the read and the write-back to the user (`ForeignPinsKept`, section 4). One session, because sessions only meet through PPSR and PPDR. |

Hex digits `1` and `7` give masks with and without the bit outside the
stencil, so `<` both narrows and keeps the stencil. A read count of 4 is
shorter than a value (7 digits and a separator), so a read both reloads
and continues a buffer.

## 3c. `Sa1100Spi`: what it models and how

`sa1100spi.c` uses the same command language to drive the SSP unit.
`S`, `L`, `P`, `I`, `G` and `W` configure it: `SetClock`, `SetFlag`,
`RouteToGpio` and `SetWidth` write SSCR0, SSCR1, GPDR, GAFR, PPAR and
MCCR0 as the code does. `=` calls `writeSPI`, which clocks the mask out,
stores the received word in the global `word`, sets the global
`wordValid` and calls `wake_up(&spiWaitQ)`. `spi_read` reloads when its
buffer is exhausted. `reloadMyBuffer` loops until it finds `wordValid`:

- it takes the word if `wordValid` is set (`TakeWord`);
- otherwise it returns `-EAGAIN` under O_NONBLOCK;
- otherwise it returns `-ERESTARTSYS` on a signal;
- otherwise it sleeps in `interruptible_sleep_on`.

`ReloadCheck` is one pass of that loop, and `Wake` is the return from
`schedule()`.

Some data is abstracted:

- The received bits are not modelled. A word is identified by the number
  of the `=` that produced it.
- A mask is written as one token from `Masks`.
- The printed width of the word is 1 or 8 digits.
- `MaxConfigs` bounds the configuration commands.

The run `spi_ops` uses two sessions, masks 0, 16 and 257 (every branch of
`S`, `W` and the flags), one word, at most one configuration command
and reads of 4 bytes. It reaches 683,100 states in about two minutes.

- `WaitedWordTaken`: a reader never sleeps through a valid word. The
  check of `wordValid` before `interruptible_sleep_on` is not locked,
  but `writeSPI` runs in process context and cannot run between the
  check and the sleep. The fairness is weak fairness of each reader's
  loop and of its return from `schedule()`: the scheduler runs runnable
  tasks.
- `WordSlotRefined`: the driver implements `SpiWordSlot`, a one-word
  slot. Each `=` puts a new word in the slot and replaces an unread one.
  A read empties the slot and gets the word that was in it. The mapping
  takes the slot to be `word` when `wordValid` is set and empty
  otherwise, the count of words to be `outputs`, and the words got to be
  those with a nonzero `takes`. `writeSPI` is `Publish`, a
  `reloadMyBuffer` pass that finds `wordValid` is `Take`, and every other
  step of any session is a stutter. So `wake_up` may wake every
  sleeper, but only the first reader takes the word: the check and the
  clear of `wordValid` are one step because the kernel does not preempt.
  A `writeSPI` that forgets to set
  `wordValid` breaks it, and so does a take that leaves the slot full.
  With two words (`MaxOutputs = 2`) the run passes but takes ten
  minutes, so the run keeps one word. The overwrite of an unread word is
  in the abstract specification but not reached at that bound.

Two slips in `G` are modelled as written, though no run checks them:

- `GPDR &= ~(1<11)` clears GPIO0 and leaves GPIO11 alone (line 278).
- `MCCR0 &= MCCR0_MCE` leaves the MCP enabled (line 282).

## 3d. `RicohRtc`: what it models and how

`ricohRTC` is a single-threaded user program. Every `write()` and
`read()` it makes on `/dev/lddio` is one LDDIO command, and the driver
completes it before the call returns. So each invocation of `main` with
one option, and each interactive menu item, is one action
(`MainT`, `MainRead`, `MainK`, `MainM`, `MainI`, `MainA`, `MenuExit`,
`MenuRead`, `MenuSet`, `setHourMode`, `MenuHourMode`, `readRTCReg`,
`writeRTCReg`). `MainRead` and `MenuRead` print (`printRTCtime`, which
also reads the hour mode with `getHourMode`) or set the system clock
(`setSystemFromRTC`); both read the time registers the same way.
`MainA` is `-a`: `AdjVal` clamps the ppm value to ±195, divides it by
3.05 with C's truncation toward zero (`TruncDiv` on hundredths), keeps 7
bits, and writes the oscillator-adjust register. Each action folds
its commands over the bus state in program order:

- The commands are `Set`/`Clr` for LDDIO `+`/`-` inside the stencil
  `78<` leaves, and `Sample` for an 8-byte levels read.
- `rtcSendByte` sends `30+` for a 1 bit, or `20+10-` for a 0 bit,
  followed by `20-`.
- `rtcReadBytesCmds` and `rtcWriteBytesCmds` build the select string,
  the format byte, the data bytes and the deselect string.
- `RunCmds` and `RunChunks` apply them chunk by chunk.
- `BufOf` packs the sampled MISO bits MSB first, as `byt |= 1 << bit`
  does.

The chip (`ChipIdle`, `ChipRise`, `ChipFall`, `ChipEdge`) is the
environment, not code:

- A rising CE starts a transfer, and a falling CE ends it.
- MOSI is latched on the falling CLK edge.
- After the format byte, the chip reads (when mode bit 2 is set) or
  writes consecutive registers.
- In a read, MISO is driven on the rising CLK edge.

The codec operators `toBcd`, `fromBcd`, `EncodeHour`, `DecodeHour`,
`RtcTimeOf` and `readRTCResult` translate `setRTC` and `readRTC` line by
line. `readRTCResult` keeps the order of `readRTC`'s assignments to
`rtn`, including the reassignment at line 463. `mdays[month]` outside
0..11 is undefined behaviour. Its value is a choice from `MdaysJunk`.

History variables, kept only for the properties:

- `expect` is the time of the last `setRTC`. Writes of the time
  registers or of the mode clear it.
- `last` is the result of the last `readRTC`.
- `touched` is the set of registers the step's code addresses.

| run | expect | shows |
|---|---|---|
| `rtc_roundtrip` | pass | `RoundTrip`: a time set by `-t`, `-m` or menu items 3/4 is read back unchanged, with OK, in both hour modes. The three times cover 12 AM, 12 PM, an afternoon hour, the century bit and month ends. `-m` flips `AMPM_BIT` and re-encodes the time. The run types only register 14 at menu item 7 (section 4 says why not 16). About 3,900 states, in under two minutes. |
| `rtc_valid` | violation | `ValidRead`: menu item 7 writes 0x75 into the seconds register, and `readRTC` then returns `tm_sec` 75 with OK. The ERROR from the seconds check is overwritten at line 463. |

Bounds:

- The boot registers hold 2000-01-01 00:00:00 with XSTP set, in either
  hour mode.
- `writeRTCReg` and `readRTCReg` are given register 14 and values 0
  and 0x20. A 0x20 written into `CTRL_REG1` after a 12-hour set makes
  the next read fail (0x32 decoded as 24-hour), which is how `-m`'s
  error branch is reached. (Register 7 was dropped to keep the run short;
  `-a` writes it.)
- `-a` is given -200 (clamped) and -10 (converted). `rtc_valid` gives it
  only -200, which keeps that run small.

The round trip holds only for a chip that latches on the falling edge.
For a 0 bit, `20+10-` raises CLK while MOSI still holds the previous
bit. That ordering is recorded as a hazard.

## 3e. `Puck` and `PuckRxFifo`: what they model and how

The sensor-puck firmware (`src/native/msp430/puck/`) is one MSP430
program with two actors: the USART1 receive interrupt and the main loop.
A third actor outside it is the host at the other end of the serial line.

| Code | Model |
|---|---|
| `rxByteBuffer`, `rxBytes[]` (`serial.c`, `buffers.c`) | `rxHead`, `rxTail`, `rxBytes`. `RxQueue` is the bytes between tail and head. |
| `usart1_rx` → `putByte` | `usart1_rx`: the next byte on `wire` is put in the buffer, or lost when the buffer is full. |
| `getChar` → `getByte` | Two steps. `getChar` reads `rxBytes[tail]` into `got`. The handler that consumes the byte moves the tail (`getByte_advance`). The interrupt may run in between. |
| `getCommand` (`main.c`) | `getCommand` for an ordinary byte or a backspace. `LineEnd` for the carriage return, which hands the line to `parse` and a handler. |
| `main`'s dispatch, `actions.c` handlers | One action per handler: `funcReadMemCmd`, `funcWriteMemCmd` (and its read loop `_getChar`/`_write`), `funcSetAddressCmd`, `funcFlushMemCmd`, `funcClearMemCmd`, `funcSensorModeCmd`, `funcSetBaudCmd`, `funcToggleEchoCmd`, `ReportCmd` (the handlers that only send text), `EmptyLine`, `NoCommand`. Each ends with `Reply`, main's RDY prompt. |
| `serial.c`'s baud code | `UBR1` is `UBR11:UBR01`. `initSerial` (part of `initModules`) sets 9600 baud and empties the rings; `funcSetBaudCmd` calls `setBaud`, which refuses a rate `isBaudValid` rejects and otherwise writes the 16-bit divisor; `getBaud` divides back. |
| `funcReadMemCmd`'s read loop | `ReadLoop` calls `readFlash` in chunks of at most 32 bytes, each advancing `flashMemPtr`; the bytes sent are not modelled. |
| `flash_mem.c` and the DataFlash | `flashMemPtr`; `sram` (the chip's page buffer); `mem` (main memory). `writeFlash`, `closeFlash` and `eraseFlash` follow the code. `ProgramPage` programs a page without erasing it, so it can only clear bits, and two different values give `Garbled`. |
| The host | `HostSend`, `HostTimeout`, `WireToSleeper` and `PowerCycle`. The host has a read session and a write session. `PUCKEM` opens the write session and `PUCKFM` closes it. `written` records what the host wrote since the last erase. |

Bytes are abstract. One token stands for a whole command word with its
argument (for example `"WM1"` for `PUCKWM 1`).

**Refinement.** `PuckRxFifo` is the abstract promise of the receive
path: a bounded FIFO with actions Arrive, Take, Consume and Reset.
`Puck` implements it under this mapping:

- `queue` maps to `Unread`, the unread part of `RxQueue`.
- `taken` maps to `got`.
- `Capacity` maps to `RX_BUFFER_SIZE - 1`, because one slot stays free
  to tell a full buffer from an empty one.

`RxFifo == Fifo!Spec` is checked as a property.

**Fairness.** The properties use weak fairness on four actions:

- `Main`: the main loop never stops while it has something to do.
- `usart1_rx`: an enabled interrupt is taken.
- `HostTimeout`: the host's timeout fires once nothing is left to
  answer.
- `WireToSleeper`: a byte sent to a puck in LPM4 is lost on the wire.

`HostSend` and `PowerCycle` have no fairness, because the host may stop
talking or leave the power on.

**View.** `View` leaves out two things that no guard or property
reads:

- the buffer slots outside the queue, which are overwritten before they
  are read;
- `echoMode`.

`UBR1` stays in the view, because `BaudReported` reads it.

| Run | Checks | Shows |
|---|---|---|
| `puck_ops` | `TypeInv`, `FlashHoldsWrites`, `BaudReported`, `ParseAgrees`, `RxFifo`, `ReceivedUnlessFull`, `HostAnswered` | The ring buffer refines the FIFO, even with the interrupt between getByte's read and its advance. `RxFifo` maps a lost byte to a stutter, so `ReceivedUnlessFull` adds that a byte is lost only when the ring is full: an `isBufferFull` that counts one slot too many breaks it. Memory holds exactly what the host's PUCKWM commands wrote once PUCKFM closes the session, through page-end programming, padding, erases and power cycles. PUCKGB always reports a rate PUCKVB accepts, after any valid or invalid PUCKSB and power cycles. The character-level parser dispatches as its reference says, and recognises every command word the host sends. Every message is answered with RDY or ends in the host's timeout: `funcWriteMemCmd`'s read loop never waits for a byte the host will not send. About 370,000 states in under three minutes. |

**Bounds:**

- a 4-byte buffer, so three bytes fill it and a fourth is dropped;
- a 2-character line, so `"d1 d1 d1"` overruns it;
- two pages of two bytes, so a `PUCKWM 5` crosses a page boundary and
  `PUCKWM 40` exceeds memory;
- one data value.

- `PUCKRM 33`, so the read loop takes a 32-byte chunk and then one byte;
- `PUCKSB 19200`, valid, and `PUCKSB 1200`, which `isBaudValid` refuses.

These bounds reach every branch of `getCommand` and `closeFlash`, and
`writeFlash`'s page-end wrap. They do not reach `writeFlash`'s remainder
path: `PUCKWM 5` and `PUCKWM 40` are refused by the range check, and only
`PUCKWM 1` succeeds. A `PUCKWM 2` with its two data bytes is four bytes
on the wire, one more than the 4-byte ring holds; the fourth is dropped
and `funcWriteMemCmd` waits for it forever, so `HostAnswered` fails. The
ring size is a power of two in the code (`ptr_mask`), and an 8-byte ring
is beyond the run's five minutes.

**`PuckParser`.** `parser.c` is a pure function of the line, so
`PuckParser` translates it as operators over sequences of one-character
strings (`NUL` past the end):

- `skip`, recursive on the leading characters;
- `name_match`, whose `do ... while (n < 40)` loop is `MatchFrom`, with
  `NextOption` for the search for the next `'|'` option;
- `isvalid_name_char` and `toupper`;
- `parse`, with its loop over the table as `ParseFrom`;
- `Dispatch`, `main`'s skip, its empty-line check and the call of `parse`;
- `puckCmds`, in table order.

`RefDispatch` is the reference. After the blanks, it takes the first
table entry whose name, ignoring case, begins the line and is not
followed by a letter, digit or `'_'`. `MC_Puck` checks the two on 648
lines: every name as written, three in lower case, every name cut short
by one character, every name with its last letter changed, each after
no blank, a blank, or a tab and a blank, and followed by nothing, a
number, `X`, `_` or a tab and a number, plus blank lines.
`ParseAgrees` is checked in `puck_ops`. Its first conjunct is a constant
and TLC evaluates it once. Its second conjunct links the token-level
`parse` of `Puck` to the parser: the command word of every line the
puck holds is one the parser recognises. The parameter `line` of `parse`
is `ln` in the module, apart from `Puck`'s variable `line`.

## 3f. `FoceIo`: what it models and how

`foceio.c` is a threaded TCP server. `main` claims the Elmo DIO board
(A/D slot 0 at 0x300) and switches the Elmo power bits on. It then
starts one `ioSrv` thread per connection. A thread reads a command line,
takes `iomutex`, runs the command and releases the mutex.

| Code | Model |
|---|---|
| `accept` and thread creation | `Accept(t)`. |
| The connection closing | `Disconnect(t)`, only while the thread does not hold the mutex. |
| `pthread_mutex_lock` | `Lock(t)`. |
| The command chain in `ioSrv` | `Exec(t)`: one action per command (`relayInit`, `relayOnOff` for `relayOn` and `relayOff`, `analogInit`, `analogSetup`, `adSample` and `adScan` for `analogSample` and `analogScan` (sharing `SampleChans`), `switchElmoBit`, `switchElmo`, `ReplyOnly`, `bye`), each ending in `Unlock`. |
| `main`'s Elmo set-up, `adDIOConfig`, `adDIOInputByte`, `adDIOOutputByte` | `Init` claims slot 0 with `configElmo` and sets `elmo` with `adDIOOutputByte`, which may fail and leave the byte. `switchElmoBit` reads it with `readElmo` and writes with `switchElmoPort`. |
| `envInit`, `envProductId`, `envFirmwareVersion`, `envReadChannel(s)`, `envReadBoardTemp` and the `sensoray.c` functions they call | `envInit` and the others start the command's transfer list (`initializeSensoray`, `readProductId`, `readAllChannelData`, ...). `HostSend` is one `sensoraySendByte` (`waitCRMT`, then `outb`). `HostRead` is one `sensorayReadByte` (`waitDAV`, then `inb`). The last transfer replies and unlocks. |
| The Sensoray 518 | `BoardTake`, the environment: it empties the command register, frames commands by their opcode (`CmdLength`), and makes reply bytes ready (`ReplyLength`). |
| `initCPUTemp`, `CPUtemp` | `ioSrvStart` gives the new thread `initCPUTemp`'s ten LPC transfers, with no lock. `CPUtemp` gives the thread four transfers under `iomutex`. `LpcTransfer` is one `outb`/`inb` on `LPC_INDEX` or `LPC_DATA`. |

The command line is chosen when the command runs (`\E cmd \in Cmds`).
The line is a local of the thread, so choosing it early would add states
and change nothing.

Every Diamond library call (`dscInit`, `dscInitBoard`, `dscADSetSettings`,
`dscDIOInputByte` and the others) may fail in the model, which reaches
every error path of the code.

**State:**

- the relay tables (`relayBoards`, `relayStates`) and the words written
  to each I/O port (`port`);
- the A/D slot table `adBoards`;
- the per-channel settings `adSettings`;
- the settings each board holds (`loaded`);
- the cache `lastBoard`/`lastChan`;
- the Elmo byte `elmo`;
- each thread's pending Sensoray transfers (`envOps`), and the 518's
  command register, its partly received command and its count of ready
  reply bytes (`cmdReg`, `boardIn`, `dataQ`);
- each thread's pending LPC transfers (`lpcOps`) and the LPC index
  register (`lpcIndex`);
- `lines`, the workload of the behaviour.

| Run | Checks | Shows |
|---|---|---|
| `foce_ops` | `TypeInv`, `RelayPortMirrorsState`, `CacheNamesLoadedChannel`, `MutexHeldByLiveThread` | Two clients interleaving every command. The port word of an allocated relay board is always that board's `relayStates` word. When the `lastBoard`/`lastChan` cache names a channel, that board really holds that channel's settings; `analogInit` re-initialising a board invalidates it. A thread that leaves with `bye` never keeps `iomutex`. The env commands run too, so that their locking and their LPC-free transfers are part of every interleaving, but no property is about the 518 (see below). |
| `foce_lpc` (violation) | `LpcRegisterSelected` | A thread's `initCPUTemp`, which takes no lock, writes `LPC_INDEX` between the index and data transfers of another thread, so a byte goes to or comes from a register the code did not select. |

**Workloads.** In each behaviour the clients send the lines of one of
three sets (`MC_Workloads`): A/D lines, relay and Elmo lines, or env and
`CPUtemp` lines. The sets touch disjoint state. Threads meet only at
`iomutex` and at the LPC ports, which every thread reaches through
`initCPUTemp`. So the union of three smaller state spaces loses no
interleaving that mixing the sets would add.

**Bounds:**

- two clients;
- two relay indexes, one of them never claimed, with one relay address;
- two A/D slots of two channels;
- command lines chosen to hit each branch: a slot re-initialised and
  the slots exhausted; each `adSetup` failure (bad range, bad gain, and
  a library failure); cache hits and misses; Elmo bit 8, which is out of
  range.

**Fairness.** None: every property is a safety property. The code gives
no fairness between threads waiting on a pthread mutex, so
`MutexHeldByLiveThread` states the mutex's release as a safety property.

**The 518 is not checked.** The 518's manual is not in the repository,
so `CmdLength` and `ReplyLength` were read off the transfers `sensoray.c`
makes, and every env command runs under `iomutex`. A property that the
byte stream stays framed, or that every env command completes, would
hold whatever `sensoray.c` does, so the project states none. The hazard
that remains, `waitDAV` and `waitCRMT` spinning forever with `iomutex`
held when the board does not answer (`sensoray.c:202`), needs a model of
the board's firmware.

## 3g. `Consoles`: what it models and how

`console.c` (built for the ARM board) joins the keyboard to a serial
port, and `rconsole.c` joins it to a TCP serial-port server. Both make
the keyboard raw, install `killhandler` for SIGTERM, then loop: poll one
key, handle the control keys with prompts answered through the blocking
`ttygetc`, write the key, and copy what came back to the screen. One
module holds both: `prog` is chosen in `Init`, and the actions of each
program are guarded by it. A `pc` variable says where the loop is.

| Code | Model |
|---|---|
| `ioctl(TCSETS)`, `signal(SIGTERM, ...)`, `iOldstateSet = 1` (console.c:209-226), `set_keyboard_raw` (rconsole.c:56-72) | `SetupStep`: three steps, because a signal can fall between them (the comment at line 223). |
| `killhandler` on SIGTERM | `ConsoleSigterm` (restore if the flag is set, exit) and `RconsoleSigterm` (restore and keep running: rconsole's handler does not exit). Before `signal()` SIGTERM kills the process. |
| `ttypoll` | `ttypoll`: no key, or a byte of 0x80 or more where `char` is signed (`signedChar`, chosen for rconsole only), gives -1. |
| `ttygetc` | `Getc` (masked to 7 bits: `"hi"`, 0xE1, answers `a`) and `ttygetc_skip` (0xFF is skipped). |
| The CTRL-B prompt, `ttygets`, `atoi` and the range check | `BreakPrompt`, `ttygets` (one character per step, stopping at CR/LF or at `len`), `StartBreak` with `atoi` (leading white space, then digits). |
| `TIOCSBRK`, `wait_for_char`, `TIOCCBRK` | `brk` is the line in break; `BreakKey` (every key is swallowed; CTRL-C ends the break with the time left) and `BreakTimeout`. |
| The out-log switch and the CTRL-B rule | `Forward`: a CTRL-B that found `break_time > 0` is not sent when the out log is open. |
| The write loop with `queued4output` and `tcdrain` | `ConsoleWrite` and `tcdrain`; `Transmit` is the UART sending. |
| The `select`/`read` loop | `ConsoleRx` (one byte per step), `RconsoleRx` (up to `READ_BUFFER_SIZE` per loop; a read of 0 after the server closed ends the program). |
| `check_char` and `set_options` | `RconsolePoll`, `set_options`, `OptionsChoice`; the CTRL-X prompt shares `ExitPrompt` with console's CTRL-G. |
| The socket writes, with `append_nl_out` | `RconsoleWrite`: after the server closed (`ServerClose`) a write may succeed, fail (`killhandler`, exit) or raise SIGPIPE, which ends the process without `killhandler`. |

The user (`Type`), the device or server (`DeviceSend`, `ServerClose`)
and the UART (`Transmit`) are the environment. The time is abstracted:
`BreakTimeout` may happen whenever the program waits in a break.
Left out: argument parsing, the log files' contents, the bytes
themselves (only their count matters to the loop), `local_echo` and
`append_nl_in` (they change only what is printed), and a serial read
that fails (a port that reports ready and then returns nothing).

| Run | Checks | Shows |
|---|---|---|
| `console_ops` | `TypeInv`, `TxWithinFifo`, `BreakConfined`, `KeyboardRestored` | Both programs, SIGTERM at any point, the server closing, both signednesses for rconsole. console never has more than `FIFO_LIMIT` bytes written and unsent; the line is held in break only inside `wait_for_char`; once `iOldstateSet` is set, every way console ends restores the keyboard. About 0.9 million states in about a minute. |

**Bounds** (`MC_Consoles`, `Consoles_ops.cfg`): four keys typed, so that
a CTRL-B, a digit, a second digit or CR and a CTRL-C fit, and three
written bytes pass `FIFO_LIMIT` = 2; `tmp_buff` of three bytes, so
`ttygets` both stops at `len` and at a CR; break times of 1 to 10 ms, so
`5` is in range and `55` is not (with these times `wait_for_char` always
returns 1, the branch for more than a second left is not reached); one
byte from the device or server.

**Fairness.** None: every property is a safety property. A liveness
property that every break ends would rest only on the model's
`BreakTimeout`, which may fire at any step of the wait because the clock
of line 137 is not modelled; it would hold whatever `wait_for_char` does
with its deadline, so the project does not state it.

Disagreements the model reproduces, with no run of their own:

- `KeyboardRestored` is stated for console. For rconsole it fails: a key
  written after the server closed raises SIGPIPE (`rconsole.c:393`), whose
  default action ends the process with the keyboard raw, seven steps
  after the start.
- A SIGTERM between the raw mode and `iOldstateSet = 1` leaves the
  keyboard raw, the race the comment at `console.c:223` names.
- With no out log the CTRL-B that started a break is still written to
  the serial port (`console.c:371-386`); the comment "don't send ^B out
  the serial port if you issued a break" holds only with an out log.
- A CTRL-C ends a break with `break_time` set to the time that was left,
  not the time the break lasted, and that is what `<BREAK n ms>` logs
  (`console.c:337`).
- `ttygets` stops at `i = len` after `buf[len] = '\0'`; with
  `tmp_buff + 1` and `sizeof(tmp_buff) - 1` that NUL is written one byte
  past `tmp_buff` (`console.c:119`).
- Where `char` is signed, rconsole's `ttypoll` drops every key of 0x80
  or more (`rconsole.c:97`), while `ttygetc` takes them masked to 7 bits.
- rconsole's `killhandler` does not exit (`rconsole.c:50`): SIGTERM
  restores the keyboard and rconsole runs on with it cooked.

## 3h. `PuckVerify`: what it models and how

`PuckVerify.tla` models the protocol code of the PuckVerify Windows tool,
`PuckIO.cpp`, as the host of a puck. The puck side is the firmware's
main loop (`main.c`) reduced to what the host sees: it takes one line at
a time and answers it.

| Code | Model |
|---|---|
| `OnButtonStart` with its test boxes, `initPuck` | `Init` chooses the checked tests (`tests`) and whether a COM port is open (`portOpen`). The three empty tests are left out. |
| `memoryTest` | `memoryTest`: the step after each `sendPuckCmd` of `PUCKSZ`, `PUCKTY`, `PUCKEM`. It stops on an error, and on a `memSize` below `MIN_PUCK_MEM` after `sscanf` (`ScanLong`). After `PUCKEM` it stops at `writePuckPattern`, a stub that returns `ERR_FAILURE`. |
| `commandTest` | `commandTest`: `PUCKVR`, then `PUCKTY` unless `PUCKVR` failed. |
| `sendPuckCmd` | `sendPuckCmd` (the closed-port return), then per pass of the loop `Write` and `readUntil`; `Retry` writes again until the third failure, which returns `ERR_SEND_CMD_RETRIES`. |
| `readUntil` | `readUntil` takes one byte: `NextTerm` is its match of `"RDY\r"`; the match ends it with `ERR_SUCCESS`, `MAX_CHARS` bytes with `ERR_READ_OVERRUN`. `ReadTimeout` is `elapsed > timeout`, which may come at any pass of the loop. |
| The puck's `getCommand` and main loop | `getCommand` takes the next line and echoes it when `echoMode` is 1. `Dispatch` sends the handler's output (`Answer`) and `RDY\r`. |

**Data.** Bytes from the puck are tokens `[ch, ans]`. `ch` is one
character of the prompt, or a whole output line such as `"135168\r\n"`
for `PUCKSZ`. `Width` gives the line's length, and `ScanLong` says what
`sscanf` reads from it. `ans` numbers the host's write that the puck was
answering, so the property can say whose answer the host took. The
serial port (`SerialPort.cpp`) is a reliable byte stream in each
direction. The puck's 32-byte receive buffer holds every line written,
because at most `MaxTimeouts + 1` lines are ever outstanding.

**Timing.** No clock is modelled. The host's timeout is an action that
may fire whenever `readUntil` runs, and the puck may take any time to
answer. The code gives the puck 1000 ms (10000 ms for `PUCKEM`) and does
nothing about an answer that comes later.

| Run | Checks | Shows |
|---|---|---|
| `puckverify_stale` (violation) | `ReplyAnswersCommand` | After one timeout, the accepted answer belongs to another command. Whichever test runs first, its first command times out and its retry accepts the late answer to the first write; the puck then answers the retry as well, and the test's next command accepts that answer. TLC's trace depends on the order its workers explore: with `tests = {"cmd"}`, `commandTest`'s `PUCKTY` accepts the version string the retried `PUCKVR` produced; with `tests = {"mem"}`, `memoryTest`'s `PUCKTY` accepts the size `135168` the retried `PUCKSZ` produced. |

**Bounds.** `MaxTimeouts = 1` is one timeout in a behaviour, the fewest
that show the problem. Every choice of tests, port and echo mode is an
initial state. The whole space is 2,752 states.

**Seen but not checked.** With the puck's echo left on by an earlier
session, `sscanf(respBuff, "%ld")` meets the echoed `PUCKSZ` and leaves
`memSize` at 0. `memoryTest` then prints that only 0 bytes are available
and returns `retVal`, which is `ERR_SUCCESS`, without testing. The model
has this path: `memoryTest` goes from `SZ` to the command test.

## 4. Not modelled, and why

- Seven disagreements are seen in the code but have no run of their own
  (the project keeps at most twelve runs):
  - `writeRTCReg` refuses only `i > NumberOf(regNames)`, so it accepts
    16 (`ricohRTC.c:687`). It then reads `regNames[16]` past the array,
    and `fmtByte`'s `& 0x0f` sends the value to register 0, the seconds.
    `RegistersAsIntended` in `RicohRtc` (a step changes only the
    registers its code addresses) fails in two steps with 16 in
    `RegChoices`, so `rtc_roundtrip` types only 14 and checks
    `RoundTrip` alone; a pass with 16 left out would hide the
    disagreement.
  - With a NUL separator, a read that continues a partly read buffer
    copies `strlen(base)` bytes, which stop before the separator, so the
    separator is never delivered (`sa1100gpio.c:493`).
  - A waiter woken by an edge it does not wait for stays
    `TASK_RUNNING` and spins through `schedule()` (`sa1100gpio.c:344`).
    The read still returns correctly, and `BlockedReaderReturns` holds.
  - `reloadMyBuffer` has no case for the stencil mode `S` selects, so an
    `S` read returns levels (`sa1100gpio.c:355`).
  - LDDIO's levels read returns all of PPSR (`sa1100lddio.c:218`), as its
    header says, while the spec masks it with the stencil.
  - `parseNextByte` copies PPSR into `PPSRo` before the switch and
    writes back values computed from it (`sa1100lddio.c:272`). A level
    that another driver gives its own pin in between is reverted by `+`,
    `-` or `=`. The stencil is meant to protect those pins (line 34),
    and the comment at line 264 leaves thread safety to the user, who
    cannot serialise with a kernel driver. `ForeignPinsKept` in
    `Sa1100Lddio` states it and fails in four steps (open, the read of PPSR
    for a `+`, the foreign write, the write-back). It has no run: the
    last LDDIO run checks the `:` disagreement, which breaks the header's
    own promise.
  - `gpio_write` computes each chunk's limit from `count`, which it
    never decrements (`sa1100gpio.c:513`). A write of more than 512
    bytes copies a full chunk on its last pass and parses bytes from
    past the end of the user buffer. `lddio_write` and `spi_write` have
    the same loop. `StaysInBuffer` in `ChunkedWrite` states it, and TLC
    finds it violated with `ChunkedWrite.cfg` for a write of 5 bytes in
    4-byte chunks. Its run gave way to the PuckVerify run.
- `gpio_poll` only registers with the poll table and reports
  `pendingEvents`.
- Module init and exit.
- The `-EFAULT` path of `copy_to_user`, which assumes a bad user buffer.
- `printk` diagnostics.
- Hardware edge-type configuration (`set_GPIO_IRQ_edge`). Only whether a
  handler is installed matters to the driver's state.
- `resetSerial.c`, the command line utilities, JNI, the PuckVerify
  dialog's menus and status window,
  Aquadopp sample and time conversion utilities. These are sequential I/O or
  one-shot programs with nothing a model checker adds to.
- LDDIO's write chunk loop is the one `ChunkedWrite` models for
  `gpio_write` (the same code is at `sa1100lddio.c:364`).
- The sprintf bound of GPIO reads: an 8-digit negative tally, its
  separator and the NUL exactly fill `VALSIZE`. `Sa1100Gpio` computes
  the bytes written (`written`), but no run checks the bound any more.
- In `ricohRTC`: `suspendForMinutes`, which is unreachable because
  menu item 8 breaks before calling it. `-a` clamps a value below -195
  to `adjVal = -63`, which is written as 0xC1 with bit 7 set; the
  in-range path masks bit 7 off with `& 0x7f` (`ricohRTC.c:302`). The
  model writes 0xC1 as the code does, and no property is about bit 7. `rtcReadBytes`' error returns without
  `rtcUnselect` (lines 954, 964) cannot happen with the LDDIO driver:
  an 8-byte read always returns the 7-digit level string and its
  separator. The model therefore has no failing read. Time does not
  advance in the chip model.
- Sa1100Gpio still defines `EdgeRequestHonoured` and `EventTallyExact`.
  No run checks them now, because the project keeps at most twelve runs.
  Both fail:
  - One session's `.` removes a handler that another session installed
    (`sa1100gpio.c:279`). Installation is not reference-counted as the
    spec says.
  - After the 16-bit counts wrap, `eventTally` adds a negative int, so
    `P` reports 2^32−k (`sa1100gpio.c:246`).
- In the puck firmware:
  - `getCommand` tests `char_count < MAX_CHARS` and then stores
    `line[char_count]`. It then writes the terminating NUL at
    `line[MAX_CHARS]`, one byte past the 80-byte buffer
    (`main.c:135`). The model keeps only the stored characters.
  - Not modelled: the timer (`readTimer`, `delayTimerTicks`); the
    RS-485 and transmit-buffer code, which main never calls; the text
    of replies.
- In `foceio.c`, these disagreements are recorded as hazards without a
  run:
  - `adSetup` stores `current_channel`, range and polarity before it
    rejects a bad range or gain, and it leaves `lastChan` alone
    (`foceio.c:404`). After `analogSample 0 0` and a failing
    `analogSetup 0 0 5 1 3`, the next sample of channel 0 uses stale
    board settings.
  - `initADBoard` claims a slot before `dscInit`/`dscInitBoard` can
    fail (`foceio.c:222`). A failed init leaves a slot that has no
    board.
  - `switchElmoBit` ignores a failed read: `elmoByte2` stays 0xFF, so
    every Elmo enable is switched on (`foceio.c:849`).
  - `relayOn`/`relayOff` do not check the index (`foceio.c:795`). The
    model keeps indexes in range.
  - In `sensoray.c`, `resetSensoray` and `readChannelData` are never
    called by `foceio`. `getChannelConfig` only formats text.
    `envConfigureChannel` and `envSetFilterConstant` are dead: no branch
    of `ioSrv` reaches them.
  - `ioport.c` is a fork-per-connection raw port server with no shared
    state and no mutex. `relay.c` is a superseded copy of the relay
    code. `adtest.c`, `rtest.c`, `temp.c` and `testSensoray.c` are
    one-shot test programs.
