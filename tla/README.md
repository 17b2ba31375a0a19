# TLA+ models of AsProgrammer (dregmod)

AsProgrammer reads, writes and verifies serial memories through a small
programmer on USB. This directory holds TLA+ models of its control logic, the
TLC runs that check them on small instances, and TLAPS proofs of what holds for
every instance. Line numbers refer to the sources of this commit.

## The system

| part | sources | state it keeps | operations | hard behaviour |
| --- | --- | --- | --- | --- |
| operation handlers | `main.pas`, `spi25.pas` (also `spi45`, `spi95`, `spimulti`, `i2c`, `microwire`) | Cancel flag, address and byte count of the loop, `RomStream` | Read, Write, Verify, Erase, Unlock, the combination run, Read ID, Benchmark | addresses at a boundary, a frame lost in the middle, Cancel inside `ProcessMessages`, chip modes that outlive the operation |
| operation lock | `main.pas` (`LockControl`, `SetOperationMenusEnabled`), the modeless windows | which controls are enabled | every click | re-entrancy through the message pump |
| BPIO2 back end | `buspirate5hw.pas` | mode, desync flag, chip select, queue, applied configuration | `DevOpen`, `SPIRead`, `SPIWrite`, `DevClose`, `Disconnect`, I2C | late, lost, stray and refused answers; recovery; leaving a target powered |
| BBIO back end | `buzzpirathw.pas` | mode, pending bytes, desync flag, speed | the same | the same, on an unframed stream where any byte counts as an answer |
| Arduino programmer | `arduinohw.pas`, `firmware/asprog` | the serial line; handler, count and pins of the sketch | init, read, write, start and stop, busy | time-outs on both ends, lost bytes, an acknowledge that comes late, bytes left for the next call |
| USBasp | `usbasphw.pas`, `usbhid.pas`, `firmware/usbasp`, its `usbdrv` (V-USB) | count, address and chip select held between vendor requests; the driver's buffers and toggles | connect, read, write, ISP on SPI, I2C, Microwire | a transfer cut short with its rest still offered, packets lost after they were let go, what is remembered from session to session |
| AVRISP-MKII | `avrisphw.pas`, `firmware/AVRISP-MKII` | one endpoint bank, parameters (two in EEPROM), `CurrentAddress`, pins | V2 protocol commands on the same buses and ISP | posted writes, replies dropped after 100 ms, packets taken for commands, pins left by a session that was cut off |
| other USB back ends | `ch341hw`, `ch347hw`, `ft232hhw` | an open flag | the same | hardly any: one or two library calls each |
| scripts, chip list, editors | `scriptsfunc.pas`, `pascalc.pas`, `findchip.pas`, `sregedit.pas` | settings | user actions | modeless windows over a running loop |

A handler of `main.pas` opens the device (`OpenDevice`), locks the controls, runs
its loop and closes the device in a `finally` block. The loop calls `spi25.pas`,
which turns each chip command into one chip select framed transaction through
`SPIWrite`/`SPIRead` of the selected `TBaseHardware`. The back end talks to the
programmer over USB or a serial port. Everything runs on the GUI thread; what
interleaves with a handler are the messages it pumps (`Application.ProcessMessages`:
Cancel and every control that is not locked), the chip's own cycle time, and the
programmer at the other end of the link.

What makes each part correct: a handler touches only the range it was given,
"Done" means what it says, nothing is written after Cancel, the chip's modes are
undone; a back end takes no answer for another request's, never shows the chip a
transaction put together from two, recovers before the next operation, and leaves
no target powered; a programmer puts on the wires what the calls say, once and in
order, says so only then, and lets the chip go; the lock lets no second operation in.

`PROJECT.json` lists all components with their status and every hazard with the
properties that cover it.

## Modules

* `FlashChip` - the 25-series part on the clip. It is not in the repository: the
  module states what the code takes for granted (a busy part discards commands, a
  program needs the write enable latch and rolls over inside its page, four byte
  mode is a latch). Effects are sets of successors, so a frame of the wrong
  address width lands anywhere.
* `Flash25` - the loops of `main.pas` over the frames of `spi25.pas`.
* `Flash25Proofs`, `Flash25WriteProofs` - its theorems: types and reads, then writes,
  verifies, modes and Cancel.
* `MCFlash25` - instances for TLC.
* `BpioDevice` - the Bus Pirate 5 at the other end of the serial line, as far as the
  host relies on it: one request at a time and in order, a configuration ends with
  the chip deselected, a refused request is not carried out.
* `BusPirate5` - the BPIO2 engine `TBusPirate5` and the hardware class over it.
* `BusPirate5Proofs`, `BusPirate5LinkProofs` - its theorems: types and single requests,
  then what an answer says of the device.
* `MCBusPirate5` - instances for TLC.
* `ProgrammerPort` - what a programmer promises to the operations above it, whatever
  link and firmware are in between: the abstract specification the three below
  implement.
* `UsbAspPins`, `UsbAspFirmware`, `UsbAsp` - the USBasp: its programming header
  (`isp.c`, `i2c.c`, `microwire.c`), the vendor requests of `main.c`, and the
  composition of the two with V-USB, the bus and the calls of `usbasphw.pas`.
* `UsbAspProofs`, `UsbAspStepProofs` - its theorems: types, then host and firmware in step,
  and the frames they leave.
* `AvrIspTarget`, `AvrIspFirmware`, `AvrIsp` - the same three layers of the AVRISP-MKII
  clone: pins, commands of the V2 protocol, endpoint bank with the calls of
  `avrisphw.pas`.
* `AvrIspProofs` - its theorems: types, packets that are taken for what they are, and the
  header that is let go.
* `AsprogFirmware`, `Asprog` - the sketch, and the serial line with the calls of
  `arduinohw.pas`.
* `AsprogProofs` - its theorems: types, and the line that is clean between calls.
* `MCUsbAsp`, `MCAvrIsp`, `MCAsprog` - instances for TLC.

### Flash25

One step is one chip select framed transaction or one pass of loop bookkeeping;
between two steps the chip may finish its cycle. `pc` is the place in the
handler: `status` (`IsLockBitsEnabled`), `en_*` (EN4B's three frames), `wren`,
`program`, `wait` (`UsbAsp25_WaitReady`), `check` (auto check), `read` (the read and
verify loops), `advance` (address, progress, Cancel), `ex_*` (EX4B), `wrdi`,
`report`, `close`. `addr`, `count`, `image`, `cancel` are `Address`,
`BytesWrite`/`BytesRead`, `RomStream` and `ButtonCancel.Tag`; `verdict` is the line the
log ends with. `queue` holds the handlers the combination run has still to call.
A job is what the handler read from the form: range, data, page size, options.

Abstractions: a byte is erased or not; the three erase opcodes and the two unlock
sequences are one frame each, since one of them is the part's; the target keeps
its supply between operations, so chip modes survive `DevClose`.

Link failures: with `sticky` (the two Bus Pirate back ends, whose desync gate
refuses everything until the next `DevOpen`) a failed frame is followed only by
failed frames; without it one whole transaction is refused and later ones get
through, as with a BPIO2 refusal. A failed frame may have reached the chip. A USB
back end that loses only the first of a transaction's two calls, so that data is
taken for a command, is not modelled.

Runs (parts of 8 or 12 bytes, pages of 4, three address bytes reaching 4 or 8, so
that ranges lie below, across and above the limit; a read chunk of 5, so that
chunks do not line up with anything; one lost frame anywhere, since a sticky link
makes one loss a loss of everything after it):

| run | shows |
| --- | --- |
| `flash25` | 21 jobs (aligned and unaligned starts, both SST types, Skip FF, auto check below and above the limit, ignore busy, refused settings, the combination, three whose settings do not suit the part), any initial contents of three, one fault, Cancel at any pump, both link kinds: `RangeSafe`, `DoneMeansProgrammed`, `CheckedDoneMeansEqual`, `VerifyDoneMeansEqual`, `ReadFaithful`, `NoWriteAfterCancel`, `TypeOK` |
| `flash25_pairs` | any two of 7 jobs in a row, the second on what the first left: `ModeRestored`, and under fairness `Terminates`, `CancelStops` |
| `flash25_latched` | finding: Cancel during a page program above 16 MB leaves the part in four byte mode, because EX4B is sent while the part is busy |
| `flash25_busy` | finding: a write started right after such a Cancel loses its first pages and logs Done |

Preconditions in the properties, and why: `Trusted` (the operation began on a chip
without residue, and EN4B cannot be lost alone while later frames get through),
because `EN4B`'s result is ignored; on a link that is not sticky that leaves the jobs below the
limit, of which two are checked page writes (one with a page Skip FF does not send), so that
`CheckedDoneMeansEqual` meets a lost `WREN` with the later frames arriving; `Suited`, see below; `~job.ignore`, because "Ignore busy bit" asks
for exactly that; `~warned`, because the protection warning says the part will
discard the write.

`Suited` is what the form leaves to the user, and nothing in the code checks: a page
box that divides the part's page, an even start when it says 2 (a 2 is exempt from
trimming), an even length for SSTW (`WriteSSTW` always sends two bytes), and no AAI
sequence beyond three address bytes. Jobs without it are in `flash25`: `TypeOK`,
`VerifyDoneMeansEqual`, `ReadFaithful` and `NoWriteAfterCancel` hold of them too, the other
four properties say nothing of them. The part then does what it was told, which the two numeric hazards of
`PROJECT.json` describe.

Fairness: `WF_vars(Host)`. The handler is straight-line code on one thread, so an
enabled step happens. Neither the user (`Click`, pressing Cancel) nor the chip
(`ChipFinishes`) is assumed fair: `Terminates` has the chip's cooperation as its
hypothesis and `CancelStops` needs none. `CHECK_DEADLOCK FALSE`: with the bounded
number of clicks used up and the handler done, the program rightly stops.

### BusPirate5

Every exchange with the device is one `Transact`; an action is the host code between
two of them, and `pc` names the exchange that is waited for: `probe` and `full` (the two
statuses of `Open`), `resync_status`, `resync_config`, `ping`, `fast_release`, `configure`
(`DevOpen`), `push`, `assert`, `slice` (`SPITransfer`), `release` (`SPIReleaseCS`),
`down_release` and `hiz` (`SafePowerDown`). The record `h` is the host: `desynced`,
`recovering`, `cs`, `pending`, `applied`, `opened` are `FDesynced`, `FRecovering`,
`FCSAsserted`, `FPending`, `FAppliedConfig`, `FDevOpened`; `stream` and `want` are what
`SPITransfer` has still to send and to read. `out` and `in` are the two directions of the
line. `Ask` is `Transact` up to its wait (the gate, the purge, the write); `Judged` is
what it does with one frame. A byte on the SPI bus is the number of the transaction it
belongs to, which is all that `Whole` needs to tell.

The link may lose, delay, damage or refuse any exchange, stop a write half way, deliver
frames that answer nothing, and be unplugged and put back; each of these counts
against `MaxFaults`. The purge before a write removes any prefix of what has arrived,
because a frame may still be on its way. One thing about time is assumed: the drain of
`Resync` ends with the device having finished what it was sent (it waits for 300 ms
of silence, five seconds at most).

Runs (slices of two bytes instead of 512, so that a transfer of three takes two
requests; a queue of two bytes, so that it overflows; three settings of the menu; three transactions: a write whose opening half overflows
the queue, a read of two slices, a read with nothing to write before it):

| run | shows |
| --- | --- |
| `busp5` | two transactions, any three faults, foreign error frames among them: no answer is taken for another request's (`Attributed`, except after the finding of `busp5_grace`), the chip never sees a frame made of two transactions (`Whole`), the engine knows whether the chip is selected (`ChipSelectKnown`), `DevOpen` leaves the device as the menu says (`ConfiguredAsWanted`), a shutdown that reports success switched the target off (`OffMeansOff`), a `DevOpen` during which nothing fails succeeds after any loss of answers (`RecoversFromLostAnswers`), no request breaks the firmware's limits (`NoLandmine`) |
| `busp5_strays` | with unsolicited data flooding the line every call returns (`CallsReturn`); a smaller instance with one transaction |
| `busp5_dead` | finding: after the device was unplugged and put back `DevOpen` fails until the user disconnects |
| `busp5_power` | finding: an answer lost during the shutdown itself leaves the target powered with nothing sent to switch it off |
| `busp5_grace` | finding: one foreign error frame and a slow answer are enough for an answer to be taken for the next request's |

Three faults: one takes the link out of step, the second hits the recovery, the third
what follows a half recovery (3.6 million states; the theorems hold for any number).
Transact discards three frames instead of eight; it must be no
fewer than the faults, or the answers of several abandoned opens use the limit up.
Two exceptions are written into the properties. `loose` is the finding of
`busp5_grace`: a request was taken for refused, and the link for in step, although the answer
to that request had not been heard. From then on the link is out of step unmarked, and
success, failure and "off" may all be another answer's. Without it the run fails even with no
foreign frame on the line, since a late error answer to the full status of `Open` opens the
same window. The history `heard` tells the two apart: a refusal that is the request's
own answer leaves the link in step and excuses nothing. `cut` excuses `Whole` when the device refuses a
slice while the chip is selected: the handler's next transaction then continues that
frame, which the loops of `main.pas` prevent by leaving.
`RecoversFromLostAnswers` presumes that the line is not flooded: as many frames that nobody
asked for as Transact discards fail a request like a lost answer, without a fault, so the
property fails with the asynchronous frames of `busp5_strays`.
The handlers are taken from `main.pas`: nothing follows `SPIDeinit` but `DevClose` (or, in
Read ID, nothing at all: `LeftOpen`); a script could do otherwise.

Fairness (`FairSpec`): the host's straight-line code, the reading of what has arrived,
the device's serving, and a deadline on a silent line. That a deadline passes while
frames keep coming is not assumed, so `CallsReturn` rests on the limit of discarded
frames alone. `CHECK_DEADLOCK FALSE`: with transactions and faults used up and no
handler running, the program rightly stops.

Not modelled: the I2C calls of this back end, the coding of bytes into frames, and
another program changing the device's mode (`Ping` does not look at the mode).

### ProgrammerPort and the three programmers that implement it

`ProgrammerPort` has a session, the call under way, the symbols the chip has seen in this
session, and what the last call returned. A call drives its own symbols onto the wires,
in order and right behind those of the calls before it; it reports success only when all
are there, and its data are then the places on the wire where the chip answered. A call
may fail at any moment, and after that nothing is promised until the session is opened
anew. A symbol is a byte with the number of its call and its place in it, so a byte
that is lost, repeated, late or another call's is a different symbol; a start, a stop, an
address, a read byte with its acknowledge, and the end of a frame (chip select) are
symbols too.

`UsbAsp`, `AvrIsp` and `Asprog` each have `ImplementsPort == Port!Spec`, with `Port` the
instance under a refinement mapping from the pins of the firmware. In all three the
variables are `host` (the call, and what is left of it), the device (`dev`, or `fw` and the
two queues `up` and `down`), and the histories `port`, `base`, `answer`. `port` says whether
the session is as good as new: it becomes `"open"` when every transfer of opening it
succeeded, and `"broken"` with the first call that fails and at faults no call could
notice. A handler of `main.pas` looks at the result of `DevOpen` alone, so a session
goes on after a failed `SPIInit` (`entered` while `port` is `"broken"`): its calls are made and
interleave like all others, only nothing is promised about them. The AVR programming
tool that uses the ISP requests is not in the repository; it is external and does what
such tools do (enter, load an address, blocks, leave; stop at an error).

| run | bounds | shows |
| --- | --- | --- |
| `usbasp` | packets of 2 bytes for 8, extended addresses after 4 bytes for 128 K, a page counter modulo 4 for 256; two calls in any sessions, 2 faults; hardware and software SCK for SPI and ISP | `ImplementsPort`; `InStep` (host, driver and firmware agree how much of a transfer is left); `NoFrameLeaks` (no chip select and no I2C transfer is left open that was not meant to be); `CallsFinish`; `TypeOK` |
| `avrisp` | a bank of 3 (a header counts as one element) for 64, blocks of up to 4 for 256, a segment of 2 words for 64 K; two calls, 2 faults | `ImplementsPort`; `OnlyOwnBytes` (no packet is taken for what it is not); `TargetReleased` (after a session in order the header drives nothing); `CallsFinish`; `TypeOK` |
| `asprog` | chunks of 2 up and 3 down for 64 and 256; two calls, 2 faults | `ImplementsPort`; `LineClean` (between calls no byte is left that could be taken for an echo); `DoomedCallsFail` (a call whose handler gave up in the middle fails); `CallsFinish`, `BackInLoop`; `TypeOK` |

The bounds are small against the lengths of the calls on purpose: transfers of less than,
exactly and more than one packet, blocks that end at a packet, a page and a segment,
the page counter passing its modulus. Two calls are enough for one to find what another
left, in the same session or the next; two faults, for one to break a transfer and the
other to hit the recovery.

**UsbAsp.** A step is one bus transaction, one half of `usbPoll` (`PollRx`, `PollTx`), or a
decision of the program. V-USB's interrupt answers a transaction at once from its
buffers: `rx` is `usbRxBuf`, `tx` is `usbTxBuf`, `msgLen` is `usbMsgLen`, `addr` and `newAddr` are
`usbDeviceAddr` and `usbNewDeviceAddr`. A NAK and a transaction lost on the way in are
repeated by the host controller and change nothing. Faults: an IN packet damaged after
the device has let it go (`LoseData`), the device's acknowledge of a packet damaged, so that
the packet comes again (`LoseAck`), a transfer given up (three errors, ten seconds),
unplugging. The driver stores the toggle of what it receives at most and never compares
it, so the repeated packet is served like a new one: the count reaches zero too early,
what follows is answered with STALL, dropped (SPI) or written to the EEPROM (flash blocks).
The call may not notice, so the session is given up (`port`); the model goes on with it, and
what a later, newly opened session promises is checked.
Fairness: the bus, and both halves of `usbPoll` never stay pending (written as `[]<>~RxPending`,
which TLC decides faster than `WF` and which is the same, since each half ends what it
waits for).

Left out of the run, because the code is known to misbehave there: an AVR that cannot
follow what `ENABLEPROG` settles on (`TargetMax`; the step from the slowest hardware
speed to a software one leaves the SPI unit on); I2C reads whose write part is empty,
which send no start. A lost connect request in a later session of the same plug-in lets
the firmware wait for ever for an SPI unit that is off (`pins.cpu = "hung"`): the calls fail,
as promised, but the device has to be unplugged.

**AvrIsp.** EP 2 IN and OUT share one bank, which is turned round for each reply. The
device works on a command when its data is complete, in one step; the host has finished a
write when the last packet is in the bank. Success is therefore reported before the bytes
are on the wires, and the port's wire is what the chip will have seen once the bank is
worked off (`Wire`, from the history `bank.wire`): nothing can overtake it. A packet that
arrives where none is expected is taken for a command (`StrayCommands`); `strayed`
records it. The replies of `LEAVE` are never fetched and fall to the 100 ms of
`Endpoint_WaitUntilReady` (`DropReply`). `set_configuration` is handled by the main loop
between commands and clears the bank, as LUFA does. Faults: a transfer given up, a host
later than the 100 ms, a target that stays busy, the program ended, unplugging.
Fairness: the host controller, the command loop, and the timer for a reply nobody awaits.

The user changes to another kind of chip, or SCK between hardware and software, only after
a session that was left in order, since nothing but `LEAVE` turns the SPI unit off and
hands the pins back; without that restriction `ImplementsPort` fails, and no property
covers a lost `LEAVE`: `TargetReleased` is about sessions left in order alone. Two results are
simplified: `SPIRead` ignores that its command could not be sent (`avrisphw.pas:222`), while a
failed transfer always fails the call here; and `STATUS_CMD_TOUT` of value polling is
counted as `STATUS_RDY_BSY_TOUT`, since a host takes both for a failure. Left out of the run:
`I2CReadWrite` with a read part (`I2c.c:139` begins with `i2c_init`, which makes a stop of
what should be a repeated start), Microwire writes of more than 16 bits
(`avrisphw.pas:435`), blocks longer than 256, and SPI memories at
software speeds, which the menu does not offer.

**Asprog.** The two directions of the line are queues of bytes; a step of the sketch runs
from one `Serial.readBytes` to the next. Both ends wait with a timeout, the sketch for one
second, the host for two, so the host's expires only when the sketch has nothing more to
do (`RecvTimeout`) and the sketch's only while the host is not about to send
(`ReadBytesTimeout`), unless the host is late, which is a fault (`Late`). Other faults: a
byte lost in either direction, a port that does not open, the program ended, the board
reset. Bytes are lost, never changed. Connecting resets the board and purges the line. A
byte that is no code but is read in the loop may be any of `StrayCodes`; a byte of the chip
may equal any echo. What the host tells the sketch without waiting for an answer
(`I2C_START`, `I2C_STOP`, the last acknowledge) is in the line when the call returns; the
port's wire counts it, as with the posted writes above.

The session is given up (`port`) where the protocol cannot notice a loss: data to be
written (a chunk is acknowledged when clocked out, whatever came), a command without an
answer, the last acknowledge. `"doomed"` is a session whose handler gave up while the call goes on,
and `DoomedCallsFail` says that such a call does not succeed. A byte taken for a command it is not
dooms the session too: what that command does to the wires is not promised, but the call
under way has missed its echo. `StrayCodes` of the run has a command that waits for a header
(`SPI_WRITE`), one that floats chip select (`SPI_DEINIT`, the 8 of a length of 2048), one without
an answer (`I2C_STOP`) and no command at all; commands that answer with a byte of the chip are
left out, since with the loss of their echo as a second fault that byte can be taken for the
one awaited. Two inputs no caller makes are outside `JobType`: lengths of 2^15 and more, which
the sketch's 16-bit `int` takes for negative (the callers stay at 2048 and below), and a
Microwire write of no bits, for which the host awaits an ACK (`arduinohw.pas:597`) that the
sketch never sends. Left out of the run: reads
that leave a chunk of one byte, where a late acknowledge makes the sketch's
`ERROR_NO_CMD` the last byte of a successful read; I2C writes of `wchunk` bytes and more, of which
only `rchunk` are sent (`i2c_cmd.cpp:158`); `I2CReadByte`, whose acknowledge bit the two
sides take in opposite senses (`arduinohw.pas:445`, `i2c.h:4`).
Fairness: `WF` of the program's straight-line code and of the sketch. `BackInLoop` excepts
a sketch that hangs in the SPI library, which waits for a unit that a lost `SPI_INIT` left
off; `CallsFinish` does not except it.

In all three `CHECK_DEADLOCK FALSE`: with calls and faults used up and the session closed,
nothing has to happen. `CallsFinish` of the two USB programmers is about runs without a
fault, since after one a call may need the timeout of libusb, which is not assumed fair;
`Asprog`'s timeouts are its own code and it needs no such condition.

## Proofs

TLAPS checks the theorems below for every value of the constants, so for real parts,
buffers, page boxes, slice lengths, queues and any number of failures; the runs show
the same properties on small instances, and TLC checked each inductive invariant
there before it was proved. Assumptions: `ChipAssumption`, `JobsAssumption`,
`BusPirate5Assumption`, `SckOptions`, `UsbAspAssumption`, `AvrIspAssumption`,
`ChunkAssumption` and `AsprogAssumption`, which TLC evaluates in every run of their components.

| module | theorem | states |
| --- | --- | --- |
| `Flash25Proofs` | `Flash25TypeOK`, `Flash25ReadFaithful` | types; a read's image is what the part held, and whole when the log says Done |
| `Flash25WriteProofs` | `Flash25RangeSafe` | no byte outside the range of a write changes |
| | `Flash25DoneMeansProgrammed`, `Flash25CheckedDoneMeansEqual`, `Flash25VerifyDoneMeansEqual` | what Done says of the contents, after a write, a checked write and a verify |
| | `Flash25ModeRestored` | an operation undoes the modes it has set |
| | `Flash25NoWriteAfterCancel` | action property: after Cancel no step changes a byte |
| `BusPirate5Proofs` | `BusPirate5TypeOK`, `BusPirate5NoLandmine` | types; no request breaks a limit of the firmware |
| `BusPirate5LinkProofs` | `BusPirate5Attributed` | an accepted answer is the request's own |
| | `BusPirate5Whole`, `BusPirate5ChipSelectKnown` | the chip's frames, and what the engine knows of chip select |
| | `BusPirate5ConfiguredAsWanted`, `BusPirate5OffMeansOff` | what success of `DevOpen` and of the shutdown says of the device |
| `UsbAspProofs` | `UsbAspTypes` | types; nobody offers or holds more than a packet, or than was asked for |
| `UsbAspStepProofs` | `UsbAspInStep` | while nothing is lost, program and firmware count the same bytes |
| | `UsbAspNoFrameLeaks` | between the calls of a good session no frame is open that was not left so on purpose |
| `AvrIspProofs` | `AvrIspTypes` | types; no packet exceeds the bank, which is never used in both directions |
| | `AvrIspOwnBytes` | in a good session no packet is taken for what it is not |
| | `AvrIspTargetReleased` | after a session left in order the header drives nothing |
| `AsprogProofs` | `AsprogTypes` | types; the sketch waits for at least one byte, its counters never go below zero |
| | `AsprogLineClean` | between the calls of a good session no byte is left that could be taken for an echo |

**Flash25, types and reads.** `TypeOK` is not inductive alone: that `addr` stays within
the part needs that a loop step only runs below the end of its range with a chunk
that ends inside it. `IInv` adds `OpFits` (the place in the handler fits the kind of
operation, so a write step never runs with a read's range) and `LoopSound` (inside
a loop `start <= addr < End`, and the settings were accepted). `ReadInv` adds `Untouched`
(no step of a read changes the contents, on a part that was quiet and in step when it
started) and `Counted` (the byte count is the image's length and the distance
`addr` has moved). The count is what ties the verdict "done" to a whole image.

**Flash25, writes.** `WInv` has one part per thing a write relies on, and the frames of all
actions preserve it together (`Inductive`):
`RangeInv` says the contents outside `start .. Frontier` are those before the write, where
`Frontier` is `addr`, or the end of the chunk once its frame is out. A program frame
keeps it only if it reaches the address that was meant (`ModeInv`: the part decodes as many
bytes as the loop sends), on an idle part (`RestInv`), inside one page of the part
(`LoopInv`'s `Aligned`, and `ChunkInPage`, which rests on arithmetic of remainders stated as
lemmas), and if a running AAI sequence is where the loop is (`AaiInv`). For Done, `CountInv`
says the byte count never runs ahead of the frontier, and `ExactInv` that as long as it has
not fallen behind everything below the frontier is programmed, which needs `ArmedInv` (the
part has its write enable, or its AAI address, when the frame comes). `ComparedInv` is
the same argument for what was read back. `RestoredInv` follows the modes through the
`finally` blocks one frame at a time, and `CancelInv` says a handler that has seen Cancel is
past every frame that could write.

**BusPirate5, types.** `IInv` adds `Placed` (an exchange has an answer exactly where one is
waited for, and Resync, Connect and SPIReleaseCS run on behalf of those that call them),
`Numbered` (who has something to send has a transaction to send it for) and `Sendable` of
every request on the line, which is `NoLandmine`.

**BusPirate5, the link.** That an answer is the request's own cannot be seen from the
answer: it holds because of what can no longer be under way. `LinkInv` has three
layers, each inductive relative to those before it.
`Shape` says what the place in the code tells of the engine (mode, applied settings, whose
bytes are queued) and which request is sent there.
`Wire` says which answers may still come. `Own`: the request that is waited for is the last
one sent. `FirmWire`: in a mode that was entered, at most one request is under way, and none
when the link is in step and nothing is waited for; this is what the desync mark buys.
`OpeningWire`: during `Open` late answers may come, but only ones the next request does
not take for its own: a configuration is asked for when nothing but status answers may
still come, and the probe before it takes only a status answer, behind which no other
kind follows (`Ordered`). That is the reason for the order probe, full status,
configuration.
`Target` says what the device is like: an accepted configuration is in force and no late
request changes it (`SettingsHold`), chip select is what the engine believes, through
every answer that may come (`SelectHolds`), and the bytes since the last assertion are one
transaction's, those still on the line included (`FrameHolds`, `TransactionHolds`).
Everything but `Own` and what a dead port leaves is stated for links that are not `loose`; the proof
shows that the window of `busp5_grace` is the only way out.

**UsbAsp, types.** That the host never holds more than it asked for is a property of three
parties: what it has, what is in the driver's buffer and what the driver still means to
offer must together not exceed the request (`Fetching`), through faults that repeat or drop
packets. It needs that the firmware never fills more than it is given room for and sets its
count from the request it serves (`SetupFits`, `ReadFits`, `WriteFits`), which for the loops
over a packet is an induction over its bytes. `JobType` in `UsbAspAssumption` says what the calls of
`usbasphw.pas` take, so that the transfers of every call are requests with the direction
the firmware reads them with (`Asks`, `Script`).

**UsbAsp, in step.** `SInv` has one part per way the two could fall out of step while nothing is
lost. `Counted` is the equation itself with what a count of zero leaves behind (a state that
is over, an empty status packet, a stall nothing follows). `InTurn` says that no packet is
taken for a repetition, `OneWay` that nothing is on its way to a device that sends.
`Connected` says the SPI unit is on whenever a session on an SPI memory sends bytes: were it
off, the firmware would wait for it in the middle of a packet and the count would be wrong
for ever (`Returns`). Since the program does not look at the result of the connect, this holds
only because the transfer before it, `SETISPSCK`, cannot fail unless something is lost, which
is what `Told` says; `Ordered` ties the transfers left to the call that makes them.

**UsbAsp, frames.** `FInv` holds with faults, so it cannot rest on the equation above: a packet
may be served twice, the firmware's count be too small, its handler over too early. On the I2C bus
it says that SDA is low only behind a start or an acknowledged byte, whatever was requested
(`Started`). On the SPI bus it says what the device has still to do for the host to find its
transfer complete. Of a read (`SpiReads`), what the host has, what is in the buffer and the count
never exceed the request, so when the host has it all the count was zero and the last byte
has raised chip select (`Closed`). Of a write (`SpiWrites`), the device has something to offer only
when its count is zero. Of the connect (`SpiConnects`), that it raised chip select. A
request that arrives late or twice, from a call given up, would select the chip behind
a finished call: in a good session none is under way between calls (`Rests`), because whatever leaves
one behind breaks the session, and `SetsUp` shows that one can only become good if all three
transfers of opening it brought what they asked for. A program that starts anew has lost its
address, so it serves nobody (`Reaches`). The theorem has one hypothesis, `Filled`: calls on an
SPI memory read or write at least one byte. All operations of `spi25.pas`, `spi45.pas` and
`spi95.pas` do, and those of the run. Without it the property is false: `SPI_READ` and
`SPI_WRITE` select the chip when they are requested (`main.c:83`, `90`), and where no byte follows
nothing raises it again, although the call succeeds. Only a script can ask for that
(`scriptsfunc.pas:315`).

**AvrIsp, types and own bytes.** The host knows a transfer as a number of packets, the device
a command as a number of bytes and the rule that a block ends with a short packet; nothing
else tells either where the next command starts. `Aligned` says the two agree: in the middle
of a command (`Midway`) the device has the data of exactly the packets sent, and otherwise
the packet in the bank completes it or the device waits for a command. That it is kept
rests on `PacketData` (what the next packet holds), `NotYetComplete` (no packet but the last
completes a command) and, of the calls, on `OutOK`: an empty packet follows a command when
and only when the device waits for one, and none is longer than the device takes. `Orderly` says when this is
so: in a good session, and while one is opened once the device has been configured, which
clears what an earlier session left. A transfer given up ends it; a reply that is lost, fetched late or
cut short does not. A stream that times out cannot happen there (`StreamTimeoutStep`).
`JobType` in `AvrIspAssumption` says what the calls of `avrisphw.pas` and of the AVR tool
take, whose blocks are no longer than `BlockMax`. Any bytes may be in the packets, and for
these two theorems the pins may do anything.

**AvrIsp, the released header.** `LEAVE` turns the outputs off, floats chip select and gives up
programming mode, but leaves SDA as it is. So `LeftInv`, that once the command that ends
a session has been sent the header is released or will be when the bank is worked off,
needs to know that nobody pulls SDA at that moment. `SdaInv` says so on the I2C bus: a line that is
low, now or behind the command in the bank (`SdaAfter`), belongs to a frame the program wants
open, or a transfer of the call under way will still free it (`Owed`, `Paid`), and a session is
not closed within a frame (`CallsInv`). Off the I2C bus no I2C command is ever under way
(`OffBusInv`). What a whole command leaves of SDA is what its bytes leave one after the other, so
the loops over a packet are followed byte by byte, by induction. `Orderly` covers the time before
and after a session too (`AtRest`), since a command of a session that failed must not still be
in the bank when the next one is left in order.

**Asprog, types.** That the sketch never waits for nothing needs that a handler in its data
phase has bytes left, unless it hangs (`FwOK`), and that a counter never goes below zero that
it is never given more bytes than it asked for and that lengths, whatever bytes stand for
them, are numbers: so the bytes in the line and those still to be sent have a form
(`LineByte`, `Step`), which `ScriptOK` shows of every call. The pins play no part, except that a hung
sketch stays hung until the board is reset.

**Asprog, the clean line.** `LineClean` looks at the moments between calls only; to get there
the proof has to know at every moment what may still come up the line. `InSession` says it of
a good session: the bytes for the host are never more than the steps left of its call are going to
take (`Stage`). It has one case per place of the protocol. `Begins`: nothing is under way but what
was told and not waited for (`Backlog`). `Requested`: a function is on its way, whole or without
what was lost of it, and when the sketch gets its header whole, it is the header that was sent.
`Fetches` and `Acks`: the sketch's `prog_nbytes` is the length of the read that is left of the
call. `Fed` and `Feeds`: it is that of the write, and the chunk on the line has the size both
sides count with. `Responds` and `Refuses`: an answer of which the echo is the first byte,
or an `ERROR_RECV`, which no echo accepts. The two ends cut a length into chunks each in its
own way: that the rest of a read or a write is the one of what is left after its first chunk
(`ReadingSplit`, `WritingSplit`) is arithmetic of quotients proved without induction. For the
opening of a session, which no fault dooms, `InOpening` says that whatever the sketch takes the
init for, it answers one byte at most, or two (`MW_BUSY`) of which the first is no echo: hence `ScriptStarts` finds a
clean line under the first call. The theorem needs no assumption on `StrayCodes`: a byte taken
for a command it is not ends the good session, and the arguments of a call are no codes
(`NoCodes`), so in a good session the sketch never takes the wrong one for the function.

**Only model-checked.** `RecoversFromLostAnswers`, which holds only while the line fails less often
than Transact discards frames, so not for every value of the bounds; `DoomedCallsFail`,
which depends on the commands `StrayCodes` holds: with one that answers with a byte of the chip, or
with more faults than the run has, a byte can be taken for the echo that was lost (above). That the three programmers implement `ProgrammerPort`: it needs
the wire followed symbol by symbol through every command, and for `Asprog` the same choice of
`StrayCodes`. Liveness under fairness (`Terminates`, `CancelStops`, `CallsReturn`,
`CallsFinish`, `BackInLoop`) is out of the prover's reach. The five findings are counterexamples
and need no proof.

## Not modelled

* The operation lock, the modeless windows and the combination of their clicks with a
  running loop: what matters there is whether a list of controls is complete, which no
  model of a protocol shows.
* The loops for 45, 95, I2C, Microwire and KB9012 parts in `main.pas`. They have the shape
  of `Flash25`'s without its waits and checks; the calls they make are in the three
  programmers.
* `buzzpirathw.pas` (the Bus Pirate 3 back end), the I2C calls of `buspirate5hw.pas`, and
  `ch341hw`, `ch347hw`, `ft232hhw`, which are a library call or two each.
* USBasp: TPI (`tpi.S` is bit work in assembler), `clock.c`, chip timing; V-USB's bit level, CRC
  and interrupt endpoints, which are not configured.
* AVRISP-MKII: XPROG (PDI and TPI), which this program never asks for; the rescue clock;
  LUFA and the descriptors.
* Scripts and their interpreter, chip list, hex editor, vendored libraries and drivers,
  and the hardware probes under `tests`.
* The composition of `Flash25` with `ProgrammerPort`: `Flash25` has a back end of its own,
  whose frames fail one by one, which is weaker than the port.

## What is left

All modules planned for the core are written. The safety of `Flash25`, `BusPirate5`, `UsbAsp`,
`AvrIsp` and `Asprog` is proved as far as it holds for every value of the bounds, except for the refinements
of `ProgrammerPort`. Proof work that remains, in order of what it would say about the system:

1. `ProgrammerPort` for `AvrIsp` on serial memories: `Orderly` and `Aligned` give which command is worked off
   when; what is missing is the wire a command leaves, as `SdaAfter` is what it leaves of SDA.
2. The same for `UsbAsp`, from `Counted`, `InTurn` and `Moving`, stated of a good session instead of one
   without faults.
3. `DoomedCallsFail` and the port of `Asprog` under an assumption on `StrayCodes`, from `InSession`.
