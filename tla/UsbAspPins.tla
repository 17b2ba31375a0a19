----------------------------- MODULE UsbAspPins -----------------------------
(***************************************************************************)
(* The programming header of the USBasp (isp.c, i2c.c, microwire.c): one   *)
(* set of pins shared by the SPI unit of the microcontroller and three     *)
(* bit-banged buses; a memory, or an AVR to be programmed, hangs on it.    *)
(* Each operator takes the state of the pins and gives the state after the *)
(* C function of that name has returned.                                   *)
(*                                                                         *)
(* A pin state has:                                                        *)
(*   transmit  what ispTransmit points at: "unset", "hw" or "sw"           *)
(*   option    the SCK option it was set for, 0 before                     *)
(*   spcr      the option the SPI unit runs at, 0 while it is disabled;    *)
(*             while it runs, it owns SCK and MOSI                         *)
(*   outputs   RST, SCK and MOSI are outputs                               *)
(*   rst       the level of RST, which is also chip select: "low", "high"  *)
(*   sdaLow    MISO (SDA) driven low by the I2C code; SCL is high whenever *)
(*             one of its functions has returned                           *)
(*   hiaddr    isp_hiaddr: the extended address the AVR was last given     *)
(*   prog, ext the AVR: is it in programming mode, its extended address    *)
(*   cpu       "running", "hung" in a wait for ever, or "restart"          *)
(*   wire      what the chip has seen since the last connect               *)
(***************************************************************************)
EXTENDS Integers, SequencesExt

CONSTANTS
  SckAuto, Sck2, Sck8, Sck93, Sck187, Sck375,   \* SCK options: SckAuto = 0, the rest as ordered
  TargetMax,                                    \* the fastest option the AVR can follow
  SegBytes                                      \* bytes an extended address selects: 2^17

ASSUME SckOptions ==
  /\ SckAuto = 0
  /\ {Sck2, Sck8, Sck93, Sck187, Sck375} \subseteq Nat
  /\ TargetMax \in Nat
  /\ SegBytes \in Nat \ {0}
  /\ 1 < Sck2 /\ Sck2 < Sck8 /\ Sck8 < Sck93 /\ Sck93 < Sck187 /\ Sck187 < Sck375

PowerUp ==
  [transmit |-> "unset", option |-> 0, spcr |-> 0, outputs |-> FALSE,
   rst |-> "low", sdaLow |-> FALSE, hiaddr |-> 0, prog |-> FALSE, ext |-> 0, cpu |-> "running",
   wire |-> <<>>]

\* A symbol of the wire: a kind, and for a byte its call, number and bits.
Sym(kind)   == <<kind, 0, 0, 0>>
Byte(id, i) == <<"byte", id, i, 8>>

See(p, symbol) == [p EXCEPT !.wire = Append(@, symbol)]

(***************************************************************************)
(* isp.c                                                                   *)
(***************************************************************************)
spiHWenable(p)  == [p EXCEPT !.spcr = p.option]
spiHWdisable(p) == [p EXCEPT !.spcr = 0]

ispSetSCKOption(p, option) ==
  LET o == IF option = SckAuto THEN Sck375 ELSE option
  IN  [p EXCEPT !.option = o, !.transmit = IF o >= Sck93 THEN "hw" ELSE "sw"]

EnableIfHardware(p) == IF p.transmit = "hw" THEN spiHWenable(p) ELSE p

(***************************************************************************)
(* A transmitted byte shows on the wires when the code that makes it owns  *)
(* them.  The SPI unit, if disabled, never sets the flag ispTransmit_hw    *)
(* waits for; a call through the unset pointer starts the program anew.    *)
(***************************************************************************)
Clocks(p) == p.outputs /\ IF p.transmit = "hw" THEN p.spcr # 0 ELSE p.spcr = 0

Cpu(p) ==
  CASE p.transmit = "unset"            -> "restart"
    [] p.transmit = "hw" /\ p.spcr = 0 -> "hung"
    [] OTHER                           -> "running"

ispTransmit(p, byte) ==
  IF Cpu(p) # "running" THEN [p EXCEPT !.cpu = Cpu(p)]
  ELSE IF Clocks(p) /\ p.rst = "low" THEN See(p, byte) ELSE p

(***************************************************************************)
(* What a read gets: the place on the wire it was read at, which stands    *)
(* for what the chip says there, or 0, the level of a line nobody drives.  *)
(***************************************************************************)
Place(p, q) == IF Len(q.wire) > Len(p.wire) /\ ~p.sdaLow THEN Len(q.wire) ELSE 0

CS_LOW(p) == [p EXCEPT !.rst = "low"]

\* Raising chip select ends what the chip takes for one command.
CS_HI(p) ==
  LET q == [p EXCEPT !.rst = "high"]
  IN  IF p.rst = "low" /\ p.outputs THEN See(q, Sym("end")) ELSE q

\* The chip starts afresh when it finds itself deselected.
Fresh(p, deselected) == [p EXCEPT !.wire = IF deselected THEN <<>> ELSE <<Sym("stale")>>]

isp25Connect(p) ==
  LET q == CS_HI(EnableIfHardware([p EXCEPT !.outputs = TRUE])) IN Fresh(q, q.rst = "high")

ispDisconnect(p) ==
  spiHWdisable([p EXCEPT !.outputs = FALSE, !.rst = "low", !.prog = FALSE])

(***************************************************************************)
(* An AVR in reset follows no clock faster than its own allows.  It echoes *)
(* a byte of the enable instruction if it heard it; a pulse on RST gives   *)
(* it another chance, and back an extended address of zero.                *)
(***************************************************************************)
Speed(p) == IF p.transmit = "hw" THEN p.spcr ELSE p.option
Hears(p) == Clocks(p) /\ p.rst = "low" /\ Speed(p) <= TargetMax

ispConnectKept(p) ==
  EnableIfHardware([p EXCEPT !.outputs = TRUE, !.rst = "low", !.prog = FALSE,
                             !.ext = 0, !.wire = <<>>])
ispConnect(p) ==
  EnableIfHardware([p EXCEPT !.outputs = TRUE, !.rst = "low", !.hiaddr = 0, !.prog = FALSE,
                             !.ext = 0, !.wire = <<>>])

\* After a pulse the pins are clocked as the option says.
Pulse(p) ==
  EnableIfHardware(spiHWdisable([p EXCEPT !.rst = "low", !.prog = FALSE, !.ext = 0]))

ispEnterProgrammingMode(p) ==
  IF Cpu(p) # "running" THEN [p EXCEPT !.cpu = Cpu(p), !.prog = FALSE]
  ELSE IF Hears(p) THEN [p EXCEPT !.prog = TRUE]
  ELSE [Pulse(p) EXCEPT !.prog = p.outputs /\ p.option <= TargetMax]

(***************************************************************************)
(* An instruction is four bytes.  Flash is addressed with sixteen bits for *)
(* the word, and an extended address sent before when it changed.  The     *)
(* reads that wait for a write to finish leave no trace: the part is taken *)
(* to be ready within the ten milliseconds they last.                      *)
(***************************************************************************)
Instruct(p, symbol) ==
  IF Cpu(p) # "running" THEN [p EXCEPT !.cpu = Cpu(p)]
  ELSE IF p.prog /\ Hears(p) THEN See(p, symbol) ELSE p

ispUpdateExtended(p, address) ==
  LET hi == address \div SegBytes
  IN  IF p.hiaddr = hi THEN p
      ELSE [p EXCEPT !.hiaddr = hi, !.ext = IF p.prog /\ Hears(p) THEN hi ELSE @]

\* The place in flash the AVR takes an address for.
Located(p, address) == p.ext * SegBytes + (address % SegBytes)

ispReadFlash(p, address) ==
  LET q == ispUpdateExtended(p, address) IN Instruct(q, <<"flash", 0, 0, Located(q, address)>>)

ispWriteFlash(p, address, byte, paged) ==
  LET q == ispUpdateExtended(p, address)
  IN  Instruct(q, <<IF paged THEN "load" ELSE "program", byte[2], byte[3], Located(q, address)>>)

\* With nothing in the page buffer the instruction changes nothing.
ispFlushPage(p, address) ==
  LET q == ispUpdateExtended(p, address)
  IN  IF q.wire # <<>> /\ Last(q.wire)[1] = "load"
      THEN Instruct(q, <<"flush", 0, 0, Located(q, address)>>) ELSE q

ispReadEEPROM(p, address)        == Instruct(p, <<"eeprom", 0, 0, address>>)
ispWriteEEPROM(p, address, byte) == Instruct(p, <<"store", byte[2], byte[3], address>>)

(***************************************************************************)
(* i2c.c.  The bus is SDA on MISO and SCL on MOSI, open drain: driving low *)
(* is making the pin an output.  A running SPI unit holds SCL.             *)
(***************************************************************************)
BusIsOurs(p) == p.spcr = 0

I2CSee(p, symbol) == IF BusIsOurs(p) THEN See(p, symbol) ELSE p

i2c_init(p) ==
  LET q == [p EXCEPT !.sdaLow = FALSE, !.outputs = FALSE] IN Fresh(q, ~q.sdaLow)

i2c_start(p) == [I2CSee(p, Sym("S")) EXCEPT !.sdaLow = TRUE]
i2c_stop(p)  == [I2CSee(p, Sym("P")) EXCEPT !.sdaLow = FALSE]

\* SDA is released for the acknowledge, and stays so.
i2c_send_byte(p, byte) == [I2CSee(p, byte) EXCEPT !.sdaLow = FALSE]

i2c_address(p, rw) == i2c_send_byte(p, Sym(rw))

\* SDA is released while the chip sends, then carries our acknowledge.
i2c_read_byte(p, ack) == [I2CSee(p, Sym(ack)) EXCEPT !.sdaLow = (ack = "ack")]

I2CPlace(p, q) == IF Len(q.wire) > Len(p.wire) THEN Len(q.wire) ELSE 0

(***************************************************************************)
(* microwire.c: chip select is active high, the clock is always software.  *)
(***************************************************************************)
MWSee(p, symbol) == IF p.spcr = 0 /\ p.outputs /\ p.rst = "high" THEN See(p, symbol) ELSE p

mwSendData(p, byte, bits) == MWSee(p, [byte EXCEPT ![4] = bits])
mwReadByte(p) == MWSee(p, Sym("read"))
mwEnd(p) ==
  LET q == [p EXCEPT !.rst = "low"]
  IN  IF p.rst = "high" /\ p.outputs THEN See(q, Sym("end")) ELSE q
mwBusy(p) == [MWSee([p EXCEPT !.rst = "high"], Sym("busy")) EXCEPT !.rst = "low"]
=============================================================================
