---------------------------- MODULE AvrIspTarget ----------------------------
(***************************************************************************)
(* The programming header of the AVRISP-MKII clone: SCK, MOSI and MISO of  *)
(* port B and the reset line (AUX_LINE), which is also the chip select of  *)
(* a serial memory (ISPTarget.c, spi25.c, I2c.c, microwire.c), and what    *)
(* hangs on it: a memory, or an AVR to be programmed.  Each operator takes *)
(* the state of the pins and gives the state after the C function of that  *)
(* name has returned.                                                      *)
(*                                                                         *)
(* A pin state has:                                                        *)
(*   hw        HardwareSPIMode                                             *)
(*   spi       the SPI unit is enabled, and owns SCK and MOSI              *)
(*   speed     the SCK duration the bus was enabled for                    *)
(*   out       SCK and MOSI are outputs                                    *)
(*   cs        the reset line: "float", "low" or "high"                    *)
(*   sdaLow    MISO (SDA) driven low by the I2C code; SCL (MOSI) is        *)
(*             released whenever one of its functions has returned         *)
(*   hung      the program waits for ever for the SPI unit                 *)
(*   prog, ext the AVR: is it in programming mode, its extended address    *)
(*   wire      what the chip has seen in this session                      *)
(***************************************************************************)
EXTENDS Integers, SequencesExt

CONSTANTS
  HardwareSpeeds,   \* SCK durations the SPI unit can do: 0..6, so 7
  TargetMin,        \* the shortest SCK duration the AVR can follow
  SegWords          \* words an extended address selects: 2^16

ASSUME TargetAssumption ==
  /\ {HardwareSpeeds, TargetMin} \subseteq Nat
  /\ SegWords \in Nat \ {0}

PowerUp ==
  [hw |-> TRUE, spi |-> FALSE, speed |-> 0, out |-> FALSE, cs |-> "float", sdaLow |-> FALSE,
   hung |-> FALSE, prog |-> FALSE, ext |-> 0, wire |-> <<>>]

\* A symbol of the wire: a kind, and for a byte its call, number and bits.
Sym(kind)   == <<kind, 0, 0, 0>>
Byte(id, i) == <<"byte", id, i, 8>>

See(p, symbol) == [p EXCEPT !.wire = Append(@, symbol)]

\* A session starts with what the chip sees once it is deselected.
Fresh(p, deselected) == [p EXCEPT !.wire = IF deselected THEN <<>> ELSE <<Sym("stale")>>]

(***************************************************************************)
(* What a read gets: the place on the wire it was read at, which stands    *)
(* for what the chip says there, or 0, the level of a line nobody drives.  *)
(***************************************************************************)
Place(p, q) == IF Len(q.wire) > Len(p.wire) THEN Len(q.wire) ELSE 0
MisoPlace(p, q) == IF p.sdaLow THEN 0 ELSE Place(p, q)

(***************************************************************************)
(* SPI_Init makes MISO an input again; SPI_Disable leaves it as it is.     *)
(***************************************************************************)
SPI_Init(p)    == [p EXCEPT !.spi = TRUE, !.out = TRUE, !.sdaLow = FALSE]
SPI_Disable(p) == [p EXCEPT !.spi = FALSE, !.out = FALSE]

EnableTargetISP(p, duration) ==
  LET q == [p EXCEPT !.hw = duration < HardwareSpeeds, !.speed = duration]
  IN  IF q.hw THEN SPI_Init(q) ELSE [q EXCEPT !.out = TRUE]

DisableKept(p) == IF p.hw THEN p ELSE [p EXCEPT !.out = FALSE]
DisableTargetISP(p) == IF p.hw THEN SPI_Disable(p) ELSE [p EXCEPT !.out = FALSE]

SPI_Set_CS(p, level) ==
  LET q == [p EXCEPT !.cs = level]
  IN  IF p.cs = "low" /\ level = "high" THEN See(q, Sym("end")) ELSE q

\* The AVR is held in reset by a low line, and starts afresh when it is not.
Reset(p, level) ==
  [p EXCEPT !.cs = level, !.prog = @ /\ level = "low", !.ext = IF level = "low" THEN @ ELSE 0]

\* When not asserted, the line is tristated.
ChangeTargetResetLine(p, reset, polarity) ==
  Reset(p, IF ~reset THEN "float" ELSE IF polarity = 0 THEN "high" ELSE "low")

(***************************************************************************)
(* The 25xx commands use the routine of the SPI unit whatever the mode; a  *)
(* unit that is disabled never sets the flag it waits for.                 *)
(***************************************************************************)
SPI_TransferByte(p, symbol) ==
  IF ~p.spi THEN [p EXCEPT !.hung = TRUE]
  ELSE IF p.out /\ p.cs = "low" THEN See(p, symbol) ELSE p

(***************************************************************************)
(* An instruction to the AVR is four bytes, by the unit or by software.    *)
(* The AVR follows no clock faster than its own allows.  In software a     *)
(* byte ends early when the second of the command is over: commands are    *)
(* taken to be shorter than that.                                          *)
(***************************************************************************)
Hears(p) == p.out /\ p.spi = p.hw /\ p.cs = "low" /\ p.speed >= TargetMin

Instruct(p, symbol) ==
  IF p.hw /\ ~p.spi THEN [p EXCEPT !.hung = TRUE]
  ELSE IF p.prog /\ Hears(p) THEN See(p, symbol) ELSE p

LoadExtendedAddress(p, address) ==
  LET q == Instruct(p, Sym("extended"))
  IN  IF q.wire = p.wire THEN q ELSE [q EXCEPT !.ext = address \div SegWords, !.wire = p.wire]

\* The word of flash the AVR takes an address for.
Located(p, address) == p.ext * SegWords + (address % SegWords)

(***************************************************************************)
(* I2c.c: open drain, driving low is making the pin an output.  An enabled *)
(* SPI unit holds SCL.  Releasing SDA while SCL is high is a stop.         *)
(***************************************************************************)
I2CSee(p, symbol) == IF p.spi THEN p ELSE See(p, symbol)

i2c_init(p) ==
  LET q == [p EXCEPT !.sdaLow = FALSE, !.out = FALSE]
  IN  IF p.sdaLow THEN I2CSee(q, Sym("P")) ELSE q

i2c_start(p) == [I2CSee(p, Sym("S")) EXCEPT !.sdaLow = TRUE]
i2c_stop(p)  == [I2CSee(p, Sym("P")) EXCEPT !.sdaLow = FALSE]

\* SDA is released for the acknowledge, and stays so.
i2c_send_byte(p, byte) == [I2CSee(p, byte) EXCEPT !.sdaLow = FALSE]
i2c_address(p, rw)     == i2c_send_byte(p, Sym(rw))

\* SDA is released while the chip sends, then carries our acknowledge.
i2c_read_byte(p, ack) == [I2CSee(p, Sym(ack)) EXCEPT !.sdaLow = (ack = "ack")]

(***************************************************************************)
(* microwire.c: chip select is active high, the clock is always software.  *)
(***************************************************************************)
MWSee(p, symbol) == IF ~p.spi /\ p.out /\ p.cs = "high" THEN See(p, symbol) ELSE p

mwSendData(p, byte, bits) == MWSee(p, [byte EXCEPT ![4] = bits])
mwReadByte(p) == MWSee(p, Sym("read"))
mwEnd(p) ==
  LET q == [p EXCEPT !.cs = "low"]
  IN  IF p.cs = "high" THEN See(q, Sym("end")) ELSE q
mwBusy(p) == [MWSee([p EXCEPT !.cs = "high"], Sym("busy")) EXCEPT !.cs = "low"]

mwInit(p) == [SPI_Disable(p) EXCEPT !.out = TRUE]
=============================================================================
