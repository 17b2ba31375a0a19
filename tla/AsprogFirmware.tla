--------------------------- MODULE AsprogFirmware ---------------------------
(***************************************************************************)
(* The sketch of the Arduino programmer: ParseCommand and its handlers.    *)
(* A handler alternates between work and Serial.readBytes, which waits     *)
(* until it has the bytes it was asked for or none has come for a second.  *)
(* A firmware state holds the wait it is in, so each operator takes the    *)
(* state and the bytes readBytes brought and gives the state at the next   *)
(* wait, together with the bytes written to the serial line in between.    *)
(*                                                                         *)
(* A state has:                                                            *)
(*   at       "loop", or where in the handler of cmd: its "head", the      *)
(*            "data" of a write, the host's "ack" of a chunk read          *)
(*   cs       spi_cs_hi, mw_cs_lo or stop_aw                               *)
(*   left     prog_nbytes                                                  *)
(*   bits     mw_bitnum                                                    *)
(*   pins     SPI unit on; SCK and MOSI outputs; the reset line, which is  *)
(*            chip select ("float", "low", "high"); MISO (SDA) driven low; *)
(*            waiting for ever for the SPI unit; and, a history, what the  *)
(*            chip has seen in this session                                *)
(***************************************************************************)
EXTENDS Integers, SequencesExt

CONSTANTS
  rchunk,   \* bytes sent up between acknowledges: 64
  wchunk    \* bytes taken between acknowledges: 256

ASSUME ChunkAssumption == {rchunk, wchunk} \subseteq Nat \ {0} /\ rchunk <= wchunk

(***************************************************************************)
(* Bytes on the serial line: a function code or a status under its name, a *)
(* number, a byte to be written, or one the chip gave at a place of its    *)
(* wire (0 is the level of a line nobody drives).  Symbols on the wires of *)
(* the chip have a kind, and a byte its call, number and bits.             *)
(***************************************************************************)
Code(name)  == <<name, 0, 0>>
Num(n)      == <<"num", n, 0>>
Data(id, i) == <<"data", id, i>>
Chip(place) == <<"chip", place, 0>>

Sym(kind)   == <<kind, 0, 0, 0>>
Byte(id, i) == <<"byte", id, i, 8>>

\* Bytes that are no code; in the loop they are still taken for one.
NoCode(b) == b[1] \in {"num", "data", "chip"}

\* What a byte stands for where it is not expected: some nonzero number.
NumOf(b) == IF b[1] = "num" THEN b[2] ELSE 1

\* A byte to be written; what readBytes did not fill is of earlier commands.
Stale     == Byte(0, 0)
OnWire(b) == IF b[1] = "data" THEN Byte(b[2], b[3]) ELSE Stale

HeadLen ==
  [SPI_INIT |-> 1, SPI_READ |-> 3, SPI_WRITE |-> 3,
   I2C_WRITEBYTE |-> 1, I2C_READBYTE |-> 1, I2C_READ |-> 3, I2C_WRITE |-> 4,
   MW_READ |-> 3, MW_WRITE |-> 4]

PinsAtReset == [spi |-> FALSE, out |-> FALSE, cs |-> "float", sdaLow |-> FALSE, hung |-> FALSE, wire |-> <<>>]
PowerUp == [at |-> "loop", cmd |-> "NONE", cs |-> 0, left |-> 0, bits |-> 0, pins |-> PinsAtReset]

-----------------------------------------------------------------------------
(***************************************************************************)
(* The pins.  Writing a level to a line that is not an output drives       *)
(* nothing.                                                                *)
(***************************************************************************)
See(p, symbol) == [p EXCEPT !.wire = Append(@, symbol)]
Fresh(p, deselected) == [p EXCEPT !.wire = IF deselected THEN <<>> ELSE <<Sym("stale")>>]

Select(p, level) == IF p.cs = "float" THEN p ELSE [p EXCEPT !.cs = level]
Deselect(p, level) ==
  IF p.cs \in {"float", level} THEN p ELSE See([p EXCEPT !.cs = level], Sym("end"))

\* The SPI library raises chip select unless it is an output already.
SPIBegin(p) ==
  [p EXCEPT !.spi = TRUE, !.out = TRUE, !.sdaLow = FALSE, !.cs = IF @ = "float" THEN "high" ELSE @]
SPIEnd(p) == [p EXCEPT !.spi = FALSE, !.cs = "float"]

\* Waits for a flag which a unit that is off never sets.
SPITransfer(p, symbol) ==
  IF ~p.spi THEN [p EXCEPT !.hung = TRUE]
  ELSE IF p.cs = "low" THEN See(p, symbol) ELSE p

\* Open drain; releasing SDA while SCL is high is a stop.
I2CSee(p, symbol) == IF p.spi THEN p ELSE See(p, symbol)
i2c_init(p) ==
  LET q == [p EXCEPT !.sdaLow = FALSE, !.out = FALSE]
  IN  IF p.sdaLow THEN I2CSee(q, Sym("P")) ELSE q
i2c_start(p) == [I2CSee(p, Sym("S")) EXCEPT !.sdaLow = TRUE]
i2c_stop(p)  == [I2CSee(p, Sym("P")) EXCEPT !.sdaLow = FALSE]
i2c_send_byte(p, byte) == [I2CSee(p, byte) EXCEPT !.sdaLow = FALSE]
i2c_read_byte(p, ack)  == [I2CSee(p, Sym(ack)) EXCEPT !.sdaLow = (ack = "ack")]
i2c_address(p, rw)     == i2c_send_byte(p, Sym(rw))

\* Chip select is active high.
MWSee(p, symbol) == IF ~p.spi /\ p.out /\ p.cs = "high" THEN See(p, symbol) ELSE p
mwSendData(p, byte, n) == MWSee(p, [byte EXCEPT ![4] = n])
mwReadByte(p) == MWSee(p, Sym("read"))
mwEnd(p)      == Deselect(p, "low")
mwBusy(p)     == Select(MWSee(Select(p, "high"), Sym("busy")), "low")
mwInitPins(p)   == [p EXCEPT !.out = TRUE, !.cs = "low"]
mwDeinitPins(p) == [mwEnd(p) EXCEPT !.out = FALSE, !.cs = "float"]

\* The first symbol from one state of the pins to another, if there is one.
Place(p, q) == IF Len(q.wire) > Len(p.wire) THEN Len(p.wire) + 1 ELSE 0

-----------------------------------------------------------------------------
AtMost(k, n) == IF n < k THEN n ELSE k

Goes(f, out)   == [fw |-> f, out |-> out]
On(f, p)        == [f EXCEPT !.pins = p]
Looping(p)   == [PowerUp EXCEPT !.pins = p]
Reply(p, out) == Goes(Looping(p), out)

\* Step(_, i) is the effect of the i-th byte; the states after 0..n bytes.
After(p, n, Step(_, _)) ==
  LET after[i \in 0..n] == IF i = 0 THEN p ELSE Step(after[i - 1], i) IN after

\* The way out of a handler when all bytes are done.
FinishedKept(f) == Looping(f.pins)
Finished(f) ==
  Looping(CASE f.cmd \in {"SPI_READ", "SPI_WRITE"} /\ f.cs # 0 -> Deselect(f.pins, "high")
               [] f.cmd \in {"MW_READ", "MW_WRITE"} /\ f.cs # 0   -> mwEnd(f.pins)
               [] f.cmd = "I2C_WRITE" -> IF f.cs = 1 THEN i2c_stop(f.pins) ELSE i2c_start(f.pins)
               [] OTHER -> f.pins)

\* The way out when the host did not acknowledge, or sent nothing.
BrokenOff(f) ==
  Looping(CASE f.cmd \in {"SPI_READ", "SPI_WRITE"} -> Deselect(f.pins, "high")
               [] f.cmd \in {"I2C_READ", "I2C_WRITE"} -> i2c_stop(f.pins)
               [] OTHER                               -> mwDeinitPins(f.pins))

(***************************************************************************)
(* Reading: a chunk from the chip, then the host has to acknowledge it.    *)
(***************************************************************************)
ReadByte(cmd, p, last) ==
  CASE cmd = "SPI_READ" -> SPITransfer(p, Sym("read"))
    [] cmd = "MW_READ"  -> mwReadByte(p)
    [] OTHER            -> IF last THEN i2c_stop(i2c_read_byte(p, "nack")) ELSE i2c_read_byte(p, "ack")

ReadChunk(f) ==
  LET n == AtMost(rchunk, f.left)
      Step(p, i) == ReadByte(f.cmd, p, i = f.left)
      after == After(f.pins, n, Step)
      bytes == [i \in 1..n |-> Chip(Place(after[i - 1], after[i]))]
  IN  IF n = 0 THEN Goes(Finished(f), <<>>)
      ELSE Goes([On(f, after[n]) EXCEPT !.left = @ - n, !.at = "ack"],
                 IF after[n].hung THEN <<>> ELSE bytes)

Acknowledged(f, bytes) ==
  IF bytes = <<Code("ACK")>> THEN ReadChunk(f) ELSE Goes(BrokenOff(f), <<>>)

(***************************************************************************)
(* Writing.  A chunk is clocked out whole however little of it came, and   *)
(* only the bytes that came are counted.  An I2C chunk of full size is     *)
(* sent with the size of a chunk to read.  mw_bitnum counts the whole of   *)
(* the bytes down the first time.                                          *)
(***************************************************************************)
ChunkToCome(f) == IF f.cmd = "MW_WRITE" THEN f.left ELSE AtMost(wchunk, f.left)

WriteByte(f, p, i, byte) ==
  LET bits == f.bits - 8 * (i - 1)
  IN  CASE f.cmd = "SPI_WRITE" -> SPITransfer(p, byte)
        [] f.cmd = "I2C_WRITE" -> IF f.left >= wchunk /\ i > rchunk THEN p ELSE i2c_send_byte(p, byte)
        [] OTHER               -> mwSendData(p, byte, AtMost(8, bits))

\* Bytes without bits that count are not sent.
Clocked(f, n) == IF f.cmd = "MW_WRITE" THEN AtMost((f.bits + 7) \div 8, n) ELSE n

BitsLeftPlain(bits, n) == bits - 8 * n
BitsLeft(bits, n)      == IF bits > 8 * n THEN bits - 8 * n ELSE 0

AnsweredAlways(g, bytes) == Goes(IF g.left = 0 THEN Finished(g) ELSE g, <<Code("ACK")>>)
Answered(g, bytes) ==
  IF bytes = <<>> THEN Goes(BrokenOff(g), <<>>)
  ELSE Goes(IF g.left = 0 THEN Finished(g) ELSE g, <<Code("ACK")>>)

Written(f, bytes) ==
  LET n == ChunkToCome(f)
      Step(p, i) == WriteByte(f, p, i, IF i <= Len(bytes) THEN OnWire(bytes[i]) ELSE Stale)
      m == Clocked(f, n)
      g == [On(f, After(f.pins, m, Step)[m]) EXCEPT
              !.left = @ - Len(bytes), !.bits = BitsLeft(@, n), !.at = "data"]
  IN  IF g.pins.hung THEN Goes(g, <<>>) ELSE Answered(g, bytes)

(***************************************************************************)
(* The rest of a command's header.  The echo of the function code accepts  *)
(* it, and comes before the work.  A length is an int of 16 bits; Asprog's *)
(* Word keeps it below 2^15, where it would turn negative.                 *)
(***************************************************************************)
Length(hi, lo) == 256 * NumOf(hi) + NumOf(lo)

Transfer(f, p, cs, hi, lo, bits) ==
  LET g == [On(f, p) EXCEPT !.cs = cs, !.left = Length(hi, lo), !.bits = bits, !.at = "data"]
      r == IF f.cmd \in {"SPI_READ", "I2C_READ", "MW_READ"} THEN ReadChunk(g)
           ELSE Goes(IF g.left = 0 THEN Finished(g) ELSE g, <<>>)
  IN  [r EXCEPT !.out = <<Code(f.cmd)>> \o @]

OneByte(f, q) == Reply(q, <<Code(f.cmd), Chip(Place(f.pins, q))>>)

Headed(f, b) ==
  LET p == f.pins
  IN  IF Len(b) < HeadLen[f.cmd] THEN Reply(p, <<Code("ERROR_RECV")>>)
      ELSE CASE f.cmd = "SPI_INIT" ->
             LET q == SPIBegin(p) IN Reply(Fresh(q, q.cs = "high"), <<Code("SPI_INIT")>>)
        [] f.cmd \in {"SPI_READ", "SPI_WRITE"} -> Transfer(f, Select(p, "low"), NumOf(b[1]), b[2], b[3], 0)
        [] f.cmd = "I2C_WRITEBYTE" -> OneByte(f, i2c_send_byte(p, OnWire(b[1])))
        [] f.cmd = "I2C_READBYTE"  -> OneByte(f, i2c_read_byte(p, IF NumOf(b[1]) = 0 THEN "ack" ELSE "nack"))
        [] f.cmd = "I2C_READ"  -> Transfer(f, i2c_address(p, "R"), 0, b[2], b[3], 0)
        [] f.cmd = "I2C_WRITE" -> Transfer(f, i2c_address(i2c_start(p), "W"), NumOf(b[2]), b[3], b[4], 0)
        [] f.cmd = "MW_READ"   -> Transfer(f, p, NumOf(b[1]), b[2], b[3], 0)
        [] f.cmd = "MW_WRITE"  -> Transfer(f, Select(p, "high"), NumOf(b[1]), b[3], b[4], NumOf(b[2]))

ParseCommand(f, cmd) ==
  LET p == f.pins
      Echoed(q) == Reply(q, <<Code(cmd)>>)
  IN  CASE cmd \in DOMAIN HeadLen -> Goes([f EXCEPT !.at = "head", !.cmd = cmd], <<>>)
        [] cmd = "SPI_DEINIT" -> Echoed(SPIEnd(p))
        [] cmd = "I2C_INIT"   -> Echoed(Fresh(i2c_init(p), TRUE))
        [] cmd = "I2C_START"  -> Reply(i2c_start(p), <<>>)
        [] cmd = "I2C_STOP"   -> Reply(i2c_stop(p), <<>>)
        [] cmd = "MW_BUSY"    -> OneByte([f EXCEPT !.cmd = cmd], mwBusy(p))
        [] cmd = "MW_INIT"    -> Echoed(Fresh(mwInitPins(p), TRUE))
        [] cmd = "MW_DEINIT"  -> Echoed(mwDeinitPins(p))
        [] OTHER              -> Reply(p, <<Code("ERROR_NO_CMD")>>)

(***************************************************************************)
(* The wait the sketch is in, and what follows it.  The loop takes a byte  *)
(* that is no code for stray.                                              *)
(***************************************************************************)
Wanted(f) ==
  CASE f.at = "head" -> HeadLen[f.cmd]
    [] f.at = "data" -> ChunkToCome(f)
    [] OTHER         -> 1

Received(f, bytes, stray) ==
  CASE f.at = "loop" ->
         ParseCommand(f, IF NoCode(bytes[1]) THEN stray ELSE bytes[1][1])
    [] f.at = "head" -> Headed(f, bytes)
    [] f.at = "data" -> Written(f, bytes)
    [] f.at = "ack"  -> Acknowledged(f, bytes)
=============================================================================
