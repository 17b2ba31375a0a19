--------------------------- MODULE AvrIspFirmware ---------------------------
(***************************************************************************)
(* The commands V2Protocol.c of the AVRISP-MKII dispatches: for serial     *)
(* memories (spi25.c, I2c.c, microwire.c), to program an AVR (ISPProtocol) *)
(* and for the parameters.  A firmware state has                           *)
(*   pins, addr (CurrentAddress), mustLoad (MustLoadExtendedAddress), and  *)
(*   params: the parameters the host may set, two of which are kept in     *)
(*   EEPROM.                                                               *)
(* A command has: cmd; len, the bytes of data that follow its header; and  *)
(* the fields its header holds.  A reply is a sequence of packets.         *)
(***************************************************************************)
EXTENDS AvrIspTarget

CONSTANTS
  PacketSize,   \* bytes in the endpoint bank: 64; a header counts as one
  BlockMax      \* bytes of the largest block to program: 256

\* In a reply a byte of the chip is its place; a status is negative.
STATUS_CMD_OK       == -1
STATUS_CMD_FAILED   == -2
STATUS_CMD_UNKNOWN  == -3
STATUS_RDY_BSY_TOUT == -4

Persistent == {"SCK_DURATION", "RESET_POLARITY"}
Defaults   == [SCK_DURATION |-> 6, RESET_POLARITY |-> 1, DISCHARGEDELAY |-> 0]

Start(params) ==
  [pins |-> PowerUp, addr |-> 0, mustLoad |-> FALSE,
   params |-> [q \in DOMAIN Defaults |-> IF q \in Persistent THEN params[q] ELSE Defaults[q]]]

(***************************************************************************)
(* A reply in packets; the ISP reads end theirs with a short packet, the   *)
(* commands for memories end when the host has the bytes it asked for.     *)
(***************************************************************************)
ChunksWhole(bytes, short) == <<bytes>>

Upto(k, n) == IF k * PacketSize < n THEN k * PacketSize ELSE n
InPackets(bytes) ==
  LET n == Len(bytes)
  IN  [k \in 1..((n + PacketSize - 1) \div PacketSize) |->
         SubSeq(bytes, (k - 1) * PacketSize + 1, Upto(k, n))]

ChunksOpen(bytes, short) == InPackets(bytes)
Chunks(bytes, short) ==
  InPackets(bytes) \o IF short /\ Len(bytes) % PacketSize = 0 THEN <<<<>>>> ELSE <<>>

Silent(f)        == [fw |-> f, reply |-> <<>>]
Answer(f, bytes) == [fw |-> f, reply |-> <<bytes>>]
On(f, p)         == [f EXCEPT !.pins = p]

\* Step(_, i) is the effect of the i-th byte; the states after 0..n bytes.
After(x, n, Step(_, _)) ==
  LET after[i \in 0..n] == IF i = 0 THEN x ELSE Step(after[i - 1], i) IN after

(***************************************************************************)
(* Serial memories.                                                        *)
(***************************************************************************)
SPI_Enter25Mode(f) ==
  LET p == SPI_Set_CS(EnableTargetISP(f.pins, f.params.SCK_DURATION), "high")
  IN  Answer(On(f, Fresh(p, p.cs = "high")), <<STATUS_CMD_OK>>)

SPI_Leave25Mode(f) ==
  Answer(On(f, Reset(DisableTargetISP(f.pins), "float")), <<STATUS_CMD_OK>>)

RaiseCS(cs, p) == IF cs = 1 THEN SPI_Set_CS(p, "high") ELSE p

SPI_25Read(f, c) ==
  LET Clock(p, i) == SPI_TransferByte(p, Sym("read"))
      after == After(SPI_Set_CS(f.pins, "low"), c.n, Clock)
      hung  == after[c.n].hung
  IN  [fw    |-> On(f, IF hung THEN after[c.n] ELSE RaiseCS(c.cs, after[c.n])),
       reply |-> IF hung THEN <<>>
                 ELSE Chunks([i \in 1..c.n |-> MisoPlace(after[i - 1], after[i])], FALSE)]

SPI_25Write(f, c, data) ==
  LET Clock(p, i) == SPI_TransferByte(p, data[i])
      p == After(SPI_Set_CS(f.pins, "low"), c.len, Clock)[c.len]
  IN  Silent(On(f, IF p.hung THEN p ELSE RaiseCS(c.cs, p)))

i2c_read(f, c) ==
  LET Clock(p, i) == IF i = c.n THEN i2c_stop(i2c_read_byte(p, "nack")) ELSE i2c_read_byte(p, "ack")
      after == After(i2c_address(i2c_init(f.pins), "R"), c.n, Clock)
      \* the last byte comes before the stop
      PlaceOf(i) == IF after[i].wire = after[i - 1].wire THEN 0 ELSE Len(after[i - 1].wire) + 1
  IN  [fw |-> On(f, after[c.n]), reply |-> Chunks([i \in 1..c.n |-> PlaceOf(i)], FALSE)]

i2c_write(f, c, data) ==
  LET Clock(p, i) == i2c_send_byte(p, data[i])
      p == After(i2c_address(i2c_start(i2c_init(f.pins)), "W"), c.len, Clock)[c.len]
  IN  Silent(On(f, IF c.stop = 1 THEN i2c_stop(p) ELSE i2c_start(p)))

mw_read(f, c) ==
  LET Clock(p, i) == mwReadByte(p)
      after == After(f.pins, c.n, Clock)
      bytes == IF c.n = 0 THEN <<0>> ELSE [i \in 1..c.n |-> MisoPlace(after[i - 1], after[i])]
  IN  [fw    |-> On(f, IF c.cs = 1 THEN mwEnd(after[c.n]) ELSE after[c.n]),
       reply |-> Chunks(bytes, FALSE)]

mw_write(f, c, data) ==
  LET Left(i) == c.bits - 8 * (i - 1)
      Clock(p, i) == IF Left(i) <= 0 THEN p
                     ELSE mwSendData(p, data[i], IF Left(i) < 8 THEN Left(i) ELSE 8)
      p == After([f.pins EXCEPT !.cs = "high"], c.len, Clock)[c.len]
  IN  Silent(On(f, IF c.cs = 1 THEN mwEnd(p) ELSE p))

\* A byte of the chip: the reply is what it says at the symbol just sent.
OneByte(f, q, place) == Answer(On(f, q), <<place>>)

(***************************************************************************)
(* The AVR.  Enter pulses the reset line and tries again until the AVR     *)
(* echoes; Leave releases the line first and the pins after it.            *)
(***************************************************************************)
EnterISPMode(f) ==
  LET p == ChangeTargetResetLine(EnableTargetISP(f.pins, f.params.SCK_DURATION), TRUE,
                                 f.params.RESET_POLARITY)
      q == [p EXCEPT !.prog = Hears(p), !.ext = 0, !.wire = <<>>]
  IN  Answer([On(f, q) EXCEPT !.addr = 0], <<IF q.prog THEN STATUS_CMD_OK ELSE STATUS_CMD_FAILED>>)

LeaveISPMode(f) ==
  Answer(On(f, DisableTargetISP(ChangeTargetResetLine(f.pins, FALSE, 1))), <<STATUS_CMD_OK>>)

LoadIfDue(f) ==
  IF f.mustLoad THEN [On(f, LoadExtendedAddress(f.pins, f.addr)) EXCEPT !.mustLoad = FALSE] ELSE f

Flash(c) == c.cmd \in {"PROGRAM_FLASH", "READ_FLASH"}

\* Which byte of the word the i-th byte is.
HalfOf(c, i)   == IF Flash(c) THEN 1 - (i % 2) ELSE 0
Target(f, c, i) == IF Flash(c) THEN 2 * Located(f.pins, f.addr) + HalfOf(c, i) ELSE f.addr

\* A word of flash, or a byte of EEPROM, is done.
AdvanceKept(f, c, i) ==
  IF Flash(c) /\ i % 2 = 1 THEN f ELSE [f EXCEPT !.addr = @ + 1]
Advance(f, c, i) ==
  IF Flash(c) /\ i % 2 = 1 THEN f
  ELSE [f EXCEPT !.addr = @ + 1,
                 !.mustLoad = @ \/ (Flash(c) /\ (f.addr + 1) % SegWords = 0)]

Reads(f, c, i) ==
  LET g == LoadIfDue(f) IN Advance(On(g, Instruct(g.pins, <<c.cmd, 0, 0, Target(g, c, i)>>)), c, i)

\* All of the firmware's state a command on a memory may change.
Moved(f, g) == [f EXCEPT !.pins = g.pins, !.addr = g.addr, !.mustLoad = g.mustLoad]

ReadMemory(f, c) ==
  LET Step(g, i) == Reads(g, c, i)
      after == After(f, c.n, Step)
      done  == Moved(f, after[c.n])
  IN  IF done.pins.hung THEN Silent(done)
      ELSE [fw |-> done,
            reply |-> Chunks(<<STATUS_CMD_OK>>
                             \o [i \in 1..c.n |-> Place(after[i - 1].pins, after[i].pins)]
                             \o <<STATUS_CMD_OK>>, TRUE)]

(***************************************************************************)
(* Programming, byte by byte ("word" mode, which waits for each) or in a   *)
(* page that is committed at the end.  stuck is the byte, or the page, at  *)
(* which the AVR stays busy until the command has timed out, 0 for none;   *)
(* a wait of fixed length does not notice.  How the wait is done leaves no *)
(* trace on the AVR.  STATUS_CMD_TOUT, which polling for the value reports *)
(* in place of STATUS_RDY_BSY_TOUT, is counted as the latter: a host takes *)
(* both for a failure.                                                     *)
(***************************************************************************)
Writes(f, c, i, byte) ==
  LET g == LoadIfDue(f)
      kind == IF c.paged THEN "load" ELSE c.cmd
  IN  On(g, Instruct(g.pins, <<kind, byte[2], byte[3], Target(g, c, i)>>))

\* The page is committed at the sixteen bits of the address it began at.
Commit(f, c, page) ==
  LET at == IF Flash(c) THEN Located(f.pins, page) ELSE page % SegWords
  IN  IF c.commit THEN On(f, Instruct(f.pins, <<"commit", 0, 0, at>>)) ELSE f

ProgramMemory(f, c, data, stuck) ==
  LET fails == c.polled /\ stuck > 0
      n     == IF fails /\ ~c.paged THEN stuck ELSE c.len
      Step(g, i) == LET h == Writes(g, c, i, data[i])
                    IN  IF fails /\ ~c.paged /\ i = n THEN h ELSE Advance(h, c, i)
      done == Moved(f, Commit(After(f, n, Step)[n], c, f.addr))
      loads == c.commit /\ Flash(c) /\ done.addr % SegWords = 0
      bad   == fails /\ (c.paged => c.commit)
  IN  IF done.pins.hung THEN Silent(done)
      ELSE Answer([done EXCEPT !.mustLoad = @ \/ loads],
                  <<IF bad THEN STATUS_RDY_BSY_TOUT ELSE STATUS_CMD_OK>>)

ChipErase(f, c, stuck) ==
  LET p == Instruct(f.pins, Sym("erase"))
  IN  IF p.hung THEN Silent(On(f, p))
      ELSE Answer(On(f, p), <<IF c.polled /\ stuck > 0 THEN STATUS_RDY_BSY_TOUT ELSE STATUS_CMD_OK>>)

Several(n, place) ==
  Chunks(<<STATUS_CMD_OK>> \o [k \in 1..n |-> place] \o <<STATUS_CMD_OK>>, TRUE)

\* One instruction, and the reply that holds what the AVR says to it.
Told(c, place) ==
  CASE c.cmd = "READ_FUSE"    -> <<<<STATUS_CMD_OK, place>>>>
    [] c.cmd = "PROGRAM_FUSE" -> <<<<STATUS_CMD_OK>>>>
    [] c.cmd = "SPI_MULTI"    -> Several(c.n, place)

Instruction(f, c, symbol) ==
  LET p == Instruct(f.pins, symbol)
  IN  [fw |-> On(f, p), reply |-> IF p.hung THEN <<>> ELSE Told(c, Place(f.pins, p))]

(***************************************************************************)
(* V2Protocol.c: the parameters, the address, and the dispatch.            *)
(***************************************************************************)
ReadOnly == {"BUILD_NUMBER_LOW", "BUILD_NUMBER_HIGH", "HW_VER", "SW_MAJOR", "SW_MINOR",
             "VTARGET", "STATUS_TGT_CONN"}

GetSetParam(f, c) ==
  CASE c.cmd = "SET_PARAMETER" /\ c.param \in DOMAIN Defaults ->
         Answer([f EXCEPT !.params[c.param] = c.value], <<STATUS_CMD_OK>>)
    [] c.cmd = "GET_PARAMETER" /\ c.param \in DOMAIN Defaults ->
         Answer(f, <<STATUS_CMD_OK, f.params[c.param]>>)
    [] c.cmd = "GET_PARAMETER" /\ c.param \in ReadOnly -> Answer(f, <<STATUS_CMD_OK, 0>>)
    [] OTHER -> Answer(f, <<STATUS_CMD_FAILED>>)

LoadAddress(f, c) ==
  Answer([f EXCEPT !.addr = c.addr, !.mustLoad = @ \/ c.extended], <<STATUS_CMD_OK>>)

TooLong(c) == c.cmd \in {"PROGRAM_FLASH", "PROGRAM_EEPROM"} /\ c.len > BlockMax

ProcessCommand(f, c, data, stuck) ==
  CASE c.cmd \in {"SIGN_ON", "RESET_PROTECTION", "FIRMWARE_VER"} -> Answer(f, <<STATUS_CMD_OK>>)
    [] c.cmd \in {"SET_PARAMETER", "GET_PARAMETER"} -> GetSetParam(f, c)
    [] c.cmd = "LOAD_ADDRESS"   -> LoadAddress(f, c)
    [] c.cmd = "ENTER_SPI25"    -> SPI_Enter25Mode(f)
    [] c.cmd = "LEAVE_SPI25"    -> SPI_Leave25Mode(f)
    [] c.cmd = "SPI25_READ"     -> SPI_25Read(f, c)
    [] c.cmd = "SPI25_WRITE"    -> SPI_25Write(f, c, data)
    [] c.cmd = "I2C_INIT"       -> Silent(On(f, Fresh(i2c_init(f.pins), TRUE)))
    [] c.cmd = "I2C_START"      -> Silent(On(f, i2c_start(f.pins)))
    [] c.cmd = "I2C_STOP"       -> Silent(On(f, i2c_stop(f.pins)))
    [] c.cmd = "I2C_READBYTE"   ->
         LET q == i2c_read_byte(f.pins, c.ack) IN OneByte(f, q, Place(f.pins, q))
    [] c.cmd = "I2C_WRITEBYTE"  ->
         LET q == i2c_send_byte(f.pins, c.byte) IN OneByte(f, q, Place(f.pins, q))
    [] c.cmd = "I2C_READ"       -> i2c_read(f, c)
    [] c.cmd = "I2C_WRITE"      -> i2c_write(f, c, data)
    [] c.cmd = "MW_INIT"        -> Silent(On(f, Fresh(mwInit(f.pins), f.pins.cs # "high")))
    [] c.cmd = "MW_READ"        -> mw_read(f, c)
    [] c.cmd = "MW_WRITE"       -> mw_write(f, c, data)
    [] c.cmd = "MW_BUSY"        -> LET q == mwBusy(f.pins) IN OneByte(f, q, MisoPlace(f.pins, q))
    [] c.cmd = "ENTER_ISP"      -> EnterISPMode(f)
    [] c.cmd = "LEAVE_ISP"      -> LeaveISPMode(f)
    [] c.cmd \in {"PROGRAM_FLASH", "PROGRAM_EEPROM"} ->
         IF TooLong(c) THEN Answer(f, <<STATUS_CMD_FAILED>>) ELSE ProgramMemory(f, c, data, stuck)
    [] c.cmd \in {"READ_FLASH", "READ_EEPROM"} -> ReadMemory(f, c)
    [] c.cmd = "CHIP_ERASE"     -> ChipErase(f, c, stuck)
    [] c.cmd = "READ_FUSE"      -> Instruction(f, c, Sym("fuse"))
    [] c.cmd = "PROGRAM_FUSE"   -> Instruction(f, c, <<"setfuse", c.id, 0, 0>>)
    [] c.cmd = "SPI_MULTI"      -> Instruction(f, c, <<"multi", data[1][2], 0, 0>>)
    [] OTHER                    -> Answer(f, <<STATUS_CMD_UNKNOWN>>)
=============================================================================
