--------------------------- MODULE UsbAspFirmware ---------------------------
(***************************************************************************)
(* The requests main.c of the USBasp serves: for serial memories (25xx     *)
(* SPI, I2C and Microwire) and to program an AVR.  A firmware state has    *)
(* the pins (UsbAspPins) and the static variables of main.c:               *)
(*   pins, state (prog_state), nbytes (prog_nbytes), csHi (spi_cs_hi),     *)
(*   csLo (mw_cs_lo), bits (mw_bitnum), stop (i2c_stop_aw), sck (prog_sck) *)
(*   newmode, address, pagesize, last, counter (prog_...)                  *)
(* A vendor request has: req, dir ("in" or "out"), value (data[2]), index  *)
(* (data[4]) and len (data[6], data[7]).                                   *)
(***************************************************************************)
EXTENDS UsbAspPins

CONSTANTS
  Jumper,       \* PC2 is closed: SCK is slow whatever the host sets
  PacketSize,   \* bytes in a packet: 8
  CounterMod    \* the page counter is a byte: 256

Idle == "IDLE"

Static ==
  [pins |-> PowerUp, state |-> Idle, nbytes |-> 0, csHi |-> 1, csLo |-> 1,
   bits |-> 0, stop |-> 0, sck |-> SckAuto, newmode |-> FALSE, address |-> 0,
   pagesize |-> 0, last |-> FALSE, counter |-> 0]

SetSpeed(f) == ispSetSCKOption(f.pins, IF Jumper THEN Sck8 ELSE f.sck)

Transfer(f, rq, pins) ==
  [f EXCEPT !.pins = pins, !.nbytes = rq.len, !.state = rq.req]

\* An address in the request counts until the host has given a long one.
Addressed(f, rq) ==
  [Transfer(f, rq, f.pins) EXCEPT !.address = IF f.newmode THEN @ ELSE rq.value]

(***************************************************************************)
(* ENABLEPROG tries the slower options one after the other, until the AVR  *)
(* answers, and then takes the next slower one.  What was tried before     *)
(* makes no difference.  Its reply is 0 if the AVR answered.               *)
(***************************************************************************)
Slower(f) == Sck2..(IF f.sck = SckAuto THEN Sck187 ELSE f.sck - 1)

EnableProg(f) ==
  LET At(option) == ispEnterProgrammingMode(ispSetSCKOption(f.pins, option))
      first      == ispEnterProgrammingMode(f.pins)
      heard      == {option \in Slower(f): At(option).prog}
  IN  IF first.prog \/ first.cpu # "running" \/ Slower(f) = {} THEN first
      ELSE IF heard # {} THEN ispSetSCKOption(At(Max(heard)), Max(heard) - 1)
      ELSE At(Sck2)

\* index carries the page size and the flags FIRST (1) and LAST (2).
StartPage(f, rq) ==
  LET size == rq.index \div 4
  IN  [Addressed(f, rq) EXCEPT !.pagesize = size, !.last = (rq.index % 4) \in {2, 3},
                               !.counter = IF rq.index % 2 = 1 THEN size % CounterMod ELSE @]

\* The firmware after usbFunctionSetup, and its reply.
usbFunctionSetup(f, rq) ==
  LET p == f.pins
      Reply(q, by) == [fw |-> [f EXCEPT !.pins = q], reply |-> by, user |-> FALSE]
      Done(q)      == Reply(q, <<>>)
      Data(g)      == [fw |-> g, reply |-> <<>>, user |-> TRUE]   \* USB_NO_MSG
  IN CASE rq.req = "GETCAPABILITIES" -> Reply(p, <<"tpi", 0, 0, "flash">>)
       [] rq.req = "SETISPSCK"   -> [fw |-> [f EXCEPT !.sck = rq.value], reply |-> <<0>>, user |-> FALSE]
       [] rq.req = "CONNECT" ->
            [fw |-> [f EXCEPT !.pins = ispConnect(SetSpeed(f)), !.newmode = FALSE], reply |-> <<>>, user |-> FALSE]
       [] rq.req = "ENABLEPROG" ->
            LET q == EnableProg(f) IN Reply(q, <<IF q.prog THEN 0 ELSE 1>>)
       [] rq.req = "TRANSMIT" ->
            LET q == Instruct(p, <<"instruction", rq.value[2], 0, 0>>)
            IN  Reply(q, [k \in 1..4 |-> Place(p, q)])
       [] rq.req = "SETLONGADDRESS" ->
            [fw |-> [f EXCEPT !.newmode = TRUE, !.address = rq.value], reply |-> <<>>, user |-> FALSE]
       [] rq.req \in {"READFLASH", "READEEPROM"} -> Data(Addressed(f, rq))
       [] rq.req = "WRITEFLASH"  -> Data(StartPage(f, rq))
       [] rq.req = "WRITEEEPROM" -> Data([Addressed(f, rq) EXCEPT !.pagesize = 0, !.last = FALSE])
       [] rq.req = "SPI_CONNECT" -> Done(isp25Connect(SetSpeed(f)))
       [] rq.req = "DISCONNECT"  -> Done(ispDisconnect(p))
       [] rq.req \in {"SPI_READ", "SPI_WRITE"} ->
            Data([Transfer(f, rq, CS_LOW(p)) EXCEPT !.csHi = rq.value])
       [] rq.req = "I2C_INIT"  -> Done(i2c_init(p))
       [] rq.req = "I2C_START" -> Done(i2c_start(p))
       [] rq.req = "I2C_STOP"  -> Done(i2c_stop(p))
       [] rq.req = "I2C_WRITEBYTE" ->
            LET q == i2c_send_byte(p, rq.value) IN Reply(q, <<I2CPlace(p, q)>>)
       [] rq.req = "I2C_READBYTE" ->
            LET q == i2c_read_byte(p, rq.value) IN Reply(q, <<I2CPlace(p, q)>>)
       [] rq.req = "I2C_READ" -> Data(Transfer(f, rq, i2c_address(p, "R")))
       [] rq.req = "I2C_WRITE" ->
            Data([Transfer(f, rq, i2c_address(i2c_start(p), "W")) EXCEPT !.stop = rq.index])
       [] rq.req = "MW_WRITE" ->
            Data([Transfer(f, rq, [p EXCEPT !.rst = "high"])
                    EXCEPT !.csLo = rq.value, !.bits = rq.index])
       [] rq.req = "MW_READ" -> Data([Transfer(f, rq, p) EXCEPT !.csLo = rq.value])
       [] rq.req = "MW_BUSY" -> LET q == mwBusy(p) IN Reply(q, <<I2CPlace(p, q)>>)

(***************************************************************************)
(* Clock(_, i) is the effect of the i-th byte on the pins, or the firmware;*)
(* the states they are in after 0..k bytes.                                *)
(***************************************************************************)
Clocked(p, k, Clock(_, _)) ==
  LET after[i \in 0..k] == IF i = 0 THEN p ELSE Clock(after[i - 1], i) IN after

\* When all bytes of the request have passed, its frame ends and it is over.
Ended(f, over, Close(_)) ==
  IF f.pins.cpu = "running" /\ f.nbytes = 0
  THEN [f EXCEPT !.pins = Close(f.pins), !.state = over]
  ELSE f

CloseSpiNever(f, p) == p
CloseSpi(f, p) == IF f.csHi = 1 THEN CS_HI(p) ELSE p
CloseMW(f, p)  == IF f.csLo = 1 THEN mwEnd(p) ELSE p
CloseI2C(f, p) == IF f.stop = 1 THEN i2c_stop(p) ELSE i2c_start(p)

IspReads  == {"READFLASH", "READEEPROM"}
IspWrites == {"WRITEFLASH", "WRITEEEPROM"}
Readable  == {"SPI_READ", "I2C_READ", "MW_READ"} \cup IspReads
Writable  == {"SPI_WRITE", "I2C_WRITE", "MW_WRITE"} \cup IspWrites

(***************************************************************************)
(* The AVR.  A read takes what the driver asks for, and is over with a     *)
(* short packet; a write counts its bytes.                                 *)
(***************************************************************************)
IspRead(f, len) ==
  LET Clock(p, i) == IF f.state = "READFLASH" THEN ispReadFlash(p, f.address + i - 1)
                     ELSE ispReadEEPROM(p, f.address + i - 1)
      after == Clocked(f.pins, len, Clock)
  IN [fw   |-> [f EXCEPT !.pins = after[len], !.address = @ + len,
                         !.state = IF len < PacketSize THEN Idle ELSE @],
      data |-> [i \in 1..len |-> Place(after[i - 1], after[i])]]

LoadByte(f, byte) ==
  LET p     == ispWriteFlash(f.pins, f.address, byte, f.pagesize # 0)
      count == (f.counter + CounterMod - 1) % CounterMod
  IN  IF f.state # "WRITEFLASH" THEN [f EXCEPT !.pins = ispWriteEEPROM(@, f.address, byte)]
      ELSE IF f.pagesize = 0 THEN [f EXCEPT !.pins = p]
      ELSE IF count = 0 THEN [f EXCEPT !.pins = ispFlushPage(p, f.address), !.counter = f.pagesize % CounterMod]
      ELSE [f EXCEPT !.pins = p, !.counter = count]

\* A byte behind the last one goes to the EEPROM, and the count wraps.
IspByte(f, byte) ==
  LET g    == LoadByte(f, byte)
      over == f.nbytes = 1
  IN  [g EXCEPT !.nbytes = (@ + 65535) % 65536, !.address = @ + 1, !.state = IF over THEN Idle ELSE @,
                !.pins = IF over /\ f.last /\ g.counter # f.pagesize
                         THEN ispFlushPage(@, f.address) ELSE @]

IspWrite(f, data) ==
  LET Store(g, i) == IspByte(g, data[i]) IN Clocked(f, Len(data), Store)[Len(data)]

\* The firmware after usbFunctionRead has filled at most len bytes.
MemoryRead(f, len) ==
  LET k == IF len > f.nbytes THEN f.nbytes ELSE len
      Clock(p, i) ==
        CASE f.state = "SPI_READ" -> ispTransmit(p, Sym("read"))
          [] f.state = "MW_READ"  -> mwReadByte(p)
          [] f.state = "I2C_READ" -> i2c_read_byte(p, IF i = f.nbytes THEN "nack" ELSE "ack")
      PlaceOf(p, q) == IF f.state = "SPI_READ" THEN Place(p, q) ELSE I2CPlace(p, q)
      Close(p) ==
        CASE f.state = "SPI_READ" -> CloseSpi(f, p)
          [] f.state = "MW_READ"  -> CloseMW(f, p)
          [] f.state = "I2C_READ" -> i2c_stop(p)
      after == Clocked(f.pins, k, Clock)
  IN [fw   |-> Ended([f EXCEPT !.pins = after[k], !.nbytes = @ - k], Idle, Close),
      data |-> [i \in 1..k |-> PlaceOf(after[i - 1], after[i])]]

\* The bits of the i-th byte of a Microwire write.
BitsOf(f, i) == LET left == f.bits - 8 * (i - 1) IN IF left < 8 THEN left ELSE 8

\* prog_state stays SPI_WRITE after the last byte of an SPI write.
MemoryWrite(f, data) ==
  LET k == IF Len(data) > f.nbytes THEN f.nbytes ELSE Len(data)
      Clock(p, i) ==
        CASE f.state = "SPI_WRITE" -> ispTransmit(p, data[i])
          [] f.state = "I2C_WRITE" -> i2c_send_byte(p, data[i])
          [] f.state = "MW_WRITE"  -> IF BitsOf(f, i) > 0 THEN mwSendData(p, data[i], BitsOf(f, i)) ELSE p
      Close(p) ==
        CASE f.state = "SPI_WRITE" -> CloseSpi(f, p)
          [] f.state = "I2C_WRITE" -> CloseI2C(f, p)
          [] f.state = "MW_WRITE"  -> CloseMW(f, p)
      clocked ==
        [f EXCEPT !.pins = Clocked(f.pins, k, Clock)[k], !.nbytes = @ - k,
                  !.bits = IF f.state = "MW_WRITE" THEN (IF @ > 8 * k THEN @ - 8 * k ELSE 0) ELSE @]
  IN Ended(clocked, IF f.state = "SPI_WRITE" THEN f.state ELSE Idle, Close)

usbFunctionRead(f, len) ==
  IF f.state \in IspReads THEN IspRead(f, len) ELSE MemoryRead(f, len)

usbFunctionWrite(f, data) ==
  IF f.state \in IspWrites THEN IspWrite(f, data) ELSE MemoryWrite(f, data)
=============================================================================
