--------------------------- MODULE UsbAspStepProofs ---------------------------
(***************************************************************************)
(* InStep of UsbAsp, proved for every packet size, SCK option and menu of  *)
(* calls on serial memories: while nothing is lost, what the device still  *)
(* has to take or give is what the host still has to send or fetch.        *)
(*                                                                         *)
(* It needs to know that the SPI unit never hangs the firmware in the      *)
(* middle of a request, so that an SPI session has connected, so that the  *)
(* request that sets the speed is always told to the host; and that no     *)
(* packet is taken for a repetition, so that the toggles agree.            *)
(*                                                                         *)
(* And NoFrameLeaks, with faults: between the calls of a good session the  *)
(* firmware leaves no chip selected and no I2C transfer open that the      *)
(* program does not mean to go on with.                                    *)
(***************************************************************************)
EXTENDS UsbAspProofs

\* The pins have their fields; the SPI unit ends a wait for it.
PinFields == {"transmit", "option", "spcr", "outputs", "rst", "sdaLow", "hiaddr", "prog",
              "ext", "cpu", "wire"}

PinsOK(p) == DOMAIN p = PinFields

Returns(p) == p.transmit = "hw" => p.spcr # 0

\* The request is being served, or has been.
Serves(h, d) == h.phase # "setup" /\ d.rx.pid # "SETUP"

\* A serial memory is worked with, and nothing is lost.
Serial == faults = 0 /\ mode.bus # "isp"

\* What a call may ask for, and when it is made.
Ordered(h) ==
  /\ \A i \in DOMAIN h.todo : h.todo[i].req \in Requests(mode.bus, h.call.op)
  /\ h.todo # <<>> => h.call.op # "none"
  /\ IsJob(h.call) => h.entered
  /\ h.call.op \in {"Attach", "Open"} => ~h.entered
  /\ h.call.op = "Open" /\ mode.bus = "spi" => Last(h.todo).req = "SPI_CONNECT"

\* An SPI session has connected.
Connected(h, d) ==
  mode.bus = "spi" =>
    /\ h.entered /\ h.call.op # "Close" => Returns(d.fw.pins)
    /\ Serves(h, d) /\ Head(h.todo).req = "SPI_CONNECT" => Returns(d.fw.pins)

\* Nothing is sent to the device while it sends.
OneWay(h, d) == Serves(h, d) /\ Head(h.todo).dir = "in" => d.rx = Nothing

\* The toggles of host and device.
InTurn(h, d) ==
  /\ Serves(h, d) /\ h.phase = "data" /\ Head(h.todo).dir = "in"
  /\ d.userRW \/ Head(h.todo).req = "SETISPSCK"
  /\ d.tx # Stall
  => IF d.tx.pid = "DATA" THEN d.tx.toggle = h.toggle /\ d.toggle = h.toggle
     ELSE Flip(d.toggle) = h.toggle

\* The speed is set, and the host told.
Told(h, d) ==
  h.todo # <<>> /\ Head(h.todo).req = "SETISPSCK" =>
    /\ h.phase = "status" => Len(h.got) = 1
    /\ Serves(h, d) =>
         /\ ~d.userRW /\ d.tx # Stall
         /\ h.phase = "data" =>
              /\ Len(h.got) = 0
              /\ IF d.tx.pid = "DATA" THEN Len(d.tx.data) = 1 ELSE d.msgLen = 1

\* The bytes on their way.
Flight(d) ==
  IF d.rx.pid = "OUT" THEN Len(d.rx.data)
  ELSE IF d.tx.pid = "DATA" THEN -Len(d.tx.data) ELSE 0

Counted(h, d) ==
  Serves(h, d) /\ d.userRW =>
    LET rq == Head(h.todo)
    IN  /\ rq.req \in Memory
        /\ d.fw.nbytes = rq.len + Flight(d) - (IF rq.dir = "out" THEN h.sent ELSE Len(h.got))
        /\ rq.dir = "out" => d.msgLen \in {NoMsg, 0} /\ (d.tx.pid = "DATA" => Len(d.tx.data) = 0)
        /\ rq.dir = "in" /\ d.tx = Stall => d.msgLen = NoMsg
        /\ d.fw.state = rq.req \/ (d.fw.state = Idle /\ d.fw.nbytes = 0)

StepOK(h, d) ==
  /\ PinsOK(d.fw.pins) /\ d.fw.state \in Memory \cup {Idle}
  /\ h.phase = "setup" => d.rx = Nothing
  /\ Ordered(h) /\ Connected(h, d) /\ OneWay(h, d) /\ InTurn(h, d) /\ Told(h, d) /\ Counted(h, d)

SInv == Serial => StepOK(host, dev)

-----------------------------------------------------------------------------
(***************************************************************************)
(* The pins.                                                               *)
(***************************************************************************)
\* The SPI unit and the choice of its driver are left alone.
Keeps(p, q) == PinsOK(q) /\ q.transmit = p.transmit /\ q.spcr = p.spcr

\* The code of a bit-banged bus and of chip select; the firmware goes on.
LEMMA PinsKept ==
  ASSUME NEW p, PinsOK(p), NEW s
  PROVE  /\ Keeps(p, p)
         /\ \A q \in {See(p, s), CS_LOW(p), CS_HI(p), i2c_start(p), i2c_stop(p), i2c_send_byte(p, s),
                      i2c_read_byte(p, s), MWSee(p, s), mwReadByte(p), mwEnd(p), mwBusy(p),
                      [p EXCEPT !.rst = "high"]} :
              Keeps(p, q) /\ q.cpu = p.cpu
<1> DEFINE Same(q) == PinsOK(q) /\ q.transmit = p.transmit /\ q.spcr = p.spcr /\ q.cpu = p.cpu
<1>1. ASSUME NEW q, Same(q), NEW symbol PROVE Same(See(q, symbol))
  BY <1>1 DEF See, PinsOK, PinFields
<1>2. ASSUME NEW q, Same(q), NEW x
      PROVE  Same([q EXCEPT !.rst = x]) /\ Same([q EXCEPT !.sdaLow = x])
  BY <1>2 DEF PinsOK, PinFields
<1>3. Same(p)
  OBVIOUS
<1> HIDE DEF Same
<1>4. ASSUME NEW q, Same(q), NEW symbol PROVE Same(I2CSee(q, symbol)) /\ Same(MWSee(q, symbol))
  BY <1>1, <1>4 DEF I2CSee, MWSee
<1>5. Same(See(p, s)) /\ Same(CS_LOW(p)) /\ Same(CS_HI(p)) /\ Same([p EXCEPT !.rst = "high"])
  BY <1>1, <1>2, <1>3 DEF CS_LOW, CS_HI
<1>6. Same(i2c_start(p)) /\ Same(i2c_stop(p)) /\ Same(i2c_send_byte(p, s)) /\ Same(i2c_read_byte(p, s))
  BY <1>2, <1>3, <1>4 DEF i2c_start, i2c_stop, i2c_send_byte, i2c_read_byte
<1>7. Same(MWSee(p, s)) /\ Same(mwReadByte(p)) /\ Same(mwEnd(p)) /\ Same(mwBusy(p))
  BY <1>1, <1>2, <1>3, <1>4 DEF mwReadByte, mwEnd, mwBusy
<1> QED
  BY <1>3, <1>5, <1>6, <1>7 DEF Same, Keeps

\* A byte of the SPI unit, which hangs only when it is disabled.
LEMMA TransmitKept ==
  ASSUME NEW p, PinsOK(p), NEW s
  PROVE  /\ Keeps(p, ispTransmit(p, s))
         /\ Returns(p) /\ p.cpu # "hung" => ispTransmit(p, s).cpu # "hung"
<1>1. CASE Cpu(p) # "running"
  <2>1. ispTransmit(p, s) = [p EXCEPT !.cpu = Cpu(p)]
    BY <1>1 DEF ispTransmit
  <2>2. Keeps(p, ispTransmit(p, s)) /\ ispTransmit(p, s).cpu = Cpu(p)
    BY <2>1 DEF Keeps, PinsOK, PinFields
  <2>3. Returns(p) => Cpu(p) # "hung"
    BY DEF Returns, Cpu
  <2> QED
    BY <2>2, <2>3
<1>2. CASE Cpu(p) = "running"
  <2>1. ispTransmit(p, s) \in {p, See(p, s)}
    BY <1>2 DEF ispTransmit
  <2>2. Keeps(p, See(p, s)) /\ See(p, s).cpu = p.cpu /\ Keeps(p, p)
    BY PinsKept
  <2> QED
    BY <2>1, <2>2
<1> QED
  BY <1>1, <1>2

\* The states a request for bytes of a memory is in.
MemReads  == {"SPI_READ", "MW_READ", "I2C_READ"}
MemWrites == {"SPI_WRITE", "MW_WRITE", "I2C_WRITE"}

\* Chip select, once released, stays so; the program starts anew only without a driver.
Released(p, q) ==
  /\ p.rst = "high" => q.rst = "high"
  /\ q.cpu \in {p.cpu, "hung", "restart"}
  /\ p.transmit # "unset" /\ p.cpu # "restart" => q.cpu # "restart"

\* SDA is low only behind a start, or an acknowledge of ours.
StartedLow(p) ==
  /\ p.spcr = 0 /\ IsSeq(p.wire)
  /\ p.sdaLow => p.wire # <<>> /\ Last(p.wire) \in {Sym("S"), Sym("ack")}

\* What a run of bytes does to the pins.
Ran(f, p, q) ==
  /\ Keeps(p, q)
  /\ (f.state \in {"SPI_READ", "SPI_WRITE"} => Returns(p)) /\ p.cpu # "hung" => q.cpu # "hung"
  /\ f.state \in {"SPI_READ", "SPI_WRITE"} => Released(p, q)
  /\ f.state \in {"I2C_READ", "I2C_WRITE"} /\ StartedLow(p) => StartedLow(q)

\* Two runs in a row.
LEMMA RanOn ==
  ASSUME NEW f, NEW p, NEW q, NEW r, Ran(f, p, q), Ran(f, q, r)
  PROVE  Ran(f, p, r)
<1>1. Keeps(p, r)
  BY DEF Ran, Keeps
<1>2. (f.state \in {"SPI_READ", "SPI_WRITE"} => Returns(p)) /\ p.cpu # "hung" => r.cpu # "hung"
  BY DEF Ran, Keeps, Returns
<1>3. f.state \in {"SPI_READ", "SPI_WRITE"} => Released(p, r)
  BY DEF Ran, Keeps, Released
<1>4. f.state \in {"I2C_READ", "I2C_WRITE"} /\ StartedLow(p) => StartedLow(r)
  BY Zenon DEF Ran
<1> QED
  BY <1>1, <1>2, <1>3, <1>4 DEF Ran

\* A symbol is the last of the wire then.
LEMMA SeenLast ==
  ASSUME NEW s, IsSeq(s), NEW symbol
  PROVE  IsSeq(Append(s, symbol)) /\ Append(s, symbol) # <<>> /\ Last(Append(s, symbol)) = symbol
<1> DEFINE U == Range(s) \cup {symbol}
           t == Append(s, symbol)
<1>1. s \in Seq(U)
  BY DEF IsSeq
<1>2. symbol \in U
  OBVIOUS
<1> HIDE DEF U
<1>3. t \in Seq(U) /\ Len(t) = Len(s) + 1 /\ t[Len(s) + 1] = symbol /\ Len(s) \in Nat
  BY <1>1, <1>2
<1> HIDE DEF t
<1>4. IsSeq(t) /\ t # <<>>
  BY <1>3, SeqOver, SeqLen
<1>5. Last(t) = symbol
  BY <1>3 DEF Last
<1> QED
  BY <1>4, <1>5 DEF t

\* The code of the I2C bus.
LEMMA StartedKept ==
  ASSUME NEW p, PinsOK(p), StartedLow(p), NEW s
  PROVE  \A q \in {i2c_init(p), i2c_start(p), i2c_stop(p), i2c_send_byte(p, s), i2c_read_byte(p, s),
                   ispDisconnect(p)} : StartedLow(q)
<1>1. /\ p.spcr = 0 /\ IsSeq(p.wire) /\ DOMAIN p = PinFields
      /\ p.sdaLow => p.wire # <<>> /\ Last(p.wire) \in {Sym("S"), Sym("ack")}
  BY DEF StartedLow, PinsOK
<1>2. ASSUME NEW symbol, NEW low, low => symbol \in {Sym("S"), Sym("ack")}
      PROVE  StartedLow([I2CSee(p, symbol) EXCEPT !.sdaLow = low])
  <2> DEFINE t == Append(p.wire, symbol)
             q == [I2CSee(p, symbol) EXCEPT !.sdaLow = low]
  <2>1. q.spcr = 0 /\ q.wire = t /\ q.sdaLow = low
    BY <1>1 DEF I2CSee, BusIsOurs, See, PinFields
  <2>2. IsSeq(t) /\ t # <<>> /\ Last(t) = symbol
    BY <1>1, SeenLast
  <2> HIDE DEF t, q
  <2>3. StartedLow(q)
    BY <1>2, <2>1, <2>2 DEF StartedLow
  <2> QED
    BY <2>3 DEF q
<1>3. StartedLow(i2c_start(p))
  BY <1>2 DEF i2c_start
<1>4. StartedLow(i2c_stop(p)) /\ StartedLow(i2c_send_byte(p, s))
  BY <1>2 DEF i2c_stop, i2c_send_byte
<1>5. StartedLow(i2c_read_byte(p, s))
  <2>1. (s = "ack") => Sym(s) \in {Sym("S"), Sym("ack")}
    OBVIOUS
  <2> QED
    BY <1>2, <2>1, Zenon DEF i2c_read_byte
<1>6. StartedLow(i2c_init(p))
  <2> DEFINE q == i2c_init(p)
  <2>1. q.spcr = 0 /\ q.wire \in {<<>>, <<Sym("stale")>>} /\ q.sdaLow = FALSE
    BY <1>1 DEF i2c_init, Fresh, PinFields
  <2> HIDE DEF q
  <2>2. StartedLow(q)
    BY <2>1, SeqShort DEF StartedLow
  <2> QED
    BY <2>2 DEF q
<1>7. StartedLow(ispDisconnect(p))
  <2> DEFINE q == ispDisconnect(p)
  <2>1. q.spcr = 0 /\ q.wire = p.wire /\ q.sdaLow = p.sdaLow
    BY <1>1 DEF ispDisconnect, spiHWdisable, PinFields
  <2> HIDE DEF q
  <2>2. StartedLow(q)
    BY <1>1, <2>1 DEF StartedLow
  <2> QED
    BY <2>2 DEF q
<1> QED
  BY <1>3, <1>4, <1>5, <1>6, <1>7

\* A byte of the SPI unit, and the end of a frame.
LEMMA ReleasedKept ==
  ASSUME NEW p, PinsOK(p), NEW s
  PROVE  \A q \in {p, CS_HI(p), ispTransmit(p, s)} : Released(p, q)
<1>1. DOMAIN p = PinFields
  BY DEF PinsOK
<1>2. Released(p, p)
  BY DEF Released
<1>3. Released(p, CS_HI(p))
  BY <1>1 DEF CS_HI, See, Released, PinFields
<1>4. Released(p, ispTransmit(p, s))
  <2>1. CASE Cpu(p) # "running"
    <3>1. ispTransmit(p, s) = [p EXCEPT !.cpu = Cpu(p)] /\ Cpu(p) \in {"hung", "restart"}
      BY <2>1 DEF ispTransmit, Cpu
    <3>2. p.transmit # "unset" => Cpu(p) # "restart"
      BY DEF Cpu
    <3> QED
      BY <1>1, <3>1, <3>2 DEF Released, PinFields
  <2>2. CASE Cpu(p) = "running"
    <3>1. ispTransmit(p, s) \in {p, See(p, s)}
      BY <2>2 DEF ispTransmit
    <3>2. Released(p, See(p, s))
      BY <1>1 DEF See, Released, PinFields
    <3> QED
      BY <1>2, <3>1, <3>2
  <2> QED
    BY <2>1, <2>2
<1> QED
  BY <1>2, <1>3, <1>4

\* One byte, and the end of the frame.
LEMMA ByteRuns ==
  ASSUME NEW f, NEW p, PinsOK(p), NEW i, NEW data
  PROVE  /\ Ran(f, p, p)
         /\ f.state \in MemReads => Ran(f, p, ReadClock(f, p, i)) /\ Ran(f, p, ReadClose(f, p))
         /\ f.state \in MemWrites => Ran(f, p, WriteClock(f, data, p, i)) /\ Ran(f, p, WriteClose(f, p))
<1>1. ASSUME f.state \in {"I2C_READ", "I2C_WRITE"}, NEW q, Keeps(p, q), q.cpu = p.cpu,
             StartedLow(p) => StartedLow(q)
      PROVE  Ran(f, p, q)
  BY <1>1 DEF Ran
<1>2. ASSUME f.state \in {"MW_READ", "MW_WRITE"}, NEW q, Keeps(p, q), q.cpu = p.cpu
      PROVE  Ran(f, p, q)
  BY <1>2 DEF Ran
<1>3. Ran(f, p, p)
  <2>1. Keeps(p, p) /\ Released(p, p)
    BY PinsKept, ReleasedKept
  <2> QED
    BY <2>1 DEF Ran
<1>4. ASSUME f.state \in {"SPI_READ", "SPI_WRITE"}, NEW s
      PROVE  Ran(f, p, ispTransmit(p, s)) /\ Ran(f, p, CS_HI(p))
  <2>1. Keeps(p, CS_HI(p)) /\ CS_HI(p).cpu = p.cpu
    BY PinsKept
  <2>2. Released(p, ispTransmit(p, s)) /\ Released(p, CS_HI(p))
    BY ReleasedKept
  <2>3. Keeps(p, ispTransmit(p, s)) /\ (Returns(p) /\ p.cpu # "hung" => ispTransmit(p, s).cpu # "hung")
    BY TransmitKept
  <2> QED
    BY <1>4, <2>1, <2>2, <2>3 DEF Ran
<1>5. CASE f.state = "SPI_READ"
  <2>1. ReadClock(f, p, i) = ispTransmit(p, Sym("read"))
    BY <1>5 DEF ReadClock
  <2>2. ReadClose(f, p) \in {CS_HI(p), p}
    BY <1>5 DEF ReadClose, CloseSpi
  <2> QED
    BY <1>3, <1>4, <1>5, <2>1, <2>2 DEF MemWrites
<1>6. CASE f.state = "SPI_WRITE"
  <2>1. WriteClock(f, data, p, i) = ispTransmit(p, data[i])
    BY <1>6 DEF WriteClock
  <2>2. WriteClose(f, p) \in {CS_HI(p), p}
    BY <1>6 DEF WriteClose, CloseSpi
  <2> QED
    BY <1>3, <1>4, <1>6, <2>1, <2>2 DEF MemReads
<1>7. CASE f.state = "MW_READ"
  <2>1. ReadClock(f, p, i) = mwReadByte(p) /\ ReadClose(f, p) \in {mwEnd(p), p}
    BY <1>7 DEF ReadClock, ReadClose, CloseMW
  <2>2. \A q \in {mwReadByte(p), mwEnd(p)} : Keeps(p, q) /\ q.cpu = p.cpu
    BY PinsKept
  <2> QED
    BY <1>2, <1>3, <1>7, <2>1, <2>2 DEF MemWrites
<1>8. CASE f.state = "I2C_READ"
  <2>1. PICK a : ReadClock(f, p, i) = i2c_read_byte(p, a) /\ ReadClose(f, p) = i2c_stop(p)
    BY <1>8 DEF ReadClock, ReadClose
  <2>2. /\ Keeps(p, i2c_read_byte(p, a)) /\ i2c_read_byte(p, a).cpu = p.cpu
        /\ Keeps(p, i2c_stop(p)) /\ i2c_stop(p).cpu = p.cpu
    BY PinsKept, Zenon
  <2>3. StartedLow(p) => StartedLow(i2c_read_byte(p, a)) /\ StartedLow(i2c_stop(p))
    BY StartedKept, Zenon
  <2> QED
    BY <1>1, <1>3, <1>8, <2>1, <2>2, <2>3 DEF MemWrites
<1>9. CASE f.state = "MW_WRITE"
  <2>1. PICK s : WriteClock(f, data, p, i) \in {MWSee(p, s), p}
    BY <1>9 DEF WriteClock, mwSendData
  <2>2. WriteClose(f, p) \in {mwEnd(p), p}
    BY <1>9 DEF WriteClose, CloseMW
  <2>3. Keeps(p, MWSee(p, s)) /\ MWSee(p, s).cpu = p.cpu /\ Keeps(p, mwEnd(p)) /\ mwEnd(p).cpu = p.cpu
    BY PinsKept, Zenon
  <2> QED
    BY <1>2, <1>3, <1>9, <2>1, <2>2, <2>3 DEF MemReads
<1>10. CASE f.state = "I2C_WRITE"
  <2>1. WriteClock(f, data, p, i) = i2c_send_byte(p, data[i]) /\ WriteClose(f, p) \in {i2c_stop(p), i2c_start(p)}
    BY <1>10 DEF WriteClock, WriteClose, CloseI2C
  <2>2. /\ Keeps(p, i2c_send_byte(p, data[i])) /\ i2c_send_byte(p, data[i]).cpu = p.cpu
        /\ Keeps(p, i2c_stop(p)) /\ i2c_stop(p).cpu = p.cpu
        /\ Keeps(p, i2c_start(p)) /\ i2c_start(p).cpu = p.cpu
    BY PinsKept, Zenon
  <2>3. StartedLow(p) => /\ StartedLow(i2c_send_byte(p, data[i]))
                         /\ StartedLow(i2c_stop(p)) /\ StartedLow(i2c_start(p))
    BY StartedKept, Zenon
  <2> QED
    BY <1>1, <1>3, <1>10, <2>1, <2>2, <2>3 DEF MemReads
<1> QED
  BY <1>3, <1>5, <1>6, <1>7, <1>8, <1>9, <1>10 DEF MemReads, MemWrites

\* The bytes of a read, one after the other.
LEMMA ReadPinsRun ==
  ASSUME NEW f, PinsOK(f.pins), f.state \in MemReads, NEW k \in Nat
  PROVE  Ran(f, f.pins, ReadPins(f, k)[k])
<1> DEFINE Body(h, m) == [i \in 0 .. m |-> IF i = 0 THEN f.pins ELSE ReadClock(f, h[i - 1], i)]
           after == CHOOSE h : h = Body(h, k)
           Known == {m \in Nat : \E h : h = Body(h, m)}
           Good == {m \in Nat : m \in 0 .. k => Ran(f, f.pins, after[m])}
<1>1. after = ReadPins(f, k)
  BY DEF ReadPins
<1>2. \A m \in Nat : m \in Known
  <2> HIDE DEF Body
  <2>1. 0 \in Known
    <3> DEFINE h == [i \in 0 .. 0 |-> f.pins]
    <3>1. h = Body(h, 0)
      BY DEF Body
    <3> QED
      BY <3>1
  <2>2. ASSUME NEW m \in Nat, m \in Known PROVE m + 1 \in Known
    <3>1. PICK h : h = Body(h, m)
      BY <2>2
    <3> DEFINE e == [i \in 0 .. (m + 1) |-> IF i <= m THEN h[i] ELSE ReadClock(f, h[m], i)]
    <3>2. ASSUME NEW i \in 0 .. (m + 1)
          PROVE  e[i] = IF i = 0 THEN f.pins ELSE ReadClock(f, e[i - 1], i)
      <4>1. CASE i <= m
        <5>1. i \in 0 .. m /\ e[i] = h[i] /\ (i # 0 => e[i - 1] = h[i - 1])
          BY <4>1
        <5>2. h[i] = IF i = 0 THEN f.pins ELSE ReadClock(f, h[i - 1], i)
          BY <3>1, <5>1 DEF Body
        <5> QED
          BY <5>1, <5>2
      <4>2. CASE ~(i <= m)
        <5>1. i = m + 1 /\ i # 0 /\ i - 1 = m /\ m \in 0 .. (m + 1) /\ m <= m
          BY <4>2
        <5>2. e[i] = ReadClock(f, h[m], i) /\ e[m] = h[m]
          BY <4>2, <5>1
        <5> QED
          BY <5>1, <5>2
      <4> QED
        BY <4>1, <4>2
    <3>3. e = [i \in 0 .. (m + 1) |-> e[i]]
      OBVIOUS
    <3> HIDE DEF e
    <3>4. e = Body(e, m + 1)
      BY <3>2, <3>3 DEF Body
    <3> QED
      BY <3>4
  <2> HIDE DEF Known
  <2> QED
    BY <2>1, <2>2, Induction
<1>3. after = Body(after, k)
  <2> HIDE DEF Body
  <2>1. \E h : h = Body(h, k)
    BY <1>2
  <2> QED
    BY <2>1, Zenon
<1> HIDE DEF after
<1>4. \A m \in Nat : m \in Good
  <2>1. 0 \in Good
    <3>1. after[0] = f.pins
      BY <1>3
    <3> QED
      BY <3>1, ByteRuns
  <2>2. ASSUME NEW m \in Nat, m \in Good PROVE m + 1 \in Good
    <3>1. SUFFICES ASSUME m + 1 \in 0 .. k PROVE Ran(f, f.pins, after[m + 1])
      OBVIOUS
    <3>2. after[m + 1] = Body(after, k)[m + 1]
      BY <1>3, Zenon
    <3>3. Body(after, k)[m + 1] = ReadClock(f, after[(m + 1) - 1], m + 1)
      BY <3>1
    <3>4. (m + 1) - 1 = m /\ Ran(f, f.pins, after[m])
      BY <2>2, <3>1
    <3> HIDE DEF Body
    <3>5. after[m + 1] = ReadClock(f, after[m], m + 1)
      BY <3>2, <3>3, <3>4
    <3>6. PinsOK(after[m])
      BY <3>4 DEF Ran, Keeps
    <3>7. Ran(f, after[m], after[m + 1])
      BY <3>5, <3>6, ByteRuns
    <3> QED
      BY <3>4, <3>7, RanOn
  <2> HIDE DEF Good
  <2> QED
    BY <2>1, <2>2, Induction
<1>5. Ran(f, f.pins, after[k])
  BY <1>4
<1> QED
  BY <1>1, <1>5

\* The bytes of a write, one after the other.
LEMMA WritePinsRun ==
  ASSUME NEW f, PinsOK(f.pins), f.state \in MemWrites, NEW data, NEW k \in Nat
  PROVE  Ran(f, f.pins, WritePins(f, data, k)[k])
<1> DEFINE Body(h, m) == [i \in 0 .. m |-> IF i = 0 THEN f.pins ELSE WriteClock(f, data, h[i - 1], i)]
           after == CHOOSE h : h = Body(h, k)
           Known == {m \in Nat : \E h : h = Body(h, m)}
           Good == {m \in Nat : m \in 0 .. k => Ran(f, f.pins, after[m])}
<1>1. after = WritePins(f, data, k)
  BY DEF WritePins
<1>2. \A m \in Nat : m \in Known
  <2> HIDE DEF Body
  <2>1. 0 \in Known
    <3> DEFINE h == [i \in 0 .. 0 |-> f.pins]
    <3>1. h = Body(h, 0)
      BY DEF Body
    <3> QED
      BY <3>1
  <2>2. ASSUME NEW m \in Nat, m \in Known PROVE m + 1 \in Known
    <3>1. PICK h : h = Body(h, m)
      BY <2>2
    <3> DEFINE e == [i \in 0 .. (m + 1) |-> IF i <= m THEN h[i] ELSE WriteClock(f, data, h[m], i)]
    <3>2. ASSUME NEW i \in 0 .. (m + 1)
          PROVE  e[i] = IF i = 0 THEN f.pins ELSE WriteClock(f, data, e[i - 1], i)
      <4>1. CASE i <= m
        <5>1. i \in 0 .. m /\ e[i] = h[i] /\ (i # 0 => e[i - 1] = h[i - 1])
          BY <4>1
        <5>2. h[i] = IF i = 0 THEN f.pins ELSE WriteClock(f, data, h[i - 1], i)
          BY <3>1, <5>1 DEF Body
        <5> QED
          BY <5>1, <5>2
      <4>2. CASE ~(i <= m)
        <5>1. i = m + 1 /\ i # 0 /\ i - 1 = m /\ m \in 0 .. (m + 1) /\ m <= m
          BY <4>2
        <5>2. e[i] = WriteClock(f, data, h[m], i) /\ e[m] = h[m]
          BY <4>2, <5>1
        <5> QED
          BY <5>1, <5>2
      <4> QED
        BY <4>1, <4>2
    <3>3. e = [i \in 0 .. (m + 1) |-> e[i]]
      OBVIOUS
    <3> HIDE DEF e
    <3>4. e = Body(e, m + 1)
      BY <3>2, <3>3 DEF Body
    <3> QED
      BY <3>4
  <2> HIDE DEF Known
  <2> QED
    BY <2>1, <2>2, Induction
<1>3. after = Body(after, k)
  <2> HIDE DEF Body
  <2>1. \E h : h = Body(h, k)
    BY <1>2
  <2> QED
    BY <2>1, Zenon
<1> HIDE DEF after
<1>4. \A m \in Nat : m \in Good
  <2>1. 0 \in Good
    <3>1. after[0] = f.pins
      BY <1>3
    <3> QED
      BY <3>1, ByteRuns
  <2>2. ASSUME NEW m \in Nat, m \in Good PROVE m + 1 \in Good
    <3>1. SUFFICES ASSUME m + 1 \in 0 .. k PROVE Ran(f, f.pins, after[m + 1])
      OBVIOUS
    <3>2. after[m + 1] = Body(after, k)[m + 1]
      BY <1>3, Zenon
    <3>3. Body(after, k)[m + 1] = WriteClock(f, data, after[(m + 1) - 1], m + 1)
      BY <3>1
    <3>4. (m + 1) - 1 = m /\ Ran(f, f.pins, after[m])
      BY <2>2, <3>1
    <3> HIDE DEF Body
    <3>5. after[m + 1] = WriteClock(f, data, after[m], m + 1)
      BY <3>2, <3>3, <3>4
    <3>6. PinsOK(after[m])
      BY <3>4 DEF Ran, Keeps
    <3>7. Ran(f, after[m], after[m + 1])
      BY <3>5, <3>6, ByteRuns
    <3> QED
      BY <3>4, <3>7, RanOn
  <2> HIDE DEF Good
  <2> QED
    BY <2>1, <2>2, Induction
<1>5. Ran(f, f.pins, after[k])
  BY <1>4
<1> QED
  BY <1>1, <1>5

\* The pins after a packet is read.
LEMMA ReadRuns ==
  ASSUME NEW f, FwOK(f), PinsOK(f.pins), f.state \in MemReads, NEW len \in Nat
  PROVE  Ran(f, f.pins, usbFunctionRead(f, len).fw.pins)
<1> DEFINE k == Least(f, len)
           g == Read(f, k)
           q == usbFunctionRead(f, len).fw.pins
<1>1. usbFunctionRead(f, len).fw = ReadEnd(f, k)
  <2>1. usbFunctionRead(f, len) = MemoryRead(f, len)
    BY DEF usbFunctionRead, MemReads, IspReads
  <2> QED
    BY <2>1, MemoryReadIs, Zenon
<1>2. k \in Nat
  BY DEF FwOK, Least
<1> HIDE DEF k
<1>3. DOMAIN g = FwFields /\ g.pins = ReadPins(f, k)[k]
  BY DEF Read, FwOK, FwFields
<1>4. Ran(f, f.pins, g.pins) /\ PinsOK(g.pins)
  BY <1>2, <1>3, ReadPinsRun DEF Ran, Keeps
<1> HIDE DEF g
<1>5. q \in {g.pins, ReadClose(f, g.pins)}
  BY <1>1, <1>3 DEF ReadEnd, g, FwFields
<1>6. Ran(f, g.pins, ReadClose(f, g.pins))
  BY <1>4, ByteRuns
<1>7. Ran(f, f.pins, ReadClose(f, g.pins))
  BY <1>4, <1>6, RanOn
<1> QED
  BY <1>4, <1>5, <1>7

\* The pins after a packet is written.
LEMMA WriteRuns ==
  ASSUME NEW f, FwOK(f), PinsOK(f.pins), f.state \in MemWrites, NEW data, IsSeq(data)
  PROVE  Ran(f, f.pins, usbFunctionWrite(f, data).pins)
<1> DEFINE k == Least(f, Len(data))
           g == Wrote(f, data, k)
           q == usbFunctionWrite(f, data).pins
<1>1. usbFunctionWrite(f, data) = WriteEnd(f, data, k)
  <2>1. usbFunctionWrite(f, data) = MemoryWrite(f, data)
    BY DEF usbFunctionWrite, MemWrites, IspWrites
  <2> QED
    BY <2>1, MemoryWriteIs, Zenon
<1>2. k \in Nat
  BY SeqLen DEF FwOK, Least
<1> HIDE DEF k
<1>3. DOMAIN g = FwFields /\ g.pins = WritePins(f, data, k)[k]
  BY DEF Wrote, FwOK, FwFields
<1>4. Ran(f, f.pins, g.pins) /\ PinsOK(g.pins)
  BY <1>2, <1>3, WritePinsRun DEF Ran, Keeps
<1> HIDE DEF g
<1>5. q \in {g.pins, WriteClose(f, g.pins)}
  BY <1>1, <1>3 DEF WriteEnd, g, FwFields
<1>6. Ran(f, g.pins, WriteClose(f, g.pins))
  BY <1>4, ByteRuns
<1>7. Ran(f, f.pins, WriteClose(f, g.pins))
  BY <1>4, <1>6, RanOn
<1> QED
  BY <1>4, <1>5, <1>7

\* What the requests of a serial memory are.
MemoryRequests == Memory \cup {"GETCAPABILITIES", "SETISPSCK", "SPI_CONNECT", "DISCONNECT", "I2C_INIT",
                               "I2C_START", "I2C_STOP", "I2C_WRITEBYTE", "I2C_READBYTE", "MW_BUSY"}

\* Connecting chooses the SPI unit and enables it, or neither.
LEMMA ConnectReturns ==
  ASSUME NEW f, FwOK(f), PinsOK(f.pins)
  PROVE  PinsOK(isp25Connect(SetSpeed(f))) /\ Returns(isp25Connect(SetSpeed(f)))
<1> DEFINE option == IF Jumper THEN Sck8 ELSE f.sck
           o == IF option = SckAuto THEN Sck375 ELSE option
           p == SetSpeed(f)
           q == [p EXCEPT !.outputs = TRUE]
           r == EnableIfHardware(q)
           c == CS_HI(r)
<1>1. f.sck \in Nat /\ {Sck8, Sck93, Sck375} \subseteq Nat /\ Sck93 > 0 /\ option \in Nat /\ o \in Nat
  BY SckOptions DEF FwOK
<1>2. p = [f.pins EXCEPT !.option = o, !.transmit = IF o >= Sck93 THEN "hw" ELSE "sw"]
  BY DEF SetSpeed, ispSetSCKOption
<1> HIDE DEF option, o, p
<1>3. PinsOK(p) /\ p.option = o /\ p.transmit = (IF o >= Sck93 THEN "hw" ELSE "sw")
  BY <1>2 DEF PinsOK, PinFields
<1>4. PinsOK(q) /\ q.option = o /\ q.transmit = p.transmit
  BY <1>3 DEF PinsOK, PinFields
<1> HIDE DEF q
<1>5. PinsOK(r) /\ r.transmit = p.transmit /\ (r.transmit = "hw" => r.spcr = o)
  BY <1>3, <1>4 DEF EnableIfHardware, spiHWenable, PinsOK, PinFields
<1>6. Returns(r)
  BY <1>1, <1>3, <1>5 DEF Returns
<1> HIDE DEF r
<1>7. Keeps(r, c)
  BY <1>5, PinsKept
<1> DEFINE x == isp25Connect(p)
<1>8. PinsOK(c) /\ Returns(c) /\ x = Fresh(c, c.rst = "high")
  BY <1>6, <1>7 DEF Keeps, Returns, isp25Connect, r, q
<1> HIDE DEF c, x
<1>9. PinsOK(x) /\ x.transmit = c.transmit /\ x.spcr = c.spcr
  BY <1>8 DEF Fresh, PinsOK, PinFields
<1> QED
  BY <1>8, <1>9 DEF x, p, Returns

\* One request.
LEMMA SetupRuns ==
  ASSUME NEW f, FwOK(f), PinsOK(f.pins), NEW rq, rq.req \in MemoryRequests
  PROVE  LET r == usbFunctionSetup(f, rq)
         IN  /\ PinsOK(r.fw.pins)
             /\ r.fw.state = f.state \/ (r.fw.state = rq.req /\ rq.req \in Memory)
             /\ rq.req \in {"SPI_READ", "SPI_WRITE"} => Keeps(f.pins, r.fw.pins)
             /\ rq.req = "SPI_CONNECT" => Returns(r.fw.pins)
             /\ rq.req = "SETISPSCK" => r.fw.pins = f.pins
<1> DEFINE r == usbFunctionSetup(f, rq)
           p == f.pins
           q == r.fw.pins
<1>1. DOMAIN f = FwFields
  BY DEF FwOK
<1>2. r.fw.state = f.state \/ (r.fw.state = rq.req /\ rq.req \in Memory)
  BY <1>1 DEF usbFunctionSetup, Transfer, MemoryRequests, Memory, FwFields
<1>3. rq.req = "SETISPSCK" => q = p
  BY <1>1 DEF usbFunctionSetup, FwFields
<1>4. CASE rq.req \in {"SPI_READ", "SPI_WRITE"}
  <2>1. q = CS_LOW(p)
    BY <1>1, <1>4 DEF usbFunctionSetup, Transfer, FwFields
  <2>2. Keeps(p, q)
    BY <2>1, PinsKept, Zenon
  <2>3. PinsOK(q) /\ rq.req \notin {"SPI_CONNECT", "SETISPSCK"}
    BY <1>4, <2>2 DEF Keeps
  <2> HIDE DEF r, p, q
  <2>4. PinsOK(r.fw.pins) /\ Keeps(f.pins, r.fw.pins)
    BY <2>2, <2>3 DEF p, q
  <2> QED
    BY <1>2, <2>3, <2>4 DEF r
<1>5. CASE rq.req = "SPI_CONNECT"
  <2>1. q = isp25Connect(SetSpeed(f))
    BY <1>1, <1>5 DEF usbFunctionSetup, FwFields
  <2> QED
    BY <1>2, <1>5, <2>1, ConnectReturns
<1>6. CASE rq.req = "DISCONNECT"
  <2>1. q = ispDisconnect(p)
    BY <1>1, <1>6 DEF usbFunctionSetup, FwFields
  <2>2. PinsOK(ispDisconnect(p))
    BY DEF ispDisconnect, spiHWdisable, PinsOK, PinFields
  <2> QED
    BY <1>2, <1>6, <2>1, <2>2
<1>7. CASE rq.req = "I2C_INIT"
  <2>1. q = i2c_init(p)
    BY <1>1, <1>7 DEF usbFunctionSetup, FwFields
  <2>2. PinsOK(i2c_init(p))
    BY DEF i2c_init, Fresh, PinsOK, PinFields
  <2> QED
    BY <1>2, <1>7, <2>1, <2>2
<1>8. CASE rq.req \in {"GETCAPABILITIES", "SETISPSCK", "MW_READ"}
  <2>1. q = p
    BY <1>1, <1>8 DEF usbFunctionSetup, Transfer, FwFields
  <2> QED
    BY <1>2, <1>8, <2>1
<1>9. CASE rq.req \in {"I2C_START", "I2C_STOP", "I2C_WRITEBYTE", "I2C_READBYTE", "MW_BUSY", "MW_WRITE",
                       "I2C_READ"}
  <2>1. \E s : q \in {i2c_start(p), i2c_stop(p), i2c_send_byte(p, s), i2c_read_byte(p, s), mwBusy(p),
                      [p EXCEPT !.rst = "high"]}
    BY <1>1, <1>9 DEF usbFunctionSetup, Transfer, i2c_address, FwFields
  <2>2. \A s : /\ PinsOK(i2c_start(p)) /\ PinsOK(i2c_stop(p)) /\ PinsOK(i2c_send_byte(p, s))
                /\ PinsOK(i2c_read_byte(p, s)) /\ PinsOK(mwBusy(p)) /\ PinsOK([p EXCEPT !.rst = "high"])
    BY PinsKept DEF Keeps
  <2>3. PinsOK(q)
    BY <2>1, <2>2, Zenon
  <2> QED
    BY <1>2, <1>9, <2>3
<1>10. CASE rq.req = "I2C_WRITE"
  <2>1. q = i2c_send_byte(i2c_start(p), Sym("W"))
    BY <1>1, <1>10 DEF usbFunctionSetup, Transfer, i2c_address, FwFields
  <2>2. PinsOK(i2c_start(p))
    BY PinsKept DEF Keeps
  <2>3. PinsOK(q)
    BY <2>1, <2>2, PinsKept DEF Keeps
  <2> QED
    BY <1>2, <1>10, <2>3
<1> QED
  BY <1>4, <1>5, <1>6, <1>7, <1>8, <1>9, <1>10 DEF MemoryRequests, Memory

\* What the calls on a serial memory ask for.
LEMMA RequestsAre ==
  ASSUME mode \in Modes, mode.bus # "isp", NEW op, NEW req \in Requests(mode.bus, op)
  PROVE  /\ req \in MemoryRequests \cup Standards
         /\ mode.bus # "spi" => req \notin {"SPI_READ", "SPI_WRITE", "SPI_CONNECT"} \/ (req = "SPI_CONNECT" /\ mode.bus = "mw")
         /\ req \in Memory => op \notin {"Attach", "Open", "Close"}
         /\ req \in Standards => op = "Attach"
         /\ mode.bus = "spi" /\ op \notin {"Attach", "Open", "Close"} => req \in {"SPI_READ", "SPI_WRITE"}
         /\ req = "SETISPSCK" \/ req = "SPI_CONNECT" => op = "Open"
<1>1. mode.bus \in {"spi", "i2c", "mw"}
  BY UsbAspAssumption
<1>2. CASE op = "Attach"
  BY <1>1, <1>2 DEF Requests, Standards, Memory
<1>3. CASE op = "Open"
  BY <1>1, <1>3 DEF Requests, Standards, Memory, MemoryRequests
<1>4. CASE op = "Close"
  BY <1>1, <1>4 DEF Requests, Standards, Memory, MemoryRequests
<1>5. CASE op \notin {"Attach", "Open", "Close"}
  BY <1>1, <1>5 DEF Requests, Standards, Memory, MemoryRequests
<1> QED
  BY <1>2, <1>3, <1>4, <1>5

-----------------------------------------------------------------------------
(***************************************************************************)
(* The host.                                                               *)
(***************************************************************************)
\* A transfer ends; a session on an SPI memory is entered only with a connect.
LEMMA EndsOrdered ==
  ASSUME mode \in Modes, mode.bus # "isp", NEW h, HostOK(h), Ordered(h), h.todo # <<>>,
         NEW result, NEW got, Ends(h, result, got),
         Head(h.todo).req = "SETISPSCK" => result = Head(h.todo).len
  PROVE  /\ Ordered(host')
         /\ mode.bus = "spi" /\ host'.entered /\ host'.call.op # "Close" =>
              (h.entered /\ h.call.op # "Close") \/ Head(h.todo).req = "SPI_CONNECT"
<1> DEFINE c     == h.call
           rq    == Head(h.todo)
           total == h.total + result
           g == [h EXCEPT !.total = total, !.replies = @ \o got, !.todo = Tail(@),
                          !.phase = "setup", !.sent = 0, !.got = <<>>, !.toggle = 1]
           stop == \/ result # rq.len /\ (c.op = "Attach" \/ rq.req = "SETISPSCK")
                   \/ rq.req = "ENABLEPROG" /\ got # <<0>>
           enters(refused) == CASE c.op = "Open"  -> ~refused /\ ~(stop /\ mode.bus \in {"mw", "isp"})
                                [] c.op = "Close" -> FALSE
                                [] OTHER          -> h.entered
<1>1. DOMAIN g = HostFields /\ g.todo = Tail(h.todo) /\ g.call = h.call /\ (g.entered <=> h.entered)
  BY DEF HostOK, HostFields
<1>2. IsSeq(h.todo) /\ 1 \in DOMAIN h.todo /\ Head(h.todo) = h.todo[1]
  BY SeqTail DEF HostOK
<1>3. rq.req \in Requests(mode.bus, c.op)
  BY <1>2 DEF Ordered
<1>4. \/ \E refused, good : /\ g.todo = <<>> \/ stop \/ refused
                            /\ Settled(g, c, good, enters(refused))
      \/ host' = g /\ g.todo # <<>>
  BY Zenon DEF Ends
<1>5. stop => c.op # "Open"
  <2>1. rq.req # "ENABLEPROG"
    BY <1>3, RequestsAre DEF MemoryRequests, Memory, Standards
  <2> QED
    BY <2>1
<1>6. c.op = "Open" /\ mode.bus = "spi" /\ Tail(h.todo) = <<>> => rq.req = "SPI_CONNECT"
  <2>1. SUFFICES ASSUME Tail(h.todo) = <<>>, c.op = "Open", mode.bus = "spi" PROVE rq.req = "SPI_CONNECT"
    OBVIOUS
  <2>2. Len(Tail(h.todo)) = Len(h.todo) - 1 /\ Len(h.todo) \in Nat
    BY <1>2, SeqTail, SeqLen DEF HostOK
  <2>3. Len(h.todo) = 1
    <3>1. Len(Tail(h.todo)) = 0
      BY <2>1, SeqShort, Zenon
    <3> DEFINE n == Len(h.todo)
               m == Len(Tail(h.todo))
    <3>2. m = n - 1 /\ n \in Nat /\ m = 0
      BY <2>2, <3>1, Zenon
    <3> HIDE DEF n, m
    <3>3. n = 1
      BY <3>2
    <3> QED
      BY <3>3 DEF n
  <2> QED
    BY <1>2, <2>1, <2>3 DEF Ordered, Last
<1> HIDE DEF g, stop
<1>7. ASSUME NEW refused, NEW good, g.todo = <<>> \/ stop \/ refused, Settled(g, c, good, enters(refused))
      PROVE  /\ Ordered(host')
             /\ mode.bus = "spi" /\ host'.entered /\ host'.call.op # "Close" =>
                  (h.entered /\ h.call.op # "Close") \/ Head(h.todo).req = "SPI_CONNECT"
  <2>1. host'.todo = <<>> /\ host'.call = NoCall /\ (host'.entered <=> enters(refused))
    BY <1>1, <1>7 DEF Settled, HostFields
  <2>2. Ordered(host')
    <3>1. DOMAIN <<>> = {}
      BY SeqShort, SeqLen
    <3>2. NoCall.op = "none"
      BY DEF NoCall
    <3> QED
      BY <2>1, <3>1, <3>2 DEF Ordered, IsJob
  <2>3. mode.bus = "spi" /\ enters(refused) =>
          (h.entered /\ h.call.op # "Close") \/ Head(h.todo).req = "SPI_CONNECT"
    <3>1. CASE c.op = "Open"
      BY <1>1, <1>5, <1>6, <1>7, <3>1
    <3>2. CASE c.op # "Open"
      BY <3>2
    <3> QED
      BY <3>1, <3>2
  <2> HIDE DEF enters
  <2> QED
    BY <2>1, <2>2, <2>3, Zenon
<1>8. CASE host' = g /\ g.todo # <<>>
  <2>1. /\ host'.todo = Tail(h.todo) /\ host'.call = h.call /\ (host'.entered <=> h.entered)
        /\ Tail(h.todo) # <<>>
    BY <1>1, <1>8
  <2>2. \A i \in DOMAIN Tail(h.todo) : i + 1 \in DOMAIN h.todo /\ Tail(h.todo)[i] = h.todo[i + 1]
    BY <1>2, SeqTail
  <2>3. \A i \in DOMAIN Tail(h.todo) : Tail(h.todo)[i].req \in Requests(mode.bus, h.call.op)
    BY <2>2, Zenon DEF Ordered
  <2>4. Last(Tail(h.todo)) = Last(h.todo)
    <3>1. /\ Len(Tail(h.todo)) = Len(h.todo) - 1 /\ Len(h.todo) \in Nat /\ IsSeq(Tail(h.todo))
      BY <1>2, SeqTail, SeqLen DEF HostOK
    <3>2. Len(Tail(h.todo)) \in DOMAIN Tail(h.todo)
      BY <2>1, <3>1, SeqLen
    <3> QED
      BY <2>2, <3>1, <3>2 DEF Last
  <2>5. Ordered(host')
    BY <2>1, <2>3, <2>4, Zenon DEF Ordered
  <2> QED
    BY <2>1, <2>5, Zenon
<1> QED
  BY <1>4, <1>7, <1>8, Zenon

-----------------------------------------------------------------------------
(***************************************************************************)
(* The driver.                                                             *)
(***************************************************************************)
\* A program started anew has nothing to do with the transfer.
LEMMA RunningStep ==
  ASSUME NEW h, NEW e, StepOK(h, e), e.rx.pid # "SETUP",
         Serves(h, e) /\ Head(h.todo).req = "SETISPSCK" => e.fw.pins.cpu # "restart"
  PROVE  StepOK(h, Running(e))
<1>1. CASE e.fw.pins.cpu # "restart"
  BY <1>1 DEF Running
<1>2. CASE e.fw.pins.cpu = "restart"
  <2> DEFINE d == [PoweredUp EXCEPT !.fw.pins.wire = e.fw.pins.wire]
  <2>1. Running(e) = d
    BY <1>2 DEF Running
  <2>2. /\ d.rx = Nothing /\ d.tx = Nak /\ d.userRW = FALSE /\ d.fw.state = Idle
        /\ DOMAIN d.fw.pins = PinFields /\ d.fw.pins.transmit = "unset"
    BY DEF PoweredUp, Static, PowerUp, PinFields
  <2> HIDE DEF d
  <2>3. Returns(d.fw.pins) /\ PinsOK(d.fw.pins)
    BY <2>2 DEF Returns, PinsOK
  <2>4. Ordered(h) /\ Connected(h, d) /\ OneWay(h, d)
    BY <2>2, <2>3 DEF StepOK, Connected, OneWay
  <2>5. Counted(h, d)
    BY <2>2 DEF Counted
  <2>6. Serves(h, d) /\ Head(h.todo).req = "SETISPSCK" => FALSE
    BY <1>2 DEF Serves
  <2>7. InTurn(h, d) /\ Told(h, d)
    BY <2>2, <2>6 DEF StepOK, InTurn, Told
  <2> QED
    BY <2>1, <2>2, <2>3, <2>4, <2>5, <2>7 DEF StepOK
<1> QED
  BY <1>1, <1>2

\* While a memory's bytes are counted, the SPI unit is running if they need it.
LEMMA BytesReturn ==
  ASSUME mode \in Modes, mode.bus # "isp", NEW h, HostOK(h), NEW d, StepOK(h, d), Serves(h, d), d.userRW
  PROVE  d.fw.state \in {"SPI_READ", "SPI_WRITE"} => Returns(d.fw.pins)
<1> DEFINE rq == Head(h.todo)
<1>1. SUFFICES ASSUME d.fw.state \in {"SPI_READ", "SPI_WRITE"} PROVE Returns(d.fw.pins)
  OBVIOUS
<1>2. d.fw.state = rq.req /\ rq.req \in Memory
  BY <1>1 DEF StepOK, Counted, Idle
<1>3. h.todo # <<>> /\ IsSeq(h.todo)
  BY DEF HostOK, Serves
<1>4. rq = h.todo[1] /\ 1 \in DOMAIN h.todo
  BY <1>3, SeqTail
<1>5. rq.req \in Requests(mode.bus, h.call.op) /\ h.call.op # "none"
  BY <1>3, <1>4 DEF StepOK, Ordered
<1>6. h.call.op \notin {"Attach", "Open", "Close", "none"} /\ mode.bus = "spi"
  BY <1>1, <1>2, <1>5, RequestsAre
<1>7. h.entered
  BY <1>6 DEF StepOK, Ordered, IsJob
<1> QED
  BY <1>6, <1>7 DEF StepOK, Connected

\* usbPoll: the next packet.
LEMMA PollTxSteps ==
  ASSUME mode \in Modes, mode.bus # "isp", HostOK(host), DevOK(dev), StepOK(host, dev), PollTx
  PROVE  StepOK(host, dev')
<1> DEFINE h     == host
           d     == dev
           e     == usbBuildTxBlock(d)
           want  == Want(d)
           user  == d.userRW /\ want > 0
           error == user /\ d.fw.state \notin Readable
           r     == IF user /\ ~error THEN usbFunctionRead(d.fw, want)
                    ELSE [fw |-> d.fw, data |-> SubSeq(d.msg, 1, want)]
           last  == error \/ EndsMessage(Len(r.data))
           t     == IF error THEN Stall ELSE [pid |-> "DATA", toggle |-> Flip(d.toggle), data |-> r.data]
           rest  == IF user THEN d.msg ELSE SubSeq(d.msg, want + 1, Len(d.msg))
<1>0. /\ dev' = Running(e) /\ d.rx = Nothing /\ d.tx \in {Nak, Stall} /\ d.msgLen # NoMsg
      /\ d.fw.pins.cpu = "running"
  BY DEF PollTx, TxPending, Loops
<1>1. /\ FwOK(d.fw) /\ d.msgLen \in Int /\ d.msgLen >= NoMsg /\ IsSeq(d.msg)
      /\ ~d.userRW => d.msgLen <= Len(d.msg)
      /\ DOMAIN d = DevFields
  BY DEF DevOK
<1>2. d.msgLen \in Nat /\ PacketSize \in Nat /\ PacketSize >= 1
  BY <1>0, <1>1, UsbAspAssumption DEF NoMsg
<1>3. want \in Nat /\ want = (IF PacketSize < d.msgLen THEN PacketSize ELSE d.msgLen)
  BY <1>2 DEF Want, AtMost
<1>4. Len(d.msg) \in Nat
  BY <1>1, SeqLen
<1>5. e = IF r.fw.pins.cpu = "hung" THEN [d EXCEPT !.fw = r.fw]
          ELSE [d EXCEPT !.fw = r.fw, !.toggle = Flip(@), !.msg = rest,
                         !.msgLen = IF last THEN NoMsg ELSE @ - want, !.tx = t]
  BY Zenon DEF usbBuildTxBlock
<1> HIDE DEF e, want
<1>6. PinsOK(d.fw.pins) /\ d.fw.state \in Memory \cup {Idle}
  BY DEF StepOK
<1>7. CASE user /\ ~error
  <2>1. d.fw.state \in MemReads /\ d.fw.state \notin IspReads
    BY <1>6, <1>7, Names DEF MemReads, Memory, Idle, IspReads
  <2>2. r = usbFunctionRead(d.fw, want)
    BY <1>7
  <2> HIDE DEF r
  <2>3. Ran(d.fw, d.fw.pins, r.fw.pins)
    BY <1>1, <1>3, <1>6, <2>1, <2>2, ReadRuns
  <2>4. ReadFits(d.fw, want, r)
    BY <1>1, <1>3, <2>2, ReadKeeps
  <2>5. /\ r.fw.nbytes = d.fw.nbytes - Len(r.data) /\ Len(r.data) \in Nat
        /\ r.fw.state = d.fw.state \/ (r.fw.state = Idle /\ r.fw.nbytes = 0)
    BY <2>1, <2>4, SeqLen DEF ReadFits
  <2>6. PinsOK(r.fw.pins) /\ Keeps(d.fw.pins, r.fw.pins) /\ r.fw.state \in Memory \cup {Idle}
    BY <1>6, <2>3, <2>5 DEF Ran, Keeps
  <2>7. /\ DOMAIN e = DevFields /\ e.fw = r.fw /\ e.rx = d.rx /\ (e.userRW <=> d.userRW)
    BY <1>1, <1>5 DEF DevFields
  <2>8. Serves(h, e) <=> Serves(h, d)
    BY <2>7 DEF Serves
  <2>9. Connected(h, e) /\ OneWay(h, e) /\ Ordered(h)
    BY <2>6, <2>7, <2>8 DEF StepOK, Connected, OneWay, Keeps, Returns
  <2>10. CASE ~Serves(h, d)
    <3>1. InTurn(h, e) /\ Counted(h, e) /\ Told(h, e)
      BY <2>8, <2>10 DEF StepOK, InTurn, Counted, Told
    <3>2. StepOK(h, e)
      BY <2>6, <2>7, <2>9, <3>1 DEF StepOK
    <3> QED
      BY <1>0, <2>7, <2>8, <2>10, <3>2, RunningStep, EmptyBuffers
  <2>11. CASE Serves(h, d)
    <3>1. r.fw.pins.cpu # "hung"
      BY <1>0, <1>7, <2>3, <2>11, BytesReturn DEF Ran
    <3>2. /\ e.toggle = Flip(d.toggle) /\ e.tx = t /\ e.msgLen = (IF last THEN NoMsg ELSE d.msgLen - want)
      BY <1>1, <1>5, <3>1 DEF DevFields
    <3>3. t = [pid |-> "DATA", toggle |-> Flip(d.toggle), data |-> r.data]
      BY <1>7
    <3> HIDE DEF t, last
    <3>4. e.tx.pid = "DATA" /\ e.tx.toggle = Flip(d.toggle) /\ e.tx.data = r.data /\ e.tx # Stall
      BY <3>2, <3>3, EmptyBuffers
    <3>5. Head(h.todo).req # "SETISPSCK" /\ d.tx.pid # "DATA" /\ Nothing.pid # "OUT"
      BY <1>0, <1>7, <2>11, EmptyBuffers DEF StepOK, Counted, Memory
    <3>6. Head(h.todo).dir = "in" \/ Head(h.todo).dir # "in"
      OBVIOUS
    <3> DEFINE rq == Head(h.todo)
    <3>7. /\ rq.req \in Memory
          /\ d.fw.nbytes = rq.len + Flight(d) - (IF rq.dir = "out" THEN h.sent ELSE Len(h.got))
          /\ rq.dir = "out" => d.msgLen \in {NoMsg, 0}
          /\ rq.dir = "in" /\ d.tx = Stall => d.msgLen = NoMsg
          /\ d.fw.state = rq.req \/ (d.fw.state = Idle /\ d.fw.nbytes = 0)
      BY <1>7, <2>11 DEF StepOK, Counted
    <3>8. rq.dir = "in" /\ rq.len \in Nat /\ Len(h.got) \in Nat
      <4>1. rq.dir # "out"
        BY <1>0, <1>3, <1>7, <3>7
      <4>2. IsSeq(h.got) /\ Asks(rq)
        BY <2>11, SeqTail DEF HostOK, Serves
      <4> QED
        BY <4>1, <4>2, SeqLen DEF Asks
    <3>9. Flight(d) = 0 /\ Flight(e) = -Len(r.data)
      BY <1>0, <2>7, <3>4, <3>5 DEF Flight
    <3>10. InTurn(h, e)
      BY <1>0, <1>7, <2>8, <3>4, <3>5, <3>7, <3>8, <3>2 DEF StepOK, InTurn
    <3>11. Told(h, e)
      BY <3>5, <3>7 DEF Told
    <3> HIDE DEF rq
    <3>12. r.fw.nbytes = rq.len + Flight(e) - Len(h.got)
      <4> DEFINE n == d.fw.nbytes
                 m == rq.len
                 g == Len(h.got)
                 b == Len(r.data)
      <4>1. n = m - g
        BY <3>7, <3>8, <3>9
      <4>2. r.fw.nbytes = n - b /\ Flight(e) = -b /\ b \in Nat /\ n \in Nat /\ m \in Nat /\ g \in Nat
        BY <1>1, <2>5, <3>8, <3>9 DEF FwOK
      <4> HIDE DEF n, m, g, b
      <4>3. r.fw.nbytes = m + Flight(e) - g
        BY <4>1, <4>2
      <4> QED
        BY <4>3 DEF m, g
    <3>13. r.fw.state = rq.req \/ (r.fw.state = Idle /\ r.fw.nbytes = 0)
      <4>1. CASE d.fw.state = rq.req
        BY <2>5, <4>1
      <4>2. CASE d.fw.state = Idle
        BY <2>1, <4>2 DEF MemReads, Idle
      <4> QED
        BY <3>7, <4>1, <4>2
    <3>14. Counted(h, e)
      BY <2>7, <3>4, <3>7, <3>8, <3>12, <3>13 DEF Counted, rq
    <3>15. StepOK(h, e)
      BY <2>6, <2>7, <2>9, <3>10, <3>11, <3>14 DEF StepOK
    <3> QED
      BY <1>0, <2>7, <3>5, <3>15, RunningStep, EmptyBuffers
  <2> QED
    BY <2>10, <2>11
<1>8. CASE ~(user /\ ~error)
  <2>1. r.fw = d.fw /\ r.data = SubSeq(d.msg, 1, want)
    BY <1>8
  <2>2. /\ DOMAIN e = DevFields /\ e.fw = d.fw /\ e.rx = d.rx /\ (e.userRW <=> d.userRW)
        /\ e.toggle = Flip(d.toggle) /\ e.tx = t /\ e.msgLen = (IF last THEN NoMsg ELSE d.msgLen - want)
    BY <1>0, <1>1, <1>5, <2>1 DEF DevFields
  <2>3. Serves(h, e) <=> Serves(h, d)
    BY <2>2 DEF Serves
  <2>4. Connected(h, e) /\ OneWay(h, e) /\ Ordered(h)
    BY <2>2, <2>3 DEF StepOK, Connected, OneWay
  <2>5. d.tx.pid # "DATA" /\ Nothing.pid # "OUT"
    BY <1>0, EmptyBuffers
  <2>6. Flight(d) = 0
    BY <1>0, <2>5 DEF Flight
  <2>7. CASE error
    <3>1. t = Stall /\ last
      BY <2>7
    <3> HIDE DEF t, last, r, rest
    <3>2. d.userRW
      BY <2>7
    <3>3. e.tx = Stall /\ e.msgLen = NoMsg
      BY <2>2, <3>1
    <3>4. Flight(e) = 0
      BY <1>0, <2>2, <2>5, <3>3, EmptyBuffers DEF Flight
    <3>5. InTurn(h, e)
      BY <3>3 DEF InTurn
    <3>6. Counted(h, e)
      BY <2>2, <2>3, <2>6, <3>2, <3>3, <3>4, EmptyBuffers DEF StepOK, Counted
    <3>7. Told(h, e)
      BY <2>3, <3>2 DEF StepOK, Told
    <3> QED
      BY <1>0, <2>2, <2>4, <1>6, <3>5, <3>6, <3>7, RunningStep, EmptyBuffers DEF StepOK
  <2>8. CASE ~error
    <3>1. ~user
      BY <1>8, <2>8
    <3>2. t = [pid |-> "DATA", toggle |-> Flip(d.toggle), data |-> r.data]
      BY <2>8
    <3> HIDE DEF t, last, r, rest
    <3>3. e.tx.pid = "DATA" /\ e.tx.toggle = Flip(d.toggle) /\ e.tx.data = r.data /\ e.tx # Stall
      BY <2>2, <3>2, EmptyBuffers
    <3>4. want <= Len(d.msg)
      BY <1>1, <1>2, <1>3, <1>4, <3>1
    <3>5. Len(r.data) = want
      <4>1. Len(SubSeq(d.msg, 1, want)) = IF want >= 1 THEN want - 1 + 1 ELSE 0
        BY <1>1, <1>3, <3>4, SeqPart
      <4> QED
        BY <1>3, <2>1, <4>1
    <3>6. d.userRW => want = 0
      BY <1>3, <3>1
    <3>7. d.userRW => Flight(e) = 0
      <4>1. Flight(e) = -Len(r.data)
        BY <1>0, <2>2, <2>5, <3>3 DEF Flight
      <4>2. Flight(e) = -want
        BY <3>5, <4>1
      <4>3. want = 0 => Flight(e) = 0
        BY <1>3, <4>2
      <4> QED
        BY <3>6, <4>3, Zenon
    <3>8. InTurn(h, e)
      <4>1. SUFFICES ASSUME Serves(h, d), h.phase = "data", Head(h.todo).dir = "in",
                            d.userRW \/ Head(h.todo).req = "SETISPSCK"
                     PROVE  Flip(d.toggle) = h.toggle
        BY <2>2, <2>3, <3>3 DEF InTurn
      <4>2. h.todo # <<>>
        BY <4>1 DEF HostOK
      <4>3. d.tx # Stall
        BY <1>0, <4>1, <4>2 DEF StepOK, Counted, Told
      <4> QED
        BY <2>5, <4>1, <4>3 DEF StepOK, InTurn
    <3>9. Told(h, e)
      <4>1. SUFFICES ASSUME Serves(h, d), h.phase = "data", h.todo # <<>>, Head(h.todo).req = "SETISPSCK"
                     PROVE  Len(r.data) = 1
        BY <2>2, <2>3, <3>3 DEF StepOK, Told
      <4>2. d.msgLen = 1
        BY <2>5, <4>1 DEF StepOK, Told
      <4> QED
        BY <1>2, <1>3, <3>5, <4>2
    <3>10. Counted(h, e)
      <4>1. SUFFICES ASSUME Serves(h, d), d.userRW PROVE Counted(h, e)
        BY <2>2, <2>3 DEF Counted
      <4>2. Len(e.tx.data) = 0 /\ (Head(h.todo).dir = "out" => e.msgLen \in {NoMsg, 0})
        <5>1. Head(h.todo).dir = "out" => d.msgLen = 0
          BY <1>0, <4>1 DEF StepOK, Counted
        <5> QED
          BY <1>3, <2>2, <3>3, <3>5, <3>6, <4>1, <5>1
      <4> QED
        BY <2>2, <2>3, <2>6, <3>3, <3>7, <4>1, <4>2 DEF StepOK, Counted
    <3> QED
      BY <1>0, <2>2, <2>4, <1>6, <3>8, <3>9, <3>10, RunningStep, EmptyBuffers DEF StepOK
  <2> QED
    BY <2>7, <2>8
<1> QED
  BY <1>7, <1>8

\* What serving a request does to the driver's fields.
LEMMA SetupDetails ==
  ASSUME NEW d, DevOK(d), NEW rq, Asks(rq)
  PROVE  LET e == SetupReceived(d, rq)
             r == usbFunctionSetup(d.fw, rq)
         IN  /\ DOMAIN e = DevFields /\ e.toggle = 0 /\ e.tx = Nak /\ e.rx = Nothing
             /\ rq.type = "standard" => e.fw = d.fw /\ ~e.userRW
             /\ rq.type = "vendor" =>
                  /\ e.fw = r.fw
                  /\ e.userRW <=> rq.req \in Readable \cup Writable
                  /\ e.userRW => e.msgLen = IF rq.dir = "in" THEN rq.len ELSE NoMsg
                  /\ ~e.userRW => e.msgLen = AtMost(Len(r.reply), rq.len)
<1> DEFINE e  == SetupReceived(d, rq)
           d0 == [d EXCEPT !.toggle = 0, !.tx = Nak, !.userRW = FALSE, !.rx = Nothing]
           r  == usbFunctionSetup(d.fw, rq)
           d1 == IF rq.type = "standard" THEN usbDriverSetup(d0, rq)
                 ELSE [d0 EXCEPT !.fw = r.fw, !.msg = r.reply]
<1>1. /\ DOMAIN d0 = DevFields /\ d0.toggle = 0 /\ d0.tx = Nak /\ d0.userRW = FALSE /\ d0.rx = Nothing
      /\ d0.fw = d.fw
  BY DEF DevOK, DevFields
<1>2. e = IF rq.type = "vendor" /\ r.user
          THEN [d1 EXCEPT !.userRW = TRUE, !.msgLen = IF rq.dir = "in" THEN rq.len ELSE NoMsg]
          ELSE [d1 EXCEPT !.msgLen = AtMost(Len(d1.msg), rq.len)]
  BY DEF SetupReceived
<1>3. rq.type = "vendor" => (r.user <=> rq.req \in Readable \cup Writable)
  BY SetupKeeps DEF SetupFits, DevOK
<1> HIDE DEF e, d0, r
<1>4. CASE rq.type = "standard"
  <2>1. rq.req \in Standards
    BY <1>4 DEF Asks
  <2>2. \E a, b, m : d1 \in {[d0 EXCEPT !.newAddr = a, !.msg = <<>>], [d0 EXCEPT !.config = b, !.msg = <<>>],
                           [d0 EXCEPT !.msg = m]}
    BY <1>4, <2>1 DEF usbDriverSetup, Standards
  <2> HIDE DEF d1
  <2>3. /\ DOMAIN d1 = DevFields /\ d1.toggle = 0 /\ d1.tx = Nak /\ d1.userRW = FALSE /\ d1.rx = Nothing
        /\ d1.fw = d.fw
    BY <2>2, <1>1 DEF DevFields
  <2>4. e = [d1 EXCEPT !.msgLen = AtMost(Len(d1.msg), rq.len)]
    BY <1>2, <1>4
  <2>5. /\ DOMAIN e = DevFields /\ e.toggle = 0 /\ e.tx = Nak /\ e.userRW = FALSE /\ e.rx = Nothing
        /\ e.fw = d.fw
    BY <2>3, <2>4 DEF DevFields
  <2> QED
    BY <1>4, <2>5 DEF e
<1>5. CASE rq.type = "vendor"
  <2>1. /\ DOMAIN d1 = DevFields /\ d1.toggle = 0 /\ d1.tx = Nak /\ d1.userRW = FALSE /\ d1.rx = Nothing
        /\ d1.fw = r.fw /\ d1.msg = r.reply
    BY <1>1, <1>5 DEF DevFields
  <2> HIDE DEF d1
  <2>2. CASE r.user
    <3>1. /\ DOMAIN e = DevFields /\ e.toggle = 0 /\ e.tx = Nak /\ e.userRW = TRUE /\ e.rx = Nothing
          /\ e.fw = r.fw /\ e.msgLen = IF rq.dir = "in" THEN rq.len ELSE NoMsg
      BY <1>2, <1>5, <2>1, <2>2 DEF DevFields
    <3> QED
      BY <1>3, <1>5, <2>2, <3>1 DEF e, r
  <2>3. CASE ~r.user
    <3>1. /\ DOMAIN e = DevFields /\ e.toggle = 0 /\ e.tx = Nak /\ e.userRW = FALSE /\ e.rx = Nothing
          /\ e.fw = r.fw /\ e.msgLen = AtMost(Len(r.reply), rq.len)
      BY <1>2, <2>1, <2>3 DEF DevFields
    <3> QED
      BY <1>3, <1>5, <2>3, <3>1 DEF e, r
  <2> QED
    BY <2>2, <2>3
<1> QED
  BY <1>4, <1>5 DEF Asks

\* usbPoll: a request.
LEMMA SetupSteps ==
  ASSUME mode \in Modes, mode.bus # "isp", HostOK(host), DevOK(dev), Fetching(host, dev),
         StepOK(host, dev), PollRx, dev.rx.pid = "SETUP"
  PROVE  StepOK(host, dev')
<1> DEFINE h  == host
           d  == dev
           rq == Head(h.todo)
           e  == SetupReceived(d, rq)
           r  == usbFunctionSetup(d.fw, rq)
<1>1. h.phase # "setup" /\ h.todo # <<>> /\ IsSeq(h.todo) /\ \A i \in DOMAIN h.todo : Asks(h.todo[i])
  BY EmptyBuffers DEF StepOK, HostOK
<1>2. d.rx.data = rq /\ h.sent = 0 /\ h.got = <<>> /\ h.toggle = 1
  BY <1>1 DEF Fetching
<1>3. rq = h.todo[1] /\ 1 \in DOMAIN h.todo
  BY <1>1, SeqTail
<1>4. Asks(rq) /\ rq.req \in Requests(mode.bus, h.call.op) /\ h.call.op # "none" /\ rq.len \in Nat
  BY <1>1, <1>3 DEF StepOK, Ordered, Asks
<1>5. dev' = Running(e) /\ d.fw.pins.cpu = "running"
  BY <1>2 DEF PollRx, RxPending, Loops, usbProcessRx
<1> HIDE DEF rq
<1>6. /\ DOMAIN e = DevFields /\ e.toggle = 0 /\ e.tx = Nak /\ e.rx = Nothing
      /\ rq.type = "standard" => e.fw = d.fw /\ ~e.userRW
      /\ rq.type = "vendor" =>
           /\ e.fw = r.fw
           /\ e.userRW <=> rq.req \in Readable \cup Writable
           /\ e.userRW => e.msgLen = IF rq.dir = "in" THEN rq.len ELSE NoMsg
           /\ ~e.userRW => e.msgLen = AtMost(Len(r.reply), rq.len)
  BY <1>4, SetupDetails
<1>7. Serves(h, e) /\ e.tx.pid # "DATA" /\ e.rx.pid \notin {"SETUP", "OUT"} /\ e.tx # Stall
  BY <1>1, <1>6, EmptyBuffers DEF Serves
<1>8. OneWay(h, e) /\ Ordered(h)
  BY <1>6 DEF StepOK, OneWay
<1>9. Flip(0) = 1 /\ Len(h.got) = 0
  BY <1>2, SeqShort DEF Flip
<1>10. InTurn(h, e)
  BY <1>2, <1>6, <1>7, <1>9 DEF InTurn
<1>11. FwOK(d.fw) /\ PinsOK(d.fw.pins) /\ d.fw.state \in Memory \cup {Idle}
  BY DEF DevOK, StepOK
<1>12. Flight(e) = 0
  BY <1>7 DEF Flight
<1>13. CASE rq.type = "standard"
  <2>1. rq.req \in Standards
    BY <1>4, <1>13 DEF Asks, Standards
  <2>2. rq.req \notin {"SETISPSCK", "SPI_CONNECT"}
    BY <2>1 DEF Standards
  <2>3. e.fw = d.fw /\ ~e.userRW
    BY <1>6, <1>13
  <2>4. Connected(h, e)
    BY <2>2, <2>3 DEF StepOK, Connected, rq
  <2>5. Told(h, e) /\ Counted(h, e)
    BY <2>2, <2>3 DEF Told, Counted, rq
  <2>6. StepOK(h, e)
    BY <1>6, <1>8, <1>10, <1>11, <2>3, <2>4, <2>5 DEF StepOK
  <2> QED
    BY <1>5, <1>7, <2>2, <2>6, RunningStep DEF rq
<1>14. CASE rq.type = "vendor"
  <2>1. rq.req \in Vendors /\ rq.req \notin Standards
    BY <1>4, <1>14 DEF Asks, Vendors, Standards, Memory, IspReads, IspWrites, Atomic
  <2>2. rq.req \in MemoryRequests
    BY <1>4, <2>1, RequestsAre
  <2>3. /\ PinsOK(r.fw.pins)
        /\ r.fw.state = d.fw.state \/ (r.fw.state = rq.req /\ rq.req \in Memory)
        /\ rq.req \in {"SPI_READ", "SPI_WRITE"} => Keeps(d.fw.pins, r.fw.pins)
        /\ rq.req = "SPI_CONNECT" => Returns(r.fw.pins)
        /\ rq.req = "SETISPSCK" => r.fw.pins = d.fw.pins
    BY <1>11, <2>2, SetupRuns
  <2>4. SetupFits(d.fw, rq, r)
    BY <1>4, <1>11, <1>14, SetupKeeps
  <2>5. e.fw = r.fw /\ (e.userRW <=> rq.req \in Memory)
    BY <1>6, <1>14, <2>2, Names DEF MemoryRequests, Memory
  <2> HIDE DEF e, r
  <2>6. Connected(h, e)
    <3>1. SUFFICES ASSUME mode.bus = "spi", h.entered, h.call.op # "Close" PROVE Returns(r.fw.pins)
      BY <2>3, <2>5 DEF Connected, rq
    <3>2. h.call.op \notin {"Attach", "Open"}
      BY <3>1 DEF StepOK, Ordered
    <3>3. rq.req \in {"SPI_READ", "SPI_WRITE"}
      BY <1>4, <3>1, <3>2, RequestsAre
    <3>4. Returns(d.fw.pins)
      BY <3>1 DEF StepOK, Connected
    <3> QED
      BY <2>3, <3>3, <3>4 DEF Keeps, Returns
  <2>7. Told(h, e)
    <3>1. SUFFICES ASSUME rq.req = "SETISPSCK" PROVE Told(h, e)
      BY DEF Told, rq
    <3>2. ~e.userRW
      BY <2>5, <3>1 DEF Memory
    <3>3. Len(r.reply) = 1 /\ rq.len = 1
      BY <1>4, <2>4, <3>1 DEF SetupFits, Asks
    <3>4. e.msgLen = 1
      BY <1>6, <1>14, <3>2, <3>3 DEF AtMost
    <3> QED
      BY <1>1, <1>7, <1>9, <3>1, <3>2, <3>4 DEF StepOK, Told, rq
  <2>8. Counted(h, e)
    <3>1. SUFFICES ASSUME rq.req \in Memory, e.userRW PROVE Counted(h, e)
      BY <2>5 DEF Counted
    <3>2. r.fw.nbytes = rq.len /\ r.fw.state = rq.req
      BY <2>4, <3>1 DEF SetupFits
    <3>3. e.msgLen = IF rq.dir = "in" THEN rq.len ELSE NoMsg
      BY <1>6, <1>14, <3>1
    <3>4. rq.len = rq.len + Flight(e) - (IF rq.dir = "out" THEN h.sent ELSE Len(h.got))
      BY <1>2, <1>4, <1>9, <1>12
    <3>5. rq.dir = "out" => rq.dir # "in"
      OBVIOUS
    <3> QED
      BY <1>7, <2>5, <3>1, <3>2, <3>3, <3>4, <3>5 DEF Counted, rq
  <2>9. e.fw.state \in Memory \cup {Idle}
    BY <1>11, <2>3, <2>5
  <2>10. StepOK(h, e)
    BY <1>6, <1>8, <1>10, <2>3, <2>5, <2>6, <2>7, <2>8, <2>9 DEF StepOK
  <2>11. rq.req = "SETISPSCK" => e.fw.pins.cpu # "restart"
    BY <1>5, <2>3, <2>5
  <2> QED
    BY <1>5, <1>7, <2>10, <2>11, RunningStep DEF rq
<1> QED
  BY <1>4, <1>13, <1>14 DEF Asks

\* usbPoll: data of the host.
LEMMA OutSteps ==
  ASSUME mode \in Modes, mode.bus # "isp", HostOK(host), DevOK(dev),
         StepOK(host, dev), PollRx, dev.rx.pid # "SETUP"
  PROVE  StepOK(host, dev')
<1> DEFINE h    == host
           d    == dev
           data == d.rx.data
           e    == OutReceived(d, data)
           d0   == [d EXCEPT !.rx = Nothing]
           fw   == usbFunctionWrite(d.fw, data)
           rq   == Head(h.todo)
<1>1. dev' = Running(e) /\ d.rx # Nothing /\ d.fw.pins.cpu = "running"
  BY DEF PollRx, RxPending, Loops, usbProcessRx
<1>2. d.rx.pid = "OUT" /\ IsSeq(data) /\ Len(data) \in Nat
  <2>1. RxOK(d.rx)
    BY DEF DevOK
  <2>2. d.rx.pid = "OUT" /\ IsSeq(data)
    BY <1>1, <2>1 DEF RxOK
  <2> QED
    BY <2>2, SeqLen
<1>3. h.phase # "setup" /\ Serves(h, d) /\ h.todo # <<>> /\ IsSeq(h.todo) /\ Asks(rq)
  <2>1. h.phase # "setup"
    BY <1>1 DEF StepOK
  <2> QED
    BY <2>1, SeqTail DEF HostOK, Serves
<1>4. rq.dir = "out" /\ rq.req # "SETISPSCK" /\ rq.len \in Nat
  BY <1>1, <1>3 DEF StepOK, OneWay, Asks
<1>5. FwOK(d.fw) /\ PinsOK(d.fw.pins) /\ d.fw.state \in Memory \cup {Idle} /\ DOMAIN d = DevFields
  BY DEF DevOK, StepOK
<1>6. e = IF ~d.userRW THEN d0
          ELSE IF d.fw.state \notin Writable THEN [d0 EXCEPT !.tx = Stall]
          ELSE IF fw.pins.cpu = "hung" THEN [d EXCEPT !.fw = fw]
          ELSE IF fw.nbytes = 0 \/ fw.state = Idle THEN [d0 EXCEPT !.fw = fw, !.msgLen = 0]
          ELSE [d0 EXCEPT !.fw = fw]
  BY DEF OutReceived
<1> HIDE DEF data, e, fw, rq
<1>7. ASSUME DOMAIN e = DevFields, e.rx = Nothing, PinsOK(e.fw.pins), Keeps(d.fw.pins, e.fw.pins),
             e.fw.state \in Memory \cup {Idle}, Counted(h, e)
      PROVE  StepOK(h, dev')
  <2>1. Serves(h, e) /\ e.rx.pid # "SETUP"
    BY <1>3, <1>7, EmptyBuffers DEF Serves
  <2>2. Ordered(h) /\ Connected(h, e) /\ OneWay(h, e)
    BY <1>3, <1>7, <2>1 DEF StepOK, Connected, OneWay, Keeps, Returns
  <2>3. InTurn(h, e) /\ Told(h, e)
    BY <1>4 DEF InTurn, Told, rq
  <2>4. StepOK(h, e)
    BY <1>3, <1>7, <2>2, <2>3 DEF StepOK
  <2> QED
    BY <1>1, <1>4, <2>1, <2>4, RunningStep DEF rq
<1>8. Keeps(d.fw.pins, d.fw.pins)
  BY <1>5, PinsKept
<1>9. CASE ~d.userRW
  <2>1. e = d0
    BY <1>6, <1>9
  <2>2. DOMAIN e = DevFields /\ e.rx = Nothing /\ e.fw = d.fw /\ (e.userRW <=> d.userRW)
    BY <1>5, <2>1 DEF DevFields
  <2>3. Counted(h, e)
    BY <1>9, <2>2 DEF Counted
  <2> QED
    BY <1>5, <1>7, <1>8, <2>2, <2>3
<1>10. ASSUME d.userRW
       PROVE  /\ rq.req \in Memory
              /\ d.fw.nbytes = rq.len + Len(data) - h.sent
              /\ d.msgLen \in {NoMsg, 0} /\ (d.tx.pid = "DATA" => Len(d.tx.data) = 0)
              /\ d.fw.state = rq.req \/ (d.fw.state = Idle /\ d.fw.nbytes = 0)
              /\ h.sent \in Nat /\ h.sent <= rq.len
  <2>1. Flight(d) = Len(data)
    BY <1>2 DEF Flight, data
  <2>2. h.sent \in Nat /\ h.sent <= rq.len
    BY <1>3 DEF HostOK, rq
  <2> QED
    BY <1>3, <1>4, <1>10, <2>1, <2>2 DEF StepOK, Counted, rq
<1>11. CASE d.userRW /\ d.fw.state \notin Writable
  <2>1. e = [d0 EXCEPT !.tx = Stall]
    BY <1>6, <1>11
  <2>2. /\ DOMAIN e = DevFields /\ e.rx = Nothing /\ e.fw = d.fw /\ e.tx = Stall /\ e.msgLen = d.msgLen
        /\ (e.userRW <=> d.userRW)
    BY <1>5, <2>1 DEF DevFields
  <2>3. d.fw.state # rq.req
    BY <1>3, <1>4, <1>10, <1>11, Names DEF Asks, Memory
  <2>4. d.fw.state = Idle /\ d.fw.nbytes = 0
    BY <1>10, <1>11, <2>3
  <2>5. rq.len + Len(data) - h.sent = 0 /\ Len(data) >= 0 /\ h.sent <= rq.len /\ h.sent \in Nat
    BY <1>2, <1>10, <1>11, <2>4
  <2>6. 0 = rq.len - h.sent
    BY <1>2, <1>4, <2>5
  <2>7. Flight(e) = 0
    BY <2>2, EmptyBuffers DEF Flight
  <2>8. Counted(h, e)
    <3>1. e.fw.nbytes = rq.len + Flight(e) - h.sent
      BY <1>4, <2>2, <2>4, <2>5, <2>6, <2>7
    <3>2. rq.req \in Memory /\ e.msgLen \in {NoMsg, 0} /\ e.tx.pid # "DATA" /\ e.fw.state = Idle /\ e.fw.nbytes = 0
      BY <1>10, <1>11, <2>2, <2>4, EmptyBuffers
    <3>3. rq.dir = "out" /\ rq.dir # "in"
      BY <1>4
    <3> QED
      BY <3>1, <3>2, <3>3 DEF Counted, rq
  <2> QED
    BY <1>5, <1>7, <1>8, <2>2, <2>8
<1>12. CASE d.userRW /\ d.fw.state \in Writable
  <2>1. d.fw.state \in MemWrites /\ d.fw.state \notin IspWrites /\ d.fw.state # Idle
    BY <1>5, <1>12, Names DEF MemWrites, Memory, Idle, IspWrites
  <2>2. d.fw.state = rq.req
    BY <1>10, <1>12, <2>1
  <2>3. Ran(d.fw, d.fw.pins, fw.pins)
    BY <1>2, <1>5, <2>1, WriteRuns DEF fw
  <2>4. WriteFits(d.fw, data, fw)
    BY <1>2, <1>5, WriteKeeps DEF fw
  <2>5. fw.pins.cpu # "hung"
    BY <1>1, <1>3, <1>12, <2>3, BytesReturn DEF Ran
  <2>6. PinsOK(fw.pins) /\ Keeps(d.fw.pins, fw.pins)
    BY <2>3 DEF Ran, Keeps
  <2>7. e \in {[d0 EXCEPT !.fw = fw, !.msgLen = 0], [d0 EXCEPT !.fw = fw]}
    BY <1>6, <1>12, <2>5
  <2>8. /\ DOMAIN e = DevFields /\ e.rx = Nothing /\ e.fw = fw /\ e.tx = d.tx /\ e.msgLen \in {d.msgLen, 0}
        /\ (e.userRW <=> d.userRW)
    BY <1>5, <2>7 DEF DevFields
  <2>9. d.fw.nbytes = rq.len + Len(data) - h.sent /\ h.sent \in Nat /\ h.sent <= rq.len
    BY <1>10, <1>12
  <2>10. Least(d.fw, Len(data)) = Len(data)
    BY <1>2, <1>4, <2>9 DEF Least
  <2>11. /\ fw.nbytes = d.fw.nbytes - Len(data)
         /\ fw.state = d.fw.state \/ (fw.state = Idle /\ fw.nbytes = 0)
    BY <2>1, <2>4, <2>10 DEF WriteFits
  <2>12. Flight(e) = 0
    <3>1. e.tx.pid = "DATA" => Len(e.tx.data) = 0
      BY <1>10, <1>12, <2>8
    <3>2. e.rx.pid # "OUT"
      BY <2>8, EmptyBuffers
    <3> QED
      BY <3>1, <3>2 DEF Flight
  <2>13. fw.nbytes = rq.len + Flight(e) - h.sent
    BY <1>2, <1>4, <2>9, <2>11, <2>12
  <2>14. Counted(h, e)
    <3>1. /\ rq.req \in Memory /\ e.msgLen \in {NoMsg, 0} /\ (e.tx.pid = "DATA" => Len(e.tx.data) = 0)
          /\ e.fw.state = rq.req \/ (e.fw.state = Idle /\ e.fw.nbytes = 0)
          /\ e.fw.nbytes = rq.len + Flight(e) - h.sent
      BY <1>10, <1>12, <2>2, <2>8, <2>11, <2>13
    <3>2. rq.dir = "out" /\ rq.dir # "in"
      BY <1>4
    <3> QED
      BY <3>1, <3>2 DEF Counted, rq
  <2>15. fw.state \in Memory \cup {Idle}
    BY <1>5, <2>11
  <2> QED
    BY <1>7, <2>6, <2>8, <2>14, <2>15
<1> QED
  BY <1>9, <1>11, <1>12

-----------------------------------------------------------------------------
(***************************************************************************)
(* The steps.                                                              *)
(***************************************************************************)
\* No transfer is under way: only what lasts from one to the next counts.
LEMMA BetweenTransfers ==
  ASSUME NEW h, h.phase = "setup", Ordered(h), NEW d, d.rx = Nothing,
         PinsOK(d.fw.pins), d.fw.state \in Memory \cup {Idle},
         mode.bus = "spi" /\ h.entered /\ h.call.op # "Close" => Returns(d.fw.pins)
  PROVE  StepOK(h, d)
<1>1. ~Serves(h, d) /\ h.phase # "status" /\ h.phase # "data"
  BY DEF Serves
<1>2. Connected(h, d)
  BY <1>1 DEF Connected
<1>3. OneWay(h, d) /\ InTurn(h, d) /\ Told(h, d) /\ Counted(h, d)
  BY <1>1 DEF OneWay, InTurn, Told, Counted
<1> QED
  BY <1>2, <1>3 DEF StepOK

\* A call is begun.
LEMMA BeginSteps ==
  ASSUME IInv, StepOK(host, dev), NEW c, c.op # "none",
         Script(Transfers(c), Requests(mode.bus, c.op)), host.made < MaxJobs \/ ~IsJob(c), Begin(c),
         IsJob(c) => host.entered, c.op \in {"Attach", "Open"} => ~host.entered,
         c.op = "Open" /\ mode.bus = "spi" => Last(Transfers(c)).req = "SPI_CONNECT"
  PROVE  StepOK(host', dev)
<1>1. c # NoCall
  BY DEF NoCall
<1>2. HostOK(host') /\ host'.todo = Transfers(c) /\ host'.phase = "setup"
  BY <1>1, BeginKeeps
<1>3. HostOK(host) /\ host.call = NoCall /\ host.phase = "setup" /\ host.call.op = "none"
  BY DEF IInv, Begin, HostOK, NoCall
<1>4. host'.call = c /\ (host'.entered <=> host.entered)
  BY <1>3 DEF Begin, HostOK, HostFields
<1>5. Ordered(host')
  BY <1>2, <1>4 DEF Ordered, Script
<1>6. dev.rx = Nothing
  BY <1>3 DEF StepOK
<1>7. mode.bus = "spi" /\ host'.entered => Returns(dev.fw.pins)
  BY <1>3, <1>4 DEF StepOK, Connected
<1> QED
  BY <1>2, <1>5, <1>6, <1>7, BetweenTransfers DEF StepOK

\* A transfer ends, with nothing more on its way to the device.
LEMMA EndsSteps ==
  ASSUME mode \in Modes, mode.bus # "isp", port \in Ports, NEW h, HostOK(h), h.todo # <<>>, h.phase # "setup",
         NEW d, d.rx = Nothing, PinsOK(d.fw.pins), d.fw.state \in Memory \cup {Idle},
         Ordered(h), Connected(h, d), NEW result, NEW got, Ends(h, result, got),
         Head(h.todo).req = "SETISPSCK" => result = Head(h.todo).len
  PROVE  StepOK(host', d)
<1>1. host'.phase = "setup"
  BY EndsKeeps
<1>2. /\ Ordered(host')
      /\ mode.bus = "spi" /\ host'.entered /\ host'.call.op # "Close" =>
           (h.entered /\ h.call.op # "Close") \/ Head(h.todo).req = "SPI_CONNECT"
  BY EndsOrdered
<1>3. Serves(h, d)
  BY EmptyBuffers DEF Serves
<1>4. mode.bus = "spi" /\ host'.entered /\ host'.call.op # "Close" => Returns(d.fw.pins)
  BY <1>2, <1>3 DEF Connected
<1> QED
  BY <1>1, <1>2, <1>4, BetweenTransfers

\* A request is sent.
LEMMA SendSetupSteps ==
  ASSUME IInv, StepOK(host, dev), SendSetup
  PROVE  StepOK(host', dev')
<1>1. HostOK(host) /\ DevOK(dev) /\ host.todo # <<>> /\ dev.rx = Nothing /\ host.phase = "setup"
  BY DEF IInv, SendSetup, Listens
<1>2. dev'.rx.pid = "SETUP" /\ dev'.fw = dev.fw
  <2> DEFINE r == [pid |-> "SETUP", data |-> Request]
  <2>1. dev' = [dev EXCEPT !.rx = r] /\ r.pid = "SETUP"
    BY <1>1 DEF SendSetup, Taken
  <2> HIDE DEF r
  <2> QED
    BY <1>1, <2>1 DEF DevOK, DevFields
<1>3. /\ host'.phase = (IF Request.len = 0 THEN "status" ELSE "data")
      /\ host'.todo = host.todo /\ host'.call = host.call /\ (host'.entered <=> host.entered)
  BY <1>1 DEF SendSetup, HostOK, HostFields
<1>4. ~Serves(host', dev') /\ host'.phase # "setup"
  BY <1>2, <1>3 DEF Serves
<1>5. Ordered(host')
  BY <1>3 DEF StepOK, Ordered
<1>6. Connected(host', dev')
  BY <1>2, <1>3, <1>4 DEF StepOK, Connected
<1>7. Told(host', dev')
  <2>1. Asks(Request)
    BY <1>1, SeqTail DEF HostOK, Request
  <2>2. Head(host'.todo).req = "SETISPSCK" => host'.phase # "status"
    BY <1>3, <2>1 DEF Asks, Request
  <2> QED
    BY <1>4, <2>2 DEF Told
<1>8. OneWay(host', dev') /\ InTurn(host', dev') /\ Counted(host', dev')
  BY <1>4 DEF OneWay, InTurn, Counted
<1> QED
  BY <1>2, <1>4, <1>5, <1>6, <1>7, <1>8 DEF StepOK

\* Data are sent.
LEMMA SendDataSteps ==
  ASSUME IInv, StepOK(host, dev), SendData
  PROVE  StepOK(host', dev')
<1> DEFINE data == [i \in 1 .. Chunk |-> Byte(host.call.id, host.total + host.sent + i)]
           rq   == Head(host.todo)
<1>1. /\ HostOK(host) /\ DevOK(dev) /\ host.todo # <<>> /\ dev.rx = Nothing /\ host.phase = "data"
      /\ rq.dir = "out" /\ Listens /\ Speaks
  BY DEF IInv, SendData, Listens, Speaks, Request
<1>2. Chunk \in Nat
  BY <1>1, TakenFits
<1>3. Len(data) = Chunk
  <2>1. data = [i \in 1 .. Chunk |-> data[i]]
    OBVIOUS
  <2> HIDE DEF data
  <2> QED
    BY <1>2, <2>1, SeqBuilt
<1>4. /\ dev'.rx.pid = "OUT" /\ Len(dev'.rx.data) = Chunk /\ dev'.fw = dev.fw /\ dev'.tx = dev.tx
      /\ dev'.msgLen = dev.msgLen /\ (dev'.userRW <=> dev.userRW)
  <2> DEFINE r == [pid |-> "OUT", data |-> data]
  <2>1. dev' = [dev EXCEPT !.rx = r] /\ r.pid = "OUT" /\ r.data = data
    BY <1>1 DEF SendData, Taken
  <2> HIDE DEF r, data
  <2> QED
    BY <1>1, <1>3, <2>1 DEF DevOK, DevFields
<1>5. /\ host'.phase \in {"status", "data"} /\ host'.sent = host.sent + Chunk
      /\ host'.todo = host.todo /\ host'.call = host.call /\ (host'.entered <=> host.entered)
  BY <1>1 DEF SendData, HostOK, HostFields
<1>6. Serves(host, dev) /\ Serves(host', dev')
  BY <1>1, <1>4, <1>5, EmptyBuffers DEF Serves
<1> HIDE DEF data, rq
<1>7. Head(host'.todo) = rq /\ rq.dir # "in" /\ Asks(rq) /\ rq.req # "SETISPSCK" /\ rq.len \in Nat
  <2>1. Asks(rq)
    BY <1>1, SeqTail DEF HostOK, rq
  <2> QED
    BY <1>1, <1>5, <2>1 DEF Asks, rq
<1>8. Ordered(host')
  BY <1>5 DEF StepOK, Ordered
<1>9. Connected(host', dev')
  BY <1>4, <1>5, <1>6 DEF StepOK, Connected
<1>10. OneWay(host', dev') /\ InTurn(host', dev') /\ Told(host', dev')
  BY <1>7 DEF OneWay, InTurn, Told
<1>11. Counted(host', dev')
  <2>1. SUFFICES ASSUME dev.userRW PROVE Counted(host', dev')
    BY <1>4 DEF Counted
  <2>2. /\ rq.req \in Memory
        /\ dev.fw.nbytes = rq.len + Flight(dev) - host.sent
        /\ dev.msgLen \in {NoMsg, 0} /\ (dev.tx.pid = "DATA" => Len(dev.tx.data) = 0)
        /\ dev.fw.state = rq.req \/ (dev.fw.state = Idle /\ dev.fw.nbytes = 0)
    BY <1>1, <1>6, <2>1 DEF StepOK, Counted, rq
  <2>3. Flight(dev) = 0 /\ Flight(dev') = Chunk
    BY <1>1, <1>4, <2>2, EmptyBuffers DEF Flight
  <2>4. host.sent \in Nat
    BY <1>1 DEF HostOK
  <2>5. dev'.fw.nbytes = rq.len + Flight(dev') - host'.sent
    BY <1>2, <1>4, <1>5, <1>7, <2>2, <2>3, <2>4
  <2> QED
    BY <1>1, <1>4, <1>7, <2>2, <2>5 DEF Counted
<1> QED
  BY <1>4, <1>5, <1>8, <1>9, <1>10, <1>11 DEF StepOK

\* The device has sent its packet.
LEMMA SentDetails ==
  ASSUME NEW d, DevOK(d), NEW e, e = Sent(d)
  PROVE  /\ e.rx = d.rx /\ e.tx = Nak /\ e.fw = d.fw /\ e.msgLen = d.msgLen /\ e.toggle = d.toggle
         /\ e.userRW <=> d.userRW
  BY DEF Sent, DevOK, DevFields

\* Data are received: none is taken for a repetition.
LEMMA ReceiveSteps ==
  ASSUME IInv, StepOK(host, dev), ReceiveData
  PROVE  StepOK(host', dev')
<1> DEFINE got  == host.got \o dev.tx.data
           done == Len(dev.tx.data) < PacketSize \/ Len(got) = Request.len
           rq   == Head(host.todo)
           p    == IF done THEN "status" ELSE "data"
<1>1. /\ HostOK(host) /\ DevOK(dev) /\ host.todo # <<>> /\ dev.rx = Nothing /\ host.phase = "data"
      /\ rq.dir = "in" /\ dev' = Sent(dev) /\ dev.tx \notin {Nak, Stall}
  BY DEF IInv, ReceiveData, Offers, Listens, Request
<1>2. /\ dev'.rx = dev.rx /\ dev'.tx = Nak /\ dev'.fw = dev.fw /\ dev'.msgLen = dev.msgLen
      /\ dev'.toggle = dev.toggle /\ (dev'.userRW <=> dev.userRW)
  BY <1>1, SentDetails
<1>3. dev.tx.pid = "DATA"
  BY <1>1, OfferedIs
<1>4. host' = IF dev.tx.toggle # host.toggle THEN host
              ELSE [host EXCEPT !.got = got, !.toggle = Flip(@), !.phase = p]
  BY DEF ReceiveData
<1> HIDE DEF got, p
<1>5. /\ host'.todo = host.todo /\ host'.call = host.call /\ (host'.entered <=> host.entered)
      /\ host'.phase \in {"status", "data"}
      /\ dev.tx.toggle = host.toggle => host'.got = got /\ host'.toggle = Flip(host.toggle) /\ host'.phase = p
  <2>1. p \in {"status", "data"}
    BY DEF p
  <2> QED
    BY <1>1, <1>4, <2>1 DEF HostOK, HostFields
<1>6. Serves(host, dev) /\ Serves(host', dev')
  BY <1>1, <1>2, <1>5, EmptyBuffers DEF Serves
<1>7. Ordered(host')
  BY <1>5 DEF StepOK, Ordered
<1>8. Connected(host', dev')
  BY <1>2, <1>5, <1>6 DEF StepOK, Connected
<1>9. OneWay(host', dev')
  BY <1>1, <1>2 DEF OneWay
<1>10. dev'.tx.pid # "DATA" /\ dev'.tx # Stall
  BY <1>2, EmptyBuffers
<1>11. IsSeq(host.got) /\ IsSeq(dev.tx.data) /\ Len(dev.tx.data) \in Nat /\ Len(host.got) \in Nat
  BY <1>1, <1>3, OfferedIs, SeqLen DEF HostOK
<1>12. Len(got) = Len(host.got) + Len(dev.tx.data)
  BY <1>11, SeqConcat DEF got
<1>13. Asks(rq) /\ rq.len \in Nat
  BY <1>1, SeqTail DEF HostOK, Asks
<1>14. Head(host'.todo) = rq
  BY <1>5
<1>15. ASSUME dev.userRW \/ rq.req = "SETISPSCK"
       PROVE  dev.tx.toggle = host.toggle /\ dev.toggle = host.toggle
  BY <1>1, <1>3, <1>6, <1>15 DEF StepOK, InTurn
<1>16. InTurn(host', dev')
  BY <1>2, <1>5, <1>10, <1>14, <1>15 DEF InTurn
<1>17. Told(host', dev')
  <2>1. SUFFICES ASSUME rq.req = "SETISPSCK" PROVE Told(host', dev')
    BY <1>14 DEF Told
  <2>2. ~dev.userRW /\ Len(host.got) = 0 /\ Len(dev.tx.data) = 1
    BY <1>1, <1>3, <1>6, <2>1 DEF StepOK, Told
  <2>3. Len(got) = 1 /\ rq.len = 1
    BY <1>12, <1>13, <2>1, <2>2 DEF Asks
  <2>4. p = "status"
    BY <2>3 DEF p, Request
  <2>5. host'.phase = "status" /\ Len(host'.got) = 1
    BY <1>5, <1>15, <2>1, <2>3, <2>4
  <2> QED
    BY <1>2, <1>10, <2>2, <2>5 DEF Told
<1>18. Counted(host', dev')
  <2>1. SUFFICES ASSUME dev.userRW PROVE Counted(host', dev')
    BY <1>2 DEF Counted
  <2>2. /\ rq.req \in Memory
        /\ dev.fw.nbytes = rq.len + Flight(dev) - Len(host.got)
        /\ dev.fw.state = rq.req \/ (dev.fw.state = Idle /\ dev.fw.nbytes = 0)
    BY <1>1, <1>6, <2>1 DEF StepOK, Counted
  <2>3. Flight(dev) = -Len(dev.tx.data) /\ Flight(dev') = 0
    BY <1>1, <1>2, <1>3, <1>10, EmptyBuffers DEF Flight
  <2>4. host'.got = got
    BY <1>5, <1>15, <2>1
  <2> DEFINE n == dev.fw.nbytes
             m == rq.len
             g == Len(host.got)
             b == Len(dev.tx.data)
  <2>5. /\ n = m + (-b) - g /\ Len(got) = g + b /\ m \in Nat /\ g \in Nat /\ b \in Nat
    BY <1>11, <1>12, <1>13, <2>2, <2>3
  <2> HIDE DEF n, m, g, b
  <2>6. n = m + 0 - Len(got)
    BY <2>5
  <2>7. dev'.fw.nbytes = rq.len + Flight(dev') - Len(host'.got)
    BY <1>2, <2>3, <2>4, <2>6 DEF n, m
  <2> QED
    BY <1>1, <1>2, <1>10, <1>14, <2>2, <2>7 DEF Counted
<1> QED
  BY <1>1, <1>2, <1>5, <1>7, <1>8, <1>9, <1>16, <1>17, <1>18 DEF StepOK

\* The host ends an IN transfer.
LEMMA StatusOutSteps ==
  ASSUME IInv, mode.bus # "isp", StepOK(host, dev), StatusOut
  PROVE  StepOK(host', dev')
<1>1. /\ HostOK(host) /\ mode \in Modes /\ port \in Ports /\ host.todo # <<>> /\ dev.rx = Nothing
      /\ host.phase = "status" /\ dev' = dev /\ Ends(host, Len(host.got), host.got)
  BY DEF IInv, StatusOut, Listens
<1>2. Head(host.todo).req = "SETISPSCK" => Len(host.got) = Head(host.todo).len
  <2>1. Asks(Head(host.todo))
    BY <1>1, SeqTail DEF HostOK
  <2> QED
    BY <1>1, <2>1 DEF StepOK, Told, Asks
<1> QED
  BY <1>1, <1>2, EndsSteps DEF StepOK

\* The device stalls a transfer.
LEMMA StalledSteps ==
  ASSUME IInv, mode.bus # "isp", StepOK(host, dev), Stalled
  PROVE  StepOK(host', dev')
<1>1. /\ HostOK(host) /\ mode \in Modes /\ port \in Ports /\ host.todo # <<>> /\ dev.rx = Nothing
      /\ host.phase # "setup" /\ dev' = dev /\ dev.tx = Stall /\ Ends(host, -1, <<>>)
  BY DEF IInv, Stalled, Listens
<1>2. Serves(host, dev)
  BY <1>1, EmptyBuffers DEF Serves
<1>3. Head(host.todo).req # "SETISPSCK"
  BY <1>1, <1>2 DEF StepOK, Told
<1> QED
  BY <1>1, <1>3, EndsSteps DEF StepOK

\* The device ends a transfer that brings nothing.
LEMMA StatusInSteps ==
  ASSUME IInv, mode.bus # "isp", StepOK(host, dev), StatusIn
  PROVE  StepOK(host', dev')
<1> DEFINE rq == Head(host.todo)
<1>1. /\ HostOK(host) /\ DevOK(dev) /\ mode \in Modes /\ port \in Ports /\ host.todo # <<>>
      /\ dev.rx = Nothing /\ host.phase = "status" /\ dev' = Sent(dev) /\ dev.tx \notin {Nak, Stall}
      /\ rq.dir = "out" \/ rq.len = 0
  BY DEF IInv, StatusIn, Offers, Listens, Request
<1>2. /\ dev'.rx = dev.rx /\ dev'.tx = Nak /\ dev'.fw = dev.fw /\ dev'.msgLen = dev.msgLen
      /\ dev'.toggle = dev.toggle /\ (dev'.userRW <=> dev.userRW)
  BY <1>1, SentDetails
<1>3. Asks(rq) /\ rq.req # "SETISPSCK" /\ rq.len \in Nat
  BY <1>1, SeqTail DEF HostOK, Asks
<1>4. Serves(host, dev) /\ Serves(host, dev')
  BY <1>1, <1>2, EmptyBuffers DEF Serves
<1> HIDE DEF rq
<1>5. CASE dev.tx.toggle # 1
  <2>1. host' = host
    BY <1>5 DEF StatusIn
  <2>2. Ordered(host) /\ Connected(host, dev')
    BY <1>2, <1>4 DEF StepOK, Connected
  <2>3. OneWay(host, dev') /\ InTurn(host, dev') /\ Told(host, dev')
    BY <1>1, <1>2, <1>3 DEF OneWay, InTurn, Told, rq
  <2>4. Counted(host, dev')
    <3>1. SUFFICES ASSUME dev.userRW PROVE Counted(host, dev')
      BY <1>2 DEF Counted
    <3>2. /\ rq.req \in Memory
          /\ dev.fw.nbytes = rq.len + Flight(dev) - (IF rq.dir = "out" THEN host.sent ELSE Len(host.got))
          /\ rq.dir = "out" => dev.msgLen \in {NoMsg, 0} /\ (dev.tx.pid = "DATA" => Len(dev.tx.data) = 0)
          /\ dev.fw.state = rq.req \/ (dev.fw.state = Idle /\ dev.fw.nbytes = 0)
      BY <1>1, <1>4, <3>1 DEF StepOK, Counted, rq
    <3>3. dev.tx.pid = "DATA" /\ Len(dev.tx.data) = 0
      <4>1. dev.tx.pid = "DATA" /\ Len(dev.tx.data) \in Nat /\ Len(dev.tx.data) <= Offered(dev)
        BY <1>1, OfferedIs
      <4>2. CASE rq.dir = "out"
        BY <3>2, <4>1, <4>2
      <4>3. CASE rq.len = 0
        <5> DEFINE g == Len(host.got)
                   b == Offered(dev)
                   m == Len(dev.tx.data)
        <5>1. g + b <= 0
          BY <1>1, <4>3, EmptyBuffers DEF IInv, Fetching, rq
        <5>2. g \in Nat /\ b \in Nat /\ m \in Nat /\ m <= b
          BY <1>1, <4>1, SeqLen, OfferedIs DEF HostOK
        <5> HIDE DEF g, b, m
        <5>3. m = 0
          BY <5>1, <5>2
        <5> QED
          BY <4>1, <5>3 DEF m
      <4> QED
        BY <1>1, <4>2, <4>3
    <3>4. Flight(dev) = 0 /\ Flight(dev') = 0
      <4>1. dev.rx.pid # "OUT" /\ dev'.rx.pid # "OUT" /\ dev'.tx.pid # "DATA"
        BY <1>1, <1>2, EmptyBuffers
      <4> DEFINE k == Len(dev.tx.data)
      <4>2. Flight(dev) = -k /\ k \in Nat
        BY <3>3, <4>1 DEF Flight
      <4> HIDE DEF k
      <4>3. k <= 0 => Flight(dev) = 0
        BY <4>2
      <4>4. Flight(dev') = 0
        BY <4>1 DEF Flight
      <4> QED
        BY <3>3, <4>3, <4>4 DEF k
    <3>5. dev'.tx.pid # "DATA" /\ dev'.tx # Stall
      BY <1>2, EmptyBuffers
    <3> QED
      BY <1>2, <3>2, <3>4, <3>5 DEF Counted, rq
  <2> QED
    BY <1>2, <2>1, <2>2, <2>3, <2>4 DEF StepOK
<1>6. CASE dev.tx.toggle = 1
  <2> DEFINE h == IF Request.req = "SET_ADDRESS" THEN [host EXCEPT !.addr = Request.value] ELSE host
  <2>1. \E result : Ends(h, result, <<>>)
    BY <1>6 DEF StatusIn
  <2>2. /\ HostOK(h) /\ h.todo = host.todo /\ h.phase = host.phase /\ h.call = host.call
        /\ (h.entered <=> host.entered)
    <3>1. CASE h = host
      BY <1>1, <3>1
    <3>2. CASE h = [host EXCEPT !.addr = 1]
      <4> HIDE DEF h
      <4>1. /\ DOMAIN h = HostFields /\ h.addr = 1 /\ h.phase = host.phase
            /\ h.made = host.made /\ h.todo = host.todo /\ h.call = host.call
            /\ h.got = host.got /\ h.sent = host.sent /\ h.toggle = host.toggle
            /\ (h.entered <=> host.entered)
        BY <1>1, <3>2 DEF HostOK, HostFields
      <4> QED
        BY <1>1, <4>1 DEF HostOK
    <3> QED
      BY <1>3, <3>1, <3>2 DEF Asks, Request, rq
  <2> HIDE DEF h
  <2>3. Ordered(h)
    BY <2>2 DEF StepOK, Ordered
  <2>4. Connected(h, dev')
    BY <1>2, <1>4, <2>2 DEF StepOK, Connected, Serves
  <2>5. Head(h.todo).req # "SETISPSCK"
    BY <1>3, <2>2 DEF rq
  <2> QED
    BY <1>1, <1>2, <2>1, <2>2, <2>3, <2>4, <2>5, EndsSteps DEF StepOK
<1> QED
  BY <1>5, <1>6

\* The device is attached.
LEMMA AttachSteps ==
  ASSUME IInv, StepOK(host, dev), Attach
  PROVE  StepOK(host', dev')
<1> DEFINE c == [op |-> "Attach"]
<1>1. HostOK(host) /\ DevOK(dev) /\ mode \in Modes /\ host.call = NoCall /\ host.phase = "setup"
  BY DEF IInv, Attach, HostOK
<1>2. Script(Transfers(c), Requests(mode.bus, "Attach"))
  BY <1>1, SessionFits
<1>3. c.op = "Attach"
  OBVIOUS
<1> HIDE DEF c
<1>4. /\ host'.todo = Transfers(c) /\ host'.call = c /\ host'.entered = FALSE /\ host'.phase = "setup"
  BY DEF Attach, Quiet, c
<1>5. Ordered(host')
  BY <1>2, <1>3, <1>4 DEF Ordered, Script, IsJob
<1>6. dev'.rx = dev.rx /\ dev'.fw = dev.fw
  BY <1>1 DEF Attach, DevOK, DevFields
<1> QED
  BY <1>1, <1>4, <1>5, <1>6, BetweenTransfers DEF StepOK

\* It holds in the first state.
LEMMA InitSteps == Init => SInv
<1> SUFFICES ASSUME Init PROVE StepOK(host, dev)
  BY DEF SInv
<1>1. host.todo = <<>> /\ host.call.op = "none" /\ host.entered = FALSE /\ host.phase = "setup"
  BY DEF Init, Quiet, NoCall
<1>2. dev.rx = Nothing /\ dev.fw.state = Idle /\ PinsOK(dev.fw.pins)
  BY DEF Init, PoweredUp, Static, PowerUp, PinsOK, PinFields
<1>3. DOMAIN <<>> = {}
  BY SeqShort, SeqLen
<1>4. Ordered(host)
  BY <1>1, <1>3 DEF Ordered, IsJob
<1> QED
  BY <1>1, <1>2, <1>4, BetweenTransfers

\* Every step keeps it.
LEMMA NextSteps == IInv /\ SInv /\ [Next]_vars => SInv'
<1> SUFFICES ASSUME IInv, SInv, [Next]_vars, Serial' PROVE StepOK(host, dev)'
  BY DEF SInv
<1>1. mode' = mode /\ (faults' = faults \/ Fault) /\ faults \in 0 .. MaxFaults /\ MaxFaults \in Nat
  BY UsbAspAssumption
  DEF IInv, Next, Bus, Attach, Open, Close, Make, SendSetup, SendData, ReceiveData, StatusOut,
      StatusIn, Stalled, PollRx, PollTx, LoseData, LoseAck, GiveUp, Unplug, vars
<1>2. ~Fault
  BY <1>1 DEF Serial, Fault
<1>3. Serial
  BY <1>1, <1>2 DEF Serial
<1>4. /\ StepOK(host, dev) /\ mode.bus # "isp" /\ mode \in Modes
      /\ HostOK(host) /\ DevOK(dev) /\ Fetching(host, dev)
  BY <1>3 DEF SInv, Serial, IInv
<1>5. SUFFICES StepOK(host', dev')
  <2>1. Serves(host, dev)' <=> Serves(host', dev')
    BY DEF Serves
  <2>2. Ordered(host)' <=> Ordered(host')
    BY <1>1 DEF Ordered
  <2>3. Connected(host, dev)' <=> Connected(host', dev')
    BY <1>1, <2>1 DEF Connected
  <2>4. (OneWay(host, dev)' <=> OneWay(host', dev')) /\ (InTurn(host, dev)' <=> InTurn(host', dev'))
    BY <2>1 DEF OneWay, InTurn
  <2>5. (Told(host, dev)' <=> Told(host', dev')) /\ (Counted(host, dev)' <=> Counted(host', dev'))
    BY <2>1 DEF Told, Counted, Flight
  <2>6. (PinsOK(dev.fw.pins))' <=> PinsOK(dev'.fw.pins)
    BY DEF PinsOK
  <2> QED
    BY <2>2, <2>3, <2>4, <2>5, <2>6 DEF StepOK
<1>6. CASE Open
  <2> DEFINE c == [op |-> "Open"]
  <2>1. Begin(c) /\ c.op = "Open" /\ ~host.entered /\ dev' = dev
    BY <1>6 DEF Open
  <2>2. /\ Script(Transfers(c), Requests(mode.bus, c.op))
        /\ mode.bus = "spi" => Last(Transfers(c)).req = "SPI_CONNECT"
    BY <1>4, SessionFits
  <2> HIDE DEF c
  <2>3. ~IsJob(c)
    BY <2>1 DEF IsJob
  <2> QED
    BY <1>4, <2>1, <2>2, <2>3, BeginSteps
<1>7. CASE Close
  <2> DEFINE c == [op |-> "Close"]
  <2>1. Begin(c) /\ c.op = "Close" /\ dev' = dev
    BY <1>7 DEF Close
  <2>2. Script(Transfers(c), Requests(mode.bus, c.op))
    BY <1>4, SessionFits
  <2> HIDE DEF c
  <2>3. ~IsJob(c)
    BY <2>1 DEF IsJob
  <2> QED
    BY <1>4, <2>1, <2>2, <2>3, BeginSteps
<1>8. ASSUME NEW j \in JobsOf(mode.bus), Make(j)
      PROVE  StepOK(host', dev')
  <2> DEFINE k == host.made + 1
             c == [j EXCEPT !.id = k]
  <2>1. k \in Nat
    BY <1>4 DEF HostOK
  <2>2. Begin(c) /\ host.made < MaxJobs /\ host.entered /\ dev' = dev
    BY <1>8 DEF Make
  <2> HIDE DEF k
  <2>3. c \in JobType(mode.bus)
    BY <1>4, <2>1, Numbered
  <2> HIDE DEF c
  <2>4. Script(Transfers(c), Requests(mode.bus, c.op)) /\ IsJob(c)
    BY <1>4, <2>3, JobFits
  <2>5. c.op \notin {"none", "Attach", "Open", "Close"}
    BY <2>4 DEF IsJob
  <2> QED
    BY <1>4, <2>2, <2>4, <2>5, BeginSteps
<1>9. CASE Attach
  BY <1>4, <1>9, AttachSteps
<1>10. CASE Bus
  BY <1>4, <1>10, SendSetupSteps, SendDataSteps, ReceiveSteps, StatusOutSteps, StatusInSteps, StalledSteps
  DEF Bus
<1>11. CASE PollRx
  <2>1. host' = host
    BY <1>11 DEF PollRx
  <2> QED
    BY <1>4, <1>11, <2>1, SetupSteps, OutSteps
<1>12. CASE PollTx
  <2>1. host' = host
    BY <1>12 DEF PollTx
  <2> QED
    BY <1>4, <1>12, <2>1, PollTxSteps
<1>13. CASE LoseData \/ LoseAck \/ GiveUp \/ Unplug
  BY <1>2, <1>13 DEF LoseData, LoseAck, GiveUp, Unplug
<1>14. CASE UNCHANGED vars
  BY <1>4, <1>14 DEF vars
<1> QED
  BY <1>6, <1>7, <1>8, <1>9, <1>10, <1>11, <1>12, <1>13, <1>14 DEF Next

(***************************************************************************)
(* While nothing is lost, the bytes the firmware still expects of a        *)
(* request on a serial memory are those the program still has to send or   *)
(* fetch, with the packet between them (prog_nbytes of main.c).            *)
(***************************************************************************)
THEOREM UsbAspInStep == Spec => []InStep
<1>1. Init => IInv /\ SInv
  BY InitFits, InitSteps
<1>2. IInv /\ SInv /\ [Next]_vars => (IInv /\ SInv)'
  BY NextKeeps, NextSteps
<1>3. IInv /\ SInv => InStep
  <2>1. SUFFICES ASSUME SInv, Serial, Serves(host, dev), dev.userRW
                 PROVE  dev.fw.nbytes = Request.len + InFlight
                                        - (IF Request.dir = "out" THEN host.sent ELSE Len(host.got))
    BY DEF InStep, Serial, Serves
  <2>2. InFlight = Flight(dev)
    BY DEF InFlight, Flight
  <2> QED
    BY <2>1, <2>2 DEF SInv, StepOK, Counted, Request
<1> QED
  BY <1>1, <1>2, <1>3, PTL DEF Spec

-----------------------------------------------------------------------------
(***************************************************************************)
(* The frames.                                                             *)
(***************************************************************************)
\* What can be asked of the device on an SPI or an I2C bus.
SpiRequests == {"GETCAPABILITIES", "SETISPSCK", "SPI_CONNECT", "DISCONNECT", "SPI_READ", "SPI_WRITE"}
I2CRequests == {"GETCAPABILITIES", "I2C_INIT", "DISCONNECT", "I2C_READ", "I2C_WRITE", "I2C_START", "I2C_STOP",
                "I2C_WRITEBYTE", "I2C_READBYTE"}

Asked == Standards \cup IF mode.bus = "i2c" THEN I2CRequests ELSE SpiRequests

Asking(h, d) ==
  /\ \A i \in DOMAIN h.todo : h.todo[i].req \in Requests(mode.bus, h.call.op)
  /\ d.rx.pid = "SETUP" => d.rx.data.req \in Asked

\* On the I2C bus.
Started(d) == d.fw.state \in {Idle, "I2C_READ", "I2C_WRITE"} /\ StartedLow(d.fw.pins)

\* On the SPI bus: the chip is not selected any more, if the request wants that.
Closed(f) == f.csHi = 1 => f.pins.rst = "high"

Reaches(h, d) == Serves(h, d) /\ d.addr = h.addr

Taking(h, d) == Len(h.got) + IF d.tx.pid = "DATA" THEN Len(d.tx.data) ELSE 0

SpiReads(h, d) ==
  Reaches(h, d) /\ Head(h.todo).req = "SPI_READ" =>
    /\ d.userRW /\ d.fw.state \in {"SPI_READ", Idle} /\ d.fw.csHi = Head(h.todo).value
    /\ Taking(h, d) + d.fw.nbytes <= Head(h.todo).len
    /\ Taking(h, d) = Head(h.todo).len => Closed(d.fw)

SpiWrites(h, d) ==
  Reaches(h, d) /\ Head(h.todo).req = "SPI_WRITE" =>
    /\ d.userRW /\ d.fw.state = "SPI_WRITE" /\ d.fw.csHi = Head(h.todo).value
    /\ d.msgLen # NoMsg \/ d.tx # Nak => Closed(d.fw)

SpiConnects(h, d) ==
  Reaches(h, d) /\ Head(h.todo).req = "SPI_CONNECT" =>
    ~d.userRW /\ d.fw.pins.transmit # "unset" /\ d.fw.pins.rst = "high"

Moving(h, d) == SpiReads(h, d) /\ SpiWrites(h, d) /\ SpiConnects(h, d)

\* A call that reads or writes, and one that opens the session.
Moves(h) ==
  /\ h.call.op \in {"SPIWrite", "SPIRead"} /\ h.call.n \in Nat \ {0} /\ h.call.cs \in {0, 1}
  /\ h.todo = Transfers(h.call) /\ h.total = 0
  /\ h.call.cs = 0 => h.inFrame

SetsUp(h) ==
  /\ h.call.op = "Open" /\ h.total \in Int
  /\ \/ h.todo = SetUp(mode) /\ h.total <= 0
     \/ h.todo = Tail(SetUp(mode)) /\ h.total <= 4
     \/ h.todo = Tail(Tail(SetUp(mode))) /\ h.total <= 5

Calling(h) ==
  h.call = NoCall \/ h.call.op = "Attach" \/ (h.addr = 1 /\ (h.call.op = "Close" \/ SetsUp(h) \/ Moves(h)))

\* Between the calls of a good session the chip is not selected, unless that was asked for.
Rests(h, d, p) ==
  p = "open" =>
    /\ h.entered /\ h.addr = 1 /\ h.call.op \in {"none", "SPIWrite", "SPIRead"}
    /\ d.fw.pins.transmit # "unset"
    /\ h.call = NoCall => d.rx = Nothing /\ (h.inFrame \/ d.fw.pins.rst = "high")

SpiOK(h, d, p) ==
  d.fw.state \in {Idle, "SPI_READ", "SPI_WRITE"} /\ Moving(h, d) /\ Calling(h) /\ Rests(h, d, p)

FrameOK(h, d, p) ==
  /\ PinsOK(d.fw.pins) /\ Asking(h, d)
  /\ mode.bus = "i2c" => Started(d)
  /\ mode.bus = "spi" => SpiOK(h, d, p)

FInv == mode.bus \in {"spi", "i2c"} => FrameOK(host, dev, port)

\* Only calls with something to read or to write are made on an SPI memory.
Filled == \A m \in Modes : m.bus = "spi" => \A j \in JobsOf(m.bus) : j.n > 0

\* A request on the I2C bus.
LEMMA SetupStarts ==
  ASSUME NEW f, FwOK(f), PinsOK(f.pins), StartedLow(f.pins), f.state \in {Idle, "I2C_READ", "I2C_WRITE"},
         NEW rq, rq.req \in I2CRequests
  PROVE  LET r == usbFunctionSetup(f, rq)
         IN  StartedLow(r.fw.pins) /\ r.fw.state \in {Idle, "I2C_READ", "I2C_WRITE"}
<1> DEFINE r == usbFunctionSetup(f, rq)
           p == f.pins
           q == r.fw.pins
<1>1. DOMAIN f = FwFields
  BY DEF FwOK
<1>2. r.fw.state = f.state \/ r.fw.state \in {"I2C_READ", "I2C_WRITE"}
  BY <1>1 DEF usbFunctionSetup, Transfer, I2CRequests, FwFields
<1>3. ASSUME NEW s
      PROVE  /\ StartedLow(i2c_init(p)) /\ StartedLow(i2c_start(p)) /\ StartedLow(i2c_stop(p))
             /\ StartedLow(i2c_send_byte(p, s)) /\ StartedLow(i2c_read_byte(p, s)) /\ StartedLow(ispDisconnect(p))
  BY StartedKept, Zenon
<1>4. CASE rq.req = "I2C_WRITE"
  <2>1. q = i2c_send_byte(i2c_start(p), Sym("W"))
    BY <1>1, <1>4 DEF usbFunctionSetup, Transfer, i2c_address, FwFields
  <2>2. PinsOK(i2c_start(p)) /\ StartedLow(i2c_start(p))
    BY <1>3, PinsKept DEF Keeps
  <2>3. StartedLow(i2c_send_byte(i2c_start(p), Sym("W")))
    BY <2>2, StartedKept, Zenon
  <2> QED
    BY <1>2, <2>1, <2>3
<1>5. CASE rq.req # "I2C_WRITE"
  <2>1. \E s : q \in {p, i2c_init(p), i2c_start(p), i2c_stop(p), i2c_send_byte(p, s), i2c_read_byte(p, s),
                      ispDisconnect(p)}
    BY <1>1, <1>5 DEF usbFunctionSetup, Transfer, i2c_address, I2CRequests, FwFields
  <2>2. StartedLow(q)
    BY <1>3, <2>1
  <2> QED
    BY <1>2, <2>2
<1> QED
  BY <1>4, <1>5

\* A request on the SPI bus.
LEMMA SetupSelects ==
  ASSUME NEW f, FwOK(f), PinsOK(f.pins), NEW rq, rq.req \in SpiRequests
  PROVE  LET r == usbFunctionSetup(f, rq)
         IN  /\ r.fw.state = f.state \/ (r.fw.state = rq.req /\ rq.req \in {"SPI_READ", "SPI_WRITE"})
             /\ f.pins.transmit # "unset" => r.fw.pins.transmit # "unset"
             /\ r.fw.pins.cpu = f.pins.cpu
             /\ rq.req = "SPI_CONNECT" => r.fw.pins.transmit # "unset" /\ r.fw.pins.rst = "high"
             /\ rq.req \in {"SPI_READ", "SPI_WRITE"} =>
                  r.fw.state = rq.req /\ r.fw.nbytes = rq.len /\ r.fw.csHi = rq.value
<1> DEFINE r == usbFunctionSetup(f, rq)
           p == f.pins
           q == r.fw.pins
<1>1. DOMAIN f = FwFields /\ DOMAIN p = PinFields
  BY DEF FwOK, PinsOK
<1>2. CASE rq.req \in {"SPI_READ", "SPI_WRITE"}
  <2>1. q = CS_LOW(p) /\ r.fw.state = rq.req /\ r.fw.nbytes = rq.len /\ r.fw.csHi = rq.value
    BY <1>1, <1>2 DEF usbFunctionSetup, Transfer, FwFields
  <2>2. CS_LOW(p).transmit = p.transmit /\ CS_LOW(p).cpu = p.cpu
    BY <1>1 DEF CS_LOW, PinFields
  <2> QED
    BY <1>2, <2>1, <2>2
<1>3. CASE rq.req = "SPI_CONNECT"
  <2> DEFINE option == IF Jumper THEN Sck8 ELSE f.sck
             o == IF option = SckAuto THEN Sck375 ELSE option
             t == SetSpeed(f)
             u == [t EXCEPT !.outputs = TRUE]
             v == EnableIfHardware(u)
             c == CS_HI(v)
             x == isp25Connect(t)
  <2>1. q = x /\ r.fw.state = f.state
    BY <1>1, <1>3 DEF usbFunctionSetup, FwFields
  <2>2. t = [p EXCEPT !.option = o, !.transmit = IF o >= Sck93 THEN "hw" ELSE "sw"]
    BY DEF SetSpeed, ispSetSCKOption
  <2>3. x = Fresh(c, c.rst = "high")
    BY DEF isp25Connect
  <2> HIDE DEF option, o, t, x
  <2>4. DOMAIN t = PinFields /\ t.transmit \in {"hw", "sw"} /\ t.cpu = p.cpu
    BY <1>1, <2>2 DEF PinFields
  <2>5. DOMAIN u = PinFields /\ u.transmit = t.transmit /\ u.cpu = p.cpu
    BY <2>4 DEF PinFields
  <2> HIDE DEF u
  <2>6. DOMAIN v = PinFields /\ v.transmit = t.transmit /\ v.cpu = p.cpu
    BY <2>5 DEF EnableIfHardware, spiHWenable, PinFields
  <2> HIDE DEF v
  <2>7. DOMAIN c = PinFields /\ c.transmit = t.transmit /\ c.cpu = p.cpu /\ c.rst = "high"
    BY <2>6 DEF CS_HI, See, PinFields
  <2> HIDE DEF c
  <2>8. x.transmit = t.transmit /\ x.cpu = p.cpu /\ x.rst = "high"
    BY <2>3, <2>7 DEF Fresh, PinFields
  <2> QED
    BY <1>3, <2>1, <2>4, <2>8
<1>4. CASE rq.req = "DISCONNECT"
  <2>1. q = ispDisconnect(p) /\ r.fw.state = f.state
    BY <1>1, <1>4 DEF usbFunctionSetup, FwFields
  <2>2. ispDisconnect(p).transmit = p.transmit /\ ispDisconnect(p).cpu = p.cpu
    BY <1>1 DEF ispDisconnect, spiHWdisable, PinFields
  <2> QED
    BY <1>4, <2>1, <2>2
<1>5. CASE rq.req \in {"GETCAPABILITIES", "SETISPSCK"}
  <2>1. q = p /\ r.fw.state = f.state
    BY <1>1, <1>5 DEF usbFunctionSetup, FwFields
  <2> QED
    BY <1>5, <2>1
<1> QED
  BY <1>2, <1>3, <1>4, <1>5 DEF SpiRequests

\* The last byte that was asked for closes the frame, if it is to.
LEMMA ReadDraws ==
  ASSUME NEW f, FwOK(f), PinsOK(f.pins), f.state = "SPI_READ", NEW len \in Nat
  PROVE  LET g == usbFunctionRead(f, len).fw
         IN  /\ PinsOK(g.pins) /\ g.pins.transmit = f.pins.transmit /\ Released(f.pins, g.pins)
             /\ g.csHi = f.csHi
             /\ g.pins.cpu = "running" /\ g.nbytes = 0 => Closed(g)
<1> DEFINE k == Least(f, len)
           h == Read(f, k)
           g == usbFunctionRead(f, len).fw
<1>1. g = ReadEnd(f, k)
  <2>1. usbFunctionRead(f, len) = MemoryRead(f, len)
    BY DEF usbFunctionRead, IspReads
  <2> QED
    BY <2>1, MemoryReadIs, Zenon
<1>2. Ran(f, f.pins, g.pins)
  BY ReadRuns DEF MemReads
<1>3. k \in Nat
  BY DEF FwOK, Least
<1> HIDE DEF k
<1>4. DOMAIN h = FwFields /\ h.csHi = f.csHi /\ h.pins = ReadPins(f, k)[k]
  BY DEF Read, FwOK, FwFields
<1>5. PinsOK(h.pins)
  BY <1>3, <1>4, ReadPinsRun DEF Ran, Keeps, MemReads
<1> HIDE DEF h, g
<1>6. g = IF h.pins.cpu = "running" /\ h.nbytes = 0
          THEN [h EXCEPT !.pins = CloseSpi(f, h.pins), !.state = Idle] ELSE h
  BY <1>1 DEF ReadEnd, ReadClose, h
<1>7. g.csHi = f.csHi
  BY <1>4, <1>6 DEF FwFields
<1>8. g.pins.cpu = "running" /\ g.nbytes = 0 => Closed(g)
  <2>1. CASE h.pins.cpu = "running" /\ h.nbytes = 0
    <3>1. g.pins = CloseSpi(f, h.pins)
      BY <1>4, <1>6, <2>1 DEF FwFields
    <3>2. f.csHi = 1 => g.pins.rst = "high"
      BY <1>5, <3>1 DEF CloseSpi, CS_HI, See, PinsOK, PinFields
    <3> QED
      BY <1>7, <3>2 DEF Closed
  <2>2. CASE ~(h.pins.cpu = "running" /\ h.nbytes = 0)
    BY <1>6, <2>2
  <2> QED
    BY <2>1, <2>2
<1> QED
  BY <1>2, <1>7, <1>8 DEF Ran, Keeps, g

\* The same of a write, whose state stays.
LEMMA WriteDraws ==
  ASSUME NEW f, FwOK(f), PinsOK(f.pins), f.state = "SPI_WRITE", NEW data, IsSeq(data)
  PROVE  LET g == usbFunctionWrite(f, data)
         IN  /\ PinsOK(g.pins) /\ g.pins.transmit = f.pins.transmit /\ Released(f.pins, g.pins)
             /\ g.csHi = f.csHi /\ g.state = f.state
             /\ g.pins.cpu = "running" /\ g.nbytes = 0 => Closed(g)
<1> DEFINE k == Least(f, Len(data))
           h == Wrote(f, data, k)
           g == usbFunctionWrite(f, data)
<1>1. g = WriteEnd(f, data, k)
  <2>1. usbFunctionWrite(f, data) = MemoryWrite(f, data)
    BY DEF usbFunctionWrite, IspWrites
  <2> QED
    BY <2>1, MemoryWriteIs, Zenon
<1>2. Ran(f, f.pins, g.pins)
  BY WriteRuns DEF MemWrites
<1>3. k \in Nat
  BY SeqLen DEF FwOK, Least
<1> HIDE DEF k
<1>4. DOMAIN h = FwFields /\ h.csHi = f.csHi /\ h.state = f.state /\ h.pins = WritePins(f, data, k)[k]
  BY DEF Wrote, FwOK, FwFields
<1>5. PinsOK(h.pins)
  BY <1>3, <1>4, WritePinsRun DEF Ran, Keeps, MemWrites
<1> HIDE DEF h, g
<1>6. g = IF h.pins.cpu = "running" /\ h.nbytes = 0
          THEN [h EXCEPT !.pins = CloseSpi(f, h.pins), !.state = f.state] ELSE h
  BY <1>1 DEF WriteEnd, WriteClose, h
<1>7. g.csHi = f.csHi /\ g.state = f.state
  BY <1>4, <1>6 DEF FwFields
<1>8. g.pins.cpu = "running" /\ g.nbytes = 0 => Closed(g)
  <2>1. CASE h.pins.cpu = "running" /\ h.nbytes = 0
    <3>1. g.pins = CloseSpi(f, h.pins)
      BY <1>4, <1>6, <2>1 DEF FwFields
    <3>2. f.csHi = 1 => g.pins.rst = "high"
      BY <1>5, <3>1 DEF CloseSpi, CS_HI, See, PinsOK, PinFields
    <3> QED
      BY <1>7, <3>2 DEF Closed
  <2>2. CASE ~(h.pins.cpu = "running" /\ h.nbytes = 0)
    BY <1>6, <2>2
  <2> QED
    BY <2>1, <2>2
<1> QED
  BY <1>2, <1>7, <1>8 DEF Ran, Keeps, g

\* The greatest of a few numbers.
LEMMA MaxOfFew ==
  /\ Max({1}) = 1 /\ Max({1, 2}) = 2 /\ Max({1, 2, 3}) = 3
  /\ \A x \in SUBSET {1, 2, 3} : x # {} => Max(x) \in x
<1>1. ASSUME NEW x \in SUBSET {1, 2, 3}, NEW m \in x, \A y \in x : m >= y
      PROVE  Max(x) = m
  <2>1. Max(x) \in x /\ \A y \in x : Max(x) >= y
    BY <1>1 DEF Max
  <2> DEFINE n == Max(x)
  <2> HIDE DEF n
  <2>2. n \in x /\ m >= n /\ n >= m /\ n \in {1, 2, 3} /\ m \in {1, 2, 3}
    BY <1>1, <2>1 DEF n
  <2>3. n = m
    BY <2>2
  <2> QED
    BY <2>3 DEF n
<1>2. Max({1}) = 1 /\ Max({1, 2}) = 2 /\ Max({1, 2, 3}) = 3
  BY <1>1
<1>3. ASSUME NEW x \in SUBSET {1, 2, 3}, x # {} PROVE Max(x) \in x
  <2>1. \E m \in x : \A y \in x : m >= y
    <3>1. CASE 3 \in x
      BY <3>1
    <3>2. CASE 3 \notin x /\ 2 \in x
      BY <3>2
    <3>3. CASE 3 \notin x /\ 2 \notin x
      <4>1. x = {1}
        BY <1>3, <3>3
      <4> QED
        BY <4>1
    <3> QED
      BY <3>1, <3>2, <3>3
  <2> QED
    BY <1>1, <2>1
<1> QED
  BY <1>2, <1>3

\* What a short script asks for altogether.
LEMMA WantedIs ==
  ASSUME NEW s, DOMAIN s \in {{1}, {1, 2, 3}}, \A i \in DOMAIN s : s[i].len \in Int
  PROVE  Wanted(s) = IF DOMAIN s = {1} THEN s[1].len ELSE s[1].len + s[2].len + s[3].len
<1> DEFINE S == DOMAIN s
           Body(f) == [x \in SUBSET S |-> IF x = {} THEN 0 ELSE f[x \ {Max(x)}] + s[Max(x)].len]
           iter == CHOOSE f : f = Body(f)
           part(x, i) == IF i \in x THEN s[i].len ELSE 0
           h == [x \in SUBSET S |-> part(x, 1) + part(x, 2) + part(x, 3)]
<1>1. Wanted(s) = iter[S]
  BY DEF Wanted, FoldLeft, MapThenFoldSet
<1>2. h = Body(h)
  <2>1. ASSUME NEW x \in SUBSET S PROVE h[x] = Body(h)[x]
    <3>1. x \in SUBSET {1, 2, 3}
      OBVIOUS
    <3>2. CASE x = {}
      BY <3>2
    <3>3. CASE x # {}
      <4> DEFINE m == Max(x)
                 y == x \ {m}
      <4>1. m \in x
        BY <3>1, <3>3, MaxOfFew
      <4> HIDE DEF m
      <4>2. m \in {1, 2, 3} /\ y \in SUBSET S /\ s[m].len \in Int
        BY <3>1, <4>1
      <4>3. Body(h)[x] = h[y] + s[m].len
        BY <3>3 DEF m
      <4>4. \A i \in {1, 2, 3} : part(x, i) \in Int /\ part(y, i) = IF i = m THEN 0 ELSE part(x, i)
        OBVIOUS
      <4>5. part(x, m) = s[m].len
        BY <4>1
      <4>6. h[x] = part(x, 1) + part(x, 2) + part(x, 3) /\ h[y] = part(y, 1) + part(y, 2) + part(y, 3)
        BY <4>2
      <4> HIDE DEF h, part, Body
      <4> QED
        BY <4>2, <4>3, <4>4, <4>5, <4>6
    <3> QED
      BY <3>2, <3>3
  <2>2. h = [x \in SUBSET S |-> h[x]] /\ Body(h) = [x \in SUBSET S |-> Body(h)[x]]
    OBVIOUS
  <2> HIDE DEF h, Body
  <2> QED
    BY <2>1, <2>2
<1>3. iter = Body(iter)
  <2> HIDE DEF Body, h
  <2> QED
    BY <1>2, Zenon
<1> HIDE DEF iter
<1>4. ASSUME NEW x \in SUBSET S
      PROVE  iter[x] = IF x = {} THEN 0 ELSE iter[x \ {Max(x)}] + s[Max(x)].len
  <2>1. iter[x] = Body(iter)[x]
    BY <1>3, Zenon
  <2> QED
    BY <2>1
<1> HIDE DEF Body
<1>5. iter[{}] = 0 /\ iter[{1}] = s[1].len
  <2>1. iter[{}] = 0
    BY <1>4
  <2>2. {1} \ {1} = {} /\ {1} \in SUBSET S /\ s[1].len \in Int
    OBVIOUS
  <2>3. iter[{1}] = iter[{1} \ {1}] + s[1].len
    BY <1>4, <2>2, MaxOfFew
  <2> QED
    BY <2>1, <2>2, <2>3
<1>6. CASE S = {1}
  BY <1>1, <1>5, <1>6
<1>7. CASE S = {1, 2, 3}
  <2>1. {1, 2, 3} \ {3} = {1, 2} /\ {1, 2} \ {2} = {1} /\ {1, 2} \in SUBSET S /\ {1, 2} # {} /\ {1, 2, 3} # {}
    BY <1>7
  <2>2. iter[{1, 2}] = iter[{1, 2} \ {2}] + s[2].len
    BY <1>4, <2>1, MaxOfFew
  <2>3. iter[{1, 2, 3}] = iter[{1, 2, 3} \ {3}] + s[3].len
    BY <1>4, <1>7, <2>1, MaxOfFew
  <2>4. iter[{1, 2, 3}] = s[1].len + s[2].len + s[3].len
    <3>1. iter[{1, 2}] = s[1].len + s[2].len
      BY <1>5, <2>1, <2>2, Zenon
    <3> QED
      BY <2>1, <2>3, <3>1, Zenon
  <2>5. S # {1}
    BY <1>7
  <2> QED
    BY <1>1, <1>7, <2>4, <2>5
<1> QED
  BY <1>6, <1>7

\* Three in a row.
LEMMA ThreeInARow ==
  ASSUME NEW x, NEW y, NEW z
  PROVE  <<x>> \o (<<y>> \o <<z>>) = <<x, y, z>>
<1> DEFINE S == {x, y, z}
           a == <<x>>
           b == <<y>>
           c == <<z>>
           t == <<x, y, z>>
<1>1. a \in Seq(S) /\ b \in Seq(S) /\ c \in Seq(S) /\ t \in Seq(S)
  OBVIOUS
<1>2. Len(a) = 1 /\ Len(b) = 1 /\ Len(c) = 1 /\ Len(t) = 3
  OBVIOUS
<1>3. a[1] = x /\ b[1] = y /\ c[1] = z /\ t[1] = x /\ t[2] = y /\ t[3] = z
  OBVIOUS
<1> HIDE DEF S, a, b, c, t
<1> DEFINE u == b \o c
           v == a \o u
<1>4. u \in Seq(S) /\ Len(u) = 2 /\ u[1] = y /\ u[2] = z
  <2>1. /\ u \in Seq(S) /\ Len(u) = Len(b) + Len(c)
        /\ \A i \in 1 .. Len(b) + Len(c) : u[i] = IF i <= Len(b) THEN b[i] ELSE c[i - Len(b)]
    BY <1>1, ConcatProperties
  <2> HIDE DEF u
  <2> QED
    BY <1>2, <1>3, <2>1
<1> HIDE DEF u
<1>5. v \in Seq(S) /\ Len(v) = 3 /\ v[1] = x /\ v[2] = y /\ v[3] = z
  <2>1. /\ v \in Seq(S) /\ Len(v) = Len(a) + Len(u)
        /\ \A i \in 1 .. Len(a) + Len(u) : v[i] = IF i <= Len(a) THEN a[i] ELSE u[i - Len(a)]
    BY <1>1, <1>4, ConcatProperties
  <2> HIDE DEF v
  <2> QED
    BY <1>2, <1>3, <1>4, <2>1
<1> HIDE DEF v
<1>6. \A i \in 1 .. 3 : v[i] = t[i]
  BY <1>3, <1>5
<1>7. v = t
  BY <1>1, <1>2, <1>5, <1>6, SeqEqual
<1> QED
  BY <1>7 DEF a, b, c, t, u, v

\* The requests that open a session on an SPI memory.
LEMMA SetUpIs ==
  ASSUME mode \in Modes, mode.bus = "spi"
  PROVE  LET s == SetUp(mode)
         IN  /\ IsSeq(s) /\ s # <<>> /\ Tail(s) # <<>> /\ Tail(Tail(s)) # <<>> /\ Tail(Tail(Tail(s))) = <<>>
             /\ Head(s).req = "GETCAPABILITIES" /\ Head(s).len = 4
             /\ Head(Tail(s)).req = "SETISPSCK" /\ Head(Tail(s)).len = 1
             /\ Head(Tail(Tail(s))).req = "SPI_CONNECT" /\ Head(Tail(Tail(s))).len = 0
             /\ Wanted(s) = 5
<1> DEFINE x == Vendor("GETCAPABILITIES", "in", 1, 0, 4)
           y == Vendor("SETISPSCK", "in", mode.sck, 0, 1)
           z == Vendor("SPI_CONNECT", "in", 0, 0, 0)
           s == <<x, y, z>>
<1>1. SetUp(mode) = s
  <2>1. SetUp(mode) = <<x>> \o (<<y>> \o <<z>>)
    BY DEF SetUp
  <2> HIDE DEF x, y, z
  <2> QED
    BY <2>1, ThreeInARow
<1>2. /\ x.req = "GETCAPABILITIES" /\ x.len = 4 /\ y.req = "SETISPSCK" /\ y.len = 1
      /\ z.req = "SPI_CONNECT" /\ z.len = 0
  BY DEF Vendor
<1> HIDE DEF x, y, z
<1>3. s \in Seq({x, y, z}) /\ Len(s) = 3 /\ s[1] = x /\ s[2] = y /\ s[3] = z
  OBVIOUS
<1>4. IsSeq(s) /\ DOMAIN s = 1 .. 3
  BY <1>3, SeqOver
<1>5. 1 .. 3 = {1, 2, 3}
  OBVIOUS
<1>6. Wanted(s) = s[1].len + s[2].len + s[3].len
  <2>1. DOMAIN s = {1, 2, 3} /\ {1, 2, 3} # {1}
    BY <1>4, <1>5
  <2>2. \A i \in DOMAIN s : s[i].len \in Int
    BY <1>2, <1>3, <2>1
  <2> HIDE DEF s
  <2> QED
    BY <2>1, <2>2, WantedIs
<1> HIDE DEF s
<1>7. s # <<>>
  <2>1. Len(s) # 0
    BY <1>3
  <2> QED
    BY <1>4, <2>1, SeqLen, Zenon
<1> DEFINE t == Tail(s)
<1>8. IsSeq(t) /\ Len(t) = 2 /\ Head(s) = x /\ DOMAIN t = 1 .. 2 /\ t[1] = y /\ t[2] = z /\ t # <<>>
  <2>1. /\ IsSeq(t) /\ Len(t) = Len(s) - 1 /\ Head(s) = s[1]
        /\ \A i \in DOMAIN t : t[i] = s[i + 1]
    BY <1>4, <1>7, SeqTail
  <2> HIDE DEF t
  <2>2. DOMAIN t = 1 .. 2 /\ Len(t) = 2 /\ t # <<>>
    BY <1>3, <2>1, SeqLen
  <2> QED
    BY <1>3, <2>1, <2>2
<1> HIDE DEF t
<1> DEFINE u == Tail(t)
<1>9. IsSeq(u) /\ Len(u) = 1 /\ Head(t) = y /\ u[1] = z /\ u # <<>>
  <2>1. /\ IsSeq(u) /\ Len(u) = Len(t) - 1 /\ Head(t) = t[1]
        /\ \A i \in DOMAIN u : u[i] = t[i + 1]
    BY <1>8, SeqTail
  <2> HIDE DEF u
  <2>2. Len(u) = 1
    BY <1>8, <2>1
  <2>3. DOMAIN u = 1 .. Len(u) /\ (u = <<>> <=> Len(u) = 0)
    BY <2>1, SeqLen
  <2> QED
    BY <1>8, <2>1, <2>2, <2>3
<1> HIDE DEF u
<1>10. IsSeq(Tail(u)) /\ Len(Tail(u)) = 0 /\ Head(u) = z /\ Tail(u) = <<>>
  <2> DEFINE v == Tail(u)
  <2>1. IsSeq(v) /\ Len(v) = Len(u) - 1 /\ Head(u) = u[1]
    BY <1>9, SeqTail
  <2> HIDE DEF v
  <2>2. Len(v) = 0
    BY <1>9, <2>1
  <2>3. v = <<>>
    BY <2>1, <2>2, SeqLen
  <2> QED
    BY <1>9, <2>1, <2>2, <2>3 DEF v
<1>11. Wanted(s) = 5
  BY <1>2, <1>3, <1>6
<1>12. t = Tail(s) /\ u = Tail(t)
  BY DEF t, u
<1> QED
  BY <1>1, <1>2, <1>4, <1>7, <1>8, <1>9, <1>10, <1>11, <1>12

\* The request of a call that reads or writes an SPI memory.
LEMMA MoveIs ==
  ASSUME NEW h, Moves(h)
  PROVE  LET rq == Head(h.todo)
         IN  /\ IsSeq(h.todo) /\ h.todo # <<>> /\ Tail(h.todo) = <<>> /\ Wanted(h.todo) = rq.len
             /\ rq.req = (IF h.call.op = "SPIRead" THEN "SPI_READ" ELSE "SPI_WRITE")
             /\ rq.dir = (IF h.call.op = "SPIRead" THEN "in" ELSE "out")
             /\ rq.len \in Nat \ {0} /\ rq.value = h.call.cs
<1> DEFINE c == h.call
           rq == IF c.op = "SPIRead" THEN Vendor("SPI_READ", "in", c.cs, 0, c.n)
                 ELSE Vendor("SPI_WRITE", "out", c.cs, 0, c.n)
<1>1. h.todo = <<rq>> /\ c.n \in Nat \ {0}
  BY DEF Moves, Transfers
<1>2. /\ rq.req = (IF c.op = "SPIRead" THEN "SPI_READ" ELSE "SPI_WRITE")
      /\ rq.dir = (IF c.op = "SPIRead" THEN "in" ELSE "out")
      /\ rq.len = c.n /\ rq.value = c.cs
  BY DEF Vendor
<1> HIDE DEF c, rq
<1> DEFINE s == <<rq>>
<1>3. IsSeq(s) /\ s # <<>> /\ Len(s) = 1 /\ DOMAIN s = {1} /\ s[1] = rq
  BY SeqShort
<1> HIDE DEF s
<1>4. Head(s) = rq /\ IsSeq(Tail(s)) /\ Len(Tail(s)) = 0
  BY <1>3, SeqTail
<1>5. Wanted(s) = rq.len
  BY <1>1, <1>2, <1>3, WantedIs
<1>6. Tail(s) = <<>>
  BY <1>4, SeqLen
<1> QED
  BY <1>1, <1>2, <1>3, <1>4, <1>5, <1>6 DEF s, c


\* What building a packet does to the driver's fields.
LEMMA BlockDetails ==
  ASSUME NEW d, DevOK(d), d.tx \in {Nak, Stall}, d.msgLen # NoMsg, d.fw.pins.cpu = "running"
  PROVE  LET e == usbBuildTxBlock(d)
         IN  /\ e.rx = d.rx /\ e.addr = d.addr /\ (e.userRW <=> d.userRW)
             /\ \/ /\ e.fw = d.fw
                   /\ \/ e.tx = Stall
                      \/ e.tx.pid = "DATA" /\ (d.userRW => Len(e.tx.data) = 0)
                \/ /\ d.userRW /\ d.fw.state \in Readable
                   /\ \E n \in Nat :
                        LET r == usbFunctionRead(d.fw, n)
                        IN  /\ e.fw = r.fw
                            /\ IF r.fw.pins.cpu = "hung" THEN e.tx = d.tx
                               ELSE e.tx.pid = "DATA" /\ e.tx.data = r.data
<1> DEFINE e     == usbBuildTxBlock(d)
           want  == Want(d)
           user  == d.userRW /\ want > 0
           error == user /\ d.fw.state \notin Readable
           r     == IF user /\ ~error THEN usbFunctionRead(d.fw, want)
                    ELSE [fw |-> d.fw, data |-> SubSeq(d.msg, 1, want)]
           last  == error \/ EndsMessage(Len(r.data))
           t     == IF error THEN Stall ELSE [pid |-> "DATA", toggle |-> Flip(d.toggle), data |-> r.data]
           rest  == IF user THEN d.msg ELSE SubSeq(d.msg, want + 1, Len(d.msg))
<1>1. /\ FwOK(d.fw) /\ d.msgLen \in Int /\ d.msgLen >= NoMsg /\ IsSeq(d.msg)
      /\ ~d.userRW => d.msgLen <= Len(d.msg)
      /\ DOMAIN d = DevFields
  BY DEF DevOK
<1>2. d.msgLen \in Nat /\ PacketSize \in Nat /\ PacketSize >= 1
  BY <1>1, UsbAspAssumption DEF NoMsg
<1>3. want \in Nat /\ want = (IF PacketSize < d.msgLen THEN PacketSize ELSE d.msgLen)
  BY <1>2 DEF Want, AtMost
<1>4. Len(d.msg) \in Nat
  BY <1>1, SeqLen
<1>5. e = IF r.fw.pins.cpu = "hung" THEN [d EXCEPT !.fw = r.fw]
          ELSE [d EXCEPT !.fw = r.fw, !.toggle = Flip(@), !.msg = rest,
                         !.msgLen = IF last THEN NoMsg ELSE @ - want, !.tx = t]
  BY Zenon DEF usbBuildTxBlock
<1> HIDE DEF e, want
<1>6. /\ e.rx = d.rx /\ e.addr = d.addr /\ (e.userRW <=> d.userRW) /\ e.fw = r.fw
      /\ r.fw.pins.cpu = "hung" => e.tx = d.tx
      /\ r.fw.pins.cpu # "hung" => e.tx = t
  <2> HIDE DEF r, t, last, rest
  <2> QED
    BY <1>1, <1>5 DEF DevFields
<1>7. CASE user /\ ~error
  <2>1. r = usbFunctionRead(d.fw, want)
    BY <1>7
  <2>2. t = [pid |-> "DATA", toggle |-> Flip(d.toggle), data |-> r.data]
    BY <1>7
  <2>3. d.userRW /\ d.fw.state \in Readable
    BY <1>7
  <2> HIDE DEF r, t, last, rest
  <2>4. t.pid = "DATA" /\ t.data = r.data
    BY <2>2
  <2> QED
    BY <1>3, <1>6, <2>1, <2>3, <2>4 DEF e
<1>8. CASE error
  <2>1. r.fw = d.fw /\ t = Stall
    BY <1>8
  <2> QED
    BY <1>6, <2>1 DEF e
<1>9. CASE ~user
  <2>1. r.fw = d.fw /\ r.data = SubSeq(d.msg, 1, want)
        /\ t = [pid |-> "DATA", toggle |-> Flip(d.toggle), data |-> r.data]
    BY <1>9
  <2> HIDE DEF r, t, last, rest
  <2>2. t.pid = "DATA" /\ t.data = r.data
    BY <2>1
  <2>3. d.userRW => want = 0
    BY <1>3, <1>9
  <2>4. want = 0 => Len(SubSeq(d.msg, 1, want)) = 0
    BY <1>1, <1>3, <1>4, SeqPart
  <2> QED
    BY <1>6, <2>1, <2>2, <2>3, <2>4 DEF e
<1> QED
  BY <1>7, <1>8, <1>9

\* What receiving data does to them.
LEMMA OutDetails ==
  ASSUME NEW d, DevOK(d), NEW data
  PROVE  LET e == OutReceived(d, data)
             g == usbFunctionWrite(d.fw, data)
         IN  /\ e.rx \in {Nothing, d.rx} /\ e.addr = d.addr /\ (e.userRW <=> d.userRW)
             /\ ~d.userRW => e.fw = d.fw /\ e.tx = d.tx /\ e.msgLen = d.msgLen
             /\ d.userRW /\ d.fw.state \notin Writable => e.fw = d.fw /\ e.tx = Stall /\ e.msgLen = d.msgLen
             /\ d.userRW /\ d.fw.state \in Writable =>
                  /\ e.fw = g /\ e.tx = d.tx
                  /\ \/ e.msgLen = d.msgLen
                     \/ g.pins.cpu # "hung" /\ (g.nbytes = 0 \/ g.state = Idle)
<1> DEFINE e  == OutReceived(d, data)
           d0 == [d EXCEPT !.rx = Nothing]
           fw == usbFunctionWrite(d.fw, data)
<1>1. DOMAIN d = DevFields
  BY DEF DevOK
<1>2. e = IF ~d.userRW THEN d0
          ELSE IF d.fw.state \notin Writable THEN [d0 EXCEPT !.tx = Stall]
          ELSE IF fw.pins.cpu = "hung" THEN [d EXCEPT !.fw = fw]
          ELSE IF fw.nbytes = 0 \/ fw.state = Idle THEN [d0 EXCEPT !.fw = fw, !.msgLen = 0]
          ELSE [d0 EXCEPT !.fw = fw]
  BY DEF OutReceived
<1> HIDE DEF e, fw
<1>3. CASE ~d.userRW
  <2>1. e = d0
    BY <1>2, <1>3
  <2>2. /\ e.rx = Nothing /\ e.addr = d.addr /\ (e.userRW <=> d.userRW)
        /\ e.fw = d.fw /\ e.tx = d.tx /\ e.msgLen = d.msgLen
    BY <1>1, <2>1 DEF DevFields
  <2> QED
    BY <1>3, <2>2 DEF e
<1>4. CASE d.userRW /\ d.fw.state \notin Writable
  <2>1. e = [d0 EXCEPT !.tx = Stall]
    BY <1>2, <1>4
  <2>2. /\ e.rx = Nothing /\ e.addr = d.addr /\ (e.userRW <=> d.userRW)
        /\ e.fw = d.fw /\ e.tx = Stall /\ e.msgLen = d.msgLen
    BY <1>1, <2>1 DEF DevFields
  <2> QED
    BY <1>4, <2>2 DEF e
<1>5. CASE d.userRW /\ d.fw.state \in Writable
  <2>1. CASE fw.pins.cpu = "hung"
    <3>1. e = [d EXCEPT !.fw = fw]
      BY <1>2, <1>5, <2>1
    <3>2. /\ e.rx = d.rx /\ e.addr = d.addr /\ (e.userRW <=> d.userRW)
          /\ e.fw = fw /\ e.tx = d.tx /\ e.msgLen = d.msgLen
      BY <1>1, <3>1 DEF DevFields
    <3> QED
      BY <1>5, <3>2 DEF e, fw
  <2>2. CASE fw.pins.cpu # "hung" /\ (fw.nbytes = 0 \/ fw.state = Idle)
    <3>1. e = [d0 EXCEPT !.fw = fw, !.msgLen = 0]
      BY <1>2, <1>5, <2>2
    <3>2. /\ e.rx = Nothing /\ e.addr = d.addr /\ (e.userRW <=> d.userRW)
          /\ e.fw = fw /\ e.tx = d.tx
      BY <1>1, <3>1 DEF DevFields
    <3> QED
      BY <1>5, <2>2, <3>2 DEF e, fw
  <2>3. CASE fw.pins.cpu # "hung" /\ ~(fw.nbytes = 0 \/ fw.state = Idle)
    <3>1. e = [d0 EXCEPT !.fw = fw]
      BY <1>2, <1>5, <2>3
    <3>2. /\ e.rx = Nothing /\ e.addr = d.addr /\ (e.userRW <=> d.userRW)
          /\ e.fw = fw /\ e.tx = d.tx /\ e.msgLen = d.msgLen
      BY <1>1, <3>1 DEF DevFields
    <3> QED
      BY <1>5, <3>2 DEF e, fw
  <2> QED
    BY <2>1, <2>2, <2>3
<1> QED
  BY <1>3, <1>4, <1>5

\* A request leaves the device's address alone.
LEMMA SetupAddress ==
  ASSUME NEW d, DevOK(d), NEW rq, Asks(rq)
  PROVE  SetupReceived(d, rq).addr = d.addr
<1> DEFINE e  == SetupReceived(d, rq)
           d0 == [d EXCEPT !.toggle = 0, !.tx = Nak, !.userRW = FALSE, !.rx = Nothing]
           r  == usbFunctionSetup(d.fw, rq)
           d1 == IF rq.type = "standard" THEN usbDriverSetup(d0, rq)
                 ELSE [d0 EXCEPT !.fw = r.fw, !.msg = r.reply]
<1>1. DOMAIN d0 = DevFields /\ d0.addr = d.addr
  BY DEF DevOK, DevFields
<1>2. \E m : e \in {[d1 EXCEPT !.userRW = TRUE, !.msgLen = m], [d1 EXCEPT !.msgLen = m]}
  BY DEF SetupReceived
<1> HIDE DEF e, d0, r
<1>3. rq.type = "standard" => rq.req \in Standards
  BY DEF Asks
<1>4. \E a, b, m, f : d1 \in {[d0 EXCEPT !.newAddr = a, !.msg = <<>>], [d0 EXCEPT !.config = b, !.msg = <<>>],
                            [d0 EXCEPT !.msg = m], [d0 EXCEPT !.fw = f, !.msg = m]}
  BY <1>3 DEF usbDriverSetup, Standards
<1> HIDE DEF d1
<1>5. DOMAIN d1 = DevFields /\ d1.addr = d.addr
  BY <1>1, <1>4 DEF DevFields
<1>6. e.addr = d.addr
  BY <1>2, <1>5 DEF DevFields
<1> QED
  BY <1>6 DEF e

\* What a call asks for.
LEMMA Allowed ==
  ASSUME mode.bus \in {"spi", "i2c"}, NEW h, HostOK(h), h.todo # <<>>, NEW d, Asking(h, d)
  PROVE  LET rq == Head(h.todo)
         IN  Asks(rq) /\ rq.req \in Asked /\ rq.req \in Requests(mode.bus, h.call.op)
<1> DEFINE rq == Head(h.todo)
           op == h.call.op
<1>1. rq = h.todo[1] /\ 1 \in DOMAIN h.todo
  BY SeqTail DEF HostOK
<1>2. Asks(rq) /\ rq.req \in Requests(mode.bus, op)
  BY <1>1 DEF HostOK, Asking
<1> DEFINE R == Requests(mode.bus, op)
<1>3. /\ op = "Attach" => R = Standards
      /\ op = "Close" => R = {"DISCONNECT"}
      /\ op = "Open" /\ mode.bus = "i2c" => R = {"GETCAPABILITIES", "I2C_INIT"}
      /\ op = "Open" /\ mode.bus = "spi" => R = {"GETCAPABILITIES", "SETISPSCK", "SPI_CONNECT"}
  <2> HIDE DEF op
  <2> QED
    BY DEF Requests
<1>4. op \notin {"Attach", "Close", "Open"} =>
        /\ mode.bus = "spi" => R = {"SPI_READ", "SPI_WRITE"}
        /\ mode.bus = "i2c" => R = {"I2C_READ", "I2C_WRITE", "I2C_START", "I2C_STOP", "I2C_WRITEBYTE",
                                   "I2C_READBYTE"}
  <2> HIDE DEF op
  <2> QED
    BY DEF Requests
<1> HIDE DEF rq, op, R
<1>5. mode.bus = "spi" => Asked = Standards \cup SpiRequests
  BY DEF Asked
<1>6. mode.bus = "i2c" => Asked = Standards \cup I2CRequests
  BY DEF Asked
<1>7. rq.req \in R
  BY <1>2 DEF R
<1>8. CASE mode.bus = "spi"
  <2>1. R \subseteq Standards \cup SpiRequests
    BY <1>3, <1>4, <1>8 DEF SpiRequests
  <2> QED
    BY <1>2, <1>5, <1>7, <1>8, <2>1 DEF rq, op
<1>9. CASE mode.bus = "i2c"
  <2>1. R \subseteq Standards \cup I2CRequests
    BY <1>3, <1>4, <1>9 DEF I2CRequests
  <2> QED
    BY <1>2, <1>6, <1>7, <1>9, <2>1 DEF rq, op
<1> QED
  BY <1>8, <1>9

\* Who asks for what on the SPI bus.
LEMMA WhoAsks ==
  ASSUME mode.bus = "spi", NEW h, HostOK(h), h.todo # <<>>, NEW d, Asking(h, d), Calling(h)
  PROVE  LET rq == Head(h.todo)
         IN  /\ rq.req \in {"SPI_READ", "SPI_WRITE"} => Moves(h) /\ h.addr = 1
             /\ rq.req = "SPI_CONNECT" => SetsUp(h) /\ h.addr = 1
             /\ rq.req \in Standards => h.call.op = "Attach"
<1> DEFINE rq == Head(h.todo)
<1>1. rq.req \in Requests("spi", h.call.op)
  BY Allowed
<1> HIDE DEF rq
<1>2. h.call # NoCall
  BY DEF HostOK
<1>3. CASE h.call.op = "Attach"
  BY <1>1, <1>3 DEF Requests, Standards, rq
<1>4. CASE h.call.op = "Close"
  BY <1>1, <1>4 DEF Requests, Standards, rq
<1>5. CASE SetsUp(h) /\ h.addr = 1
  <2>1. rq.req \in {"GETCAPABILITIES", "SETISPSCK", "SPI_CONNECT"}
    BY <1>1, <1>5 DEF Requests, SetsUp
  <2> QED
    BY <1>5, <2>1 DEF Standards, rq
<1>6. CASE Moves(h) /\ h.addr = 1
  <2>1. rq.req \in {"SPI_READ", "SPI_WRITE"}
    BY <1>1, <1>6 DEF Requests, Moves
  <2> QED
    BY <1>6, <2>1 DEF Standards, rq
<1> QED
  BY <1>2, <1>3, <1>4, <1>5, <1>6 DEF Calling

\* No transfer is under way: only what lasts from one to the next counts.
LEMMA BetweenFrames ==
  ASSUME mode.bus \in {"spi", "i2c"}, NEW h, h.phase = "setup", NEW d, NEW p,
         PinsOK(d.fw.pins), Asking(h, d), mode.bus = "i2c" => Started(d),
         mode.bus = "spi" => d.fw.state \in {Idle, "SPI_READ", "SPI_WRITE"} /\ Calling(h) /\ Rests(h, d, p)
  PROVE  FrameOK(h, d, p)
<1>1. ~Reaches(h, d)
  BY DEF Reaches, Serves
<1> QED
  BY <1>1 DEF FrameOK, SpiOK, Moving, SpiReads, SpiWrites, SpiConnects

\* A program started anew has lost its address.
LEMMA RunningFrames ==
  ASSUME mode.bus \in {"spi", "i2c"}, NEW h, HostOK(h), NEW d, NEW p, FrameOK(h, d, p), NEW e,
         e.fw.pins.cpu # "restart" => FrameOK(h, e, p),
         mode.bus = "i2c" => IsSeq(e.fw.pins.wire),
         mode.bus = "spi" /\ p = "open" => e.fw.pins.cpu # "restart"
  PROVE  FrameOK(h, Running(e), p)
<1>1. CASE e.fw.pins.cpu # "restart"
  BY <1>1 DEF Running
<1>2. CASE e.fw.pins.cpu = "restart"
  <2> DEFINE g == [PoweredUp EXCEPT !.fw.pins.wire = e.fw.pins.wire]
  <2>1. Running(e) = g
    BY <1>2 DEF Running
  <2>2. /\ g.rx = Nothing /\ g.addr = 0 /\ g.fw.state = Idle /\ DOMAIN g.fw.pins = PinFields
        /\ g.fw.pins.spcr = 0 /\ g.fw.pins.sdaLow = FALSE /\ g.fw.pins.wire = e.fw.pins.wire
    BY DEF PoweredUp, Static, PowerUp, PinFields
  <2> HIDE DEF g
  <2>3. PinsOK(g.fw.pins) /\ Asking(h, g)
    BY <2>2, EmptyBuffers DEF PinsOK, Asking, FrameOK
  <2>4. mode.bus = "i2c" => Started(g)
    BY <2>2 DEF Started, StartedLow
  <2>5. ASSUME mode.bus = "spi" PROVE SpiOK(h, g, p)
    <3>1. Calling(h) /\ Asking(h, d) /\ p # "open"
      BY <1>2, <2>5 DEF FrameOK, SpiOK
    <3>2. ASSUME Reaches(h, g) PROVE Head(h.todo).req \notin {"SPI_READ", "SPI_WRITE", "SPI_CONNECT"}
      <4>1. h.addr # 1 /\ h.todo # <<>>
        BY <2>2, <3>2 DEF Reaches, Serves, HostOK
      <4> QED
        BY <2>5, <3>1, <4>1, WhoAsks
    <3>3. Moving(h, g)
      BY <3>2 DEF Moving, SpiReads, SpiWrites, SpiConnects
    <3> QED
      BY <2>2, <3>1, <3>3 DEF SpiOK, Rests
  <2> QED
    BY <2>1, <2>3, <2>4, <2>5 DEF FrameOK
<1> QED
  BY <1>1, <1>2

\* The device has sent its packet to a host that is served.
LEMMA SentFrames ==
  ASSUME NEW h, HostOK(h), h.phase # "setup", NEW d, DevOK(d), d.rx = Nothing, d.addr = h.addr,
         NEW p, FrameOK(h, d, p)
  PROVE  FrameOK(h, Sent(d), p)
<1> DEFINE e == Sent(d)
           len == Head(h.todo).len
<1>1. /\ e.rx = d.rx /\ e.tx = Nak /\ e.fw = d.fw /\ e.msgLen = d.msgLen /\ (e.userRW <=> d.userRW)
  BY SentDetails
<1> HIDE DEF e
<1>2. Reaches(h, d)
  BY EmptyBuffers DEF Reaches, Serves
<1>3. ASSUME SpiReads(h, d) PROVE SpiReads(h, e)
  <2>1. SUFFICES ASSUME Head(h.todo).req = "SPI_READ"
                 PROVE  /\ Taking(h, e) + d.fw.nbytes <= len
                        /\ Taking(h, e) = len => Closed(d.fw)
    BY <1>1, <1>2, <1>3 DEF SpiReads
  <2>2. /\ Taking(h, d) + d.fw.nbytes <= len
        /\ Taking(h, d) = len => Closed(d.fw)
    BY <1>2, <1>3, <2>1 DEF SpiReads
  <2> DEFINE n == IF d.tx.pid = "DATA" THEN Len(d.tx.data) ELSE 0
  <2>3. n \in Nat /\ Len(h.got) \in Nat /\ len \in Int /\ d.fw.nbytes \in Nat
    <3>1. len \in Int
      BY SeqTail DEF HostOK, Asks
    <3> QED
      BY <3>1, OfferedIs, SeqLen DEF HostOK, DevOK, FwOK
  <2>4. Taking(h, d) = Len(h.got) + n /\ Taking(h, e) = Len(h.got)
    BY <1>1, <2>3, EmptyBuffers DEF Taking
  <2> HIDE DEF n, len
  <2> QED
    BY <2>2, <2>3, <2>4
<1>4. SpiWrites(h, d) => SpiWrites(h, e)
  BY <1>1, <1>2 DEF SpiWrites
<1>5. SpiConnects(h, d) => SpiConnects(h, e)
  BY <1>1, <1>2 DEF SpiConnects
<1>6. SpiOK(h, d, p) => SpiOK(h, e, p)
  BY <1>1, <1>3, <1>4, <1>5 DEF SpiOK, Moving, Rests
<1>7. FrameOK(h, e, p)
  BY <1>1, <1>6 DEF FrameOK, Asking, Started
<1> QED
  BY <1>7 DEF e

-----------------------------------------------------------------------------
(***************************************************************************)
(* The driver's steps and the frames.                                      *)
(***************************************************************************)
\* A byte more or less of a closed frame.
LEMMA ClosedOn ==
  ASSUME NEW f, NEW g, Closed(f), g.csHi = f.csHi, Released(f.pins, g.pins)
  PROVE  Closed(g)
BY DEF Closed, Released

\* usbPoll: the next packet, on the I2C bus.
LEMMA PollTxStarted ==
  ASSUME DevOK(dev), mode.bus = "i2c", FrameOK(host, dev, port), PollTx
  PROVE  FrameOK(host, usbBuildTxBlock(dev), port)
<1> DEFINE d == dev
           e == usbBuildTxBlock(d)
<1>1. d.tx \in {Nak, Stall} /\ d.msgLen # NoMsg /\ d.fw.pins.cpu = "running" /\ d.rx = Nothing
  BY DEF PollTx, TxPending, Loops
<1>2. FwOK(d.fw) /\ PinsOK(d.fw.pins) /\ Started(d) /\ Asking(host, d)
  BY DEF DevOK, FrameOK
<1>3. e.rx = d.rx
  BY <1>1, BlockDetails
<1>4. e.fw = d.fw \/ \E n \in Nat : d.fw.state \in Readable /\ e.fw = usbFunctionRead(d.fw, n).fw
  BY <1>1, BlockDetails
<1> HIDE DEF e
<1>5. ASSUME e.fw = d.fw PROVE FrameOK(host, e, port)
  <2>1. Started(e) /\ Asking(host, e)
    BY <1>2, <1>3, <1>5 DEF Started, Asking
  <2> QED
    BY <1>2, <1>5, <2>1 DEF FrameOK
<1>6. ASSUME NEW n \in Nat, d.fw.state \in Readable, e.fw = usbFunctionRead(d.fw, n).fw
      PROVE  FrameOK(host, e, port)
  <2>1. d.fw.state = "I2C_READ"
    BY <1>2, <1>6, Names DEF Started, Idle
  <2>2. Ran(d.fw, d.fw.pins, e.fw.pins)
    BY <1>2, <1>6, <2>1, ReadRuns DEF MemReads
  <2>3. StartedLow(e.fw.pins) /\ PinsOK(e.fw.pins)
    BY <1>2, <2>1, <2>2 DEF Ran, Keeps, Started
  <2>4. e.fw.state \in {d.fw.state, Idle}
    <3>1. ReadFits(d.fw, n, usbFunctionRead(d.fw, n))
      BY <1>2, ReadKeeps
    <3> QED
      BY <1>6, <2>1, <3>1 DEF ReadFits, IspReads
  <2> QED
    BY <1>2, <1>3, <2>1, <2>3, <2>4 DEF FrameOK, Started, Asking
<1> QED
  BY <1>4, <1>5, <1>6 DEF e

\* The same on the SPI bus.
LEMMA PollTxClosed ==
  ASSUME HostOK(host), DevOK(dev), mode.bus = "spi", FrameOK(host, dev, port), PollTx
  PROVE  LET e == usbBuildTxBlock(dev)
         IN  /\ e.fw.pins.cpu # "restart" => FrameOK(host, e, port)
             /\ port = "open" => e.fw.pins.cpu # "restart"
<1> DEFINE h   == host
           d   == dev
           e   == usbBuildTxBlock(d)
           rq  == Head(h.todo)
           len == rq.len
           held(x) == IF x.tx.pid = "DATA" THEN Len(x.tx.data) ELSE 0
<1>1. d.tx \in {Nak, Stall} /\ d.msgLen # NoMsg /\ d.fw.pins.cpu = "running" /\ d.rx = Nothing
  BY DEF PollTx, TxPending, Loops
<1>2. FwOK(d.fw) /\ PinsOK(d.fw.pins) /\ Asking(h, d) /\ SpiOK(h, d, port)
  BY DEF DevOK, FrameOK
<1>3. /\ d.fw.state \in {Idle, "SPI_READ", "SPI_WRITE"} /\ Moving(h, d) /\ Calling(h) /\ Rests(h, d, port)
  BY <1>2 DEF SpiOK
<1>4. e.rx = d.rx /\ e.addr = d.addr /\ (e.userRW <=> d.userRW)
  BY <1>1, BlockDetails
<1>5. \/ e.fw = d.fw /\ (e.tx = Stall \/ (e.tx.pid = "DATA" /\ (d.userRW => Len(e.tx.data) = 0)))
      \/ /\ d.userRW /\ d.fw.state \in Readable
         /\ \E n \in Nat :
              LET r == usbFunctionRead(d.fw, n)
              IN  e.fw = r.fw /\ IF r.fw.pins.cpu = "hung" THEN e.tx = d.tx
                                 ELSE e.tx.pid = "DATA" /\ e.tx.data = r.data
  BY <1>1, BlockDetails
<1> HIDE DEF e
<1>6. Reaches(h, e) <=> Reaches(h, d)
  BY <1>4 DEF Reaches, Serves
<1>7. Taking(h, d) = Len(h.got) /\ Len(h.got) \in Nat
  <2>1. d.tx.pid # "DATA"
    BY <1>1, EmptyBuffers
  <2>2. Len(h.got) \in Nat
    BY SeqLen DEF HostOK
  <2> QED
    BY <2>1, <2>2 DEF Taking
<1>8. ASSUME Reaches(h, d) PROVE len \in Int
  BY <1>8, SeqTail DEF Reaches, Serves, HostOK, Asks
<1>9. CASE e.fw = d.fw /\ (e.tx = Stall \/ (e.tx.pid = "DATA" /\ (d.userRW => Len(e.tx.data) = 0)))
  <2>1. ASSUME d.userRW PROVE Taking(h, e) = Taking(h, d)
    <3>1. held(e) = 0
      BY <1>9, <2>1, EmptyBuffers
    <3>2. Taking(h, e) = Len(h.got) + held(e)
      BY DEF Taking
    <3> HIDE DEF held
    <3> QED
      BY <1>7, <3>1, <3>2
  <2>2. SpiReads(h, e)
    BY <1>3, <1>4, <1>6, <1>9, <2>1 DEF Moving, SpiReads
  <2>3. SpiWrites(h, e)
    BY <1>1, <1>3, <1>4, <1>6, <1>9 DEF Moving, SpiWrites
  <2>4. SpiConnects(h, e)
    BY <1>3, <1>4, <1>6, <1>9 DEF Moving, SpiConnects
  <2>5. SpiOK(h, e, port)
    BY <1>3, <1>4, <1>9, <2>2, <2>3, <2>4 DEF SpiOK, Moving, Rests
  <2>6. FrameOK(h, e, port)
    BY <1>2, <1>4, <1>9, <2>5 DEF FrameOK, Asking
  <2> QED
    BY <1>1, <1>9, <2>6 DEF e
<1>10. ASSUME d.userRW, d.fw.state \in Readable, NEW n \in Nat, e.fw = usbFunctionRead(d.fw, n).fw,
              IF e.fw.pins.cpu = "hung" THEN e.tx = d.tx
              ELSE e.tx.pid = "DATA" /\ e.tx.data = usbFunctionRead(d.fw, n).data
       PROVE  /\ e.fw.pins.cpu # "restart" => FrameOK(h, e, port)
              /\ port = "open" => e.fw.pins.cpu # "restart"
  <2> DEFINE r == usbFunctionRead(d.fw, n)
             b == Len(r.data)
  <2>1. d.fw.state = "SPI_READ"
    BY <1>3, <1>10, Names DEF Idle
  <2>2. /\ PinsOK(e.fw.pins) /\ e.fw.pins.transmit = d.fw.pins.transmit /\ Released(d.fw.pins, e.fw.pins)
        /\ e.fw.csHi = d.fw.csHi
        /\ e.fw.pins.cpu = "running" /\ e.fw.nbytes = 0 => Closed(e.fw)
    BY <1>2, <1>10, <2>1, ReadDraws
  <2>3. /\ IsSeq(r.data) /\ e.fw.nbytes = d.fw.nbytes - b /\ e.fw.state \in {"SPI_READ", Idle} /\ FwOK(e.fw)
    <3>1. ReadFits(d.fw, n, r)
      BY <1>2, ReadKeeps
    <3> QED
      BY <1>10, <2>1, <3>1 DEF ReadFits, IspReads
  <2>4. b \in Nat
    BY <2>3, SeqLen
  <2>5. port = "open" => e.fw.pins.cpu # "restart"
    BY <1>1, <1>3, <2>2 DEF Rests, Released
  <2>6. IF e.fw.pins.cpu = "hung" THEN e.tx = d.tx ELSE e.tx.pid = "DATA" /\ e.tx.data = r.data
    BY <1>10
  <2> HIDE DEF r
  <2>7. Taking(h, e) = Len(h.got) + (IF e.fw.pins.cpu = "hung" THEN 0 ELSE b)
    <3>1. CASE e.fw.pins.cpu = "hung"
      BY <1>1, <1>7, <2>6, <3>1, EmptyBuffers DEF Taking
    <3>2. CASE e.fw.pins.cpu # "hung"
      BY <2>6, <3>2 DEF Taking
    <3> QED
      BY <3>1, <3>2
  <2> HIDE DEF b
  <2>8. ASSUME e.fw.pins.cpu # "restart" PROVE SpiReads(h, e)
    <3>1. SUFFICES ASSUME Reaches(h, d), rq.req = "SPI_READ"
                   PROVE  /\ d.fw.csHi = rq.value
                          /\ Taking(h, e) + e.fw.nbytes <= len
                          /\ Taking(h, e) = len => Closed(e.fw)
      BY <1>4, <1>6, <1>10, <2>2, <2>3 DEF SpiReads
    <3>2. /\ d.fw.csHi = rq.value
          /\ Taking(h, d) + d.fw.nbytes <= len
          /\ Taking(h, d) = len => Closed(d.fw)
      BY <1>3, <3>1 DEF Moving, SpiReads
    <3>3. len \in Int /\ d.fw.nbytes \in Nat /\ e.fw.nbytes \in Nat
      BY <1>2, <1>8, <2>3, <3>1 DEF FwOK
    <3> DEFINE g == Len(h.got)
               m == d.fw.nbytes
               k == e.fw.nbytes
    <3>4. g \in Nat /\ m \in Nat /\ k \in Nat /\ b \in Nat /\ len \in Int /\ k = m - b /\ g + m <= len
      BY <1>7, <2>3, <2>4, <3>2, <3>3
    <3>5. Taking(h, e) = g \/ (Taking(h, e) = g + b /\ e.fw.pins.cpu # "hung")
      BY <1>7, <2>7
    <3>6. Taking(h, d) = g
      BY <1>7
    <3> HIDE DEF g, m, len
    <3>7. Taking(h, e) + k <= len
      BY <3>4, <3>5
    <3>8. ASSUME Taking(h, e) = len PROVE Closed(e.fw)
      <4>1. CASE Taking(h, e) = g
        BY <2>2, <3>2, <3>6, <3>8, <4>1, ClosedOn DEF len
      <4>2. CASE Taking(h, e) = g + b /\ e.fw.pins.cpu # "hung"
        <5>1. k = 0
          BY <3>4, <3>7, <3>8, <4>2
        <5>2. e.fw.pins.cpu = "running"
          BY <1>1, <2>2, <2>8, <4>2 DEF Released
        <5> QED
          BY <2>2, <5>1, <5>2
      <4> QED
        BY <3>5, <4>1, <4>2
    <3> QED
      BY <3>2, <3>7, <3>8 DEF len
  <2>9. SpiWrites(h, e) /\ SpiConnects(h, e)
    BY <1>3, <1>6, <1>10, <2>1 DEF Moving, SpiWrites, SpiConnects
  <2>10. Rests(h, e, port)
    BY <1>3, <1>4, <2>2 DEF Rests, Released
  <2>11. e.fw.pins.cpu # "restart" => SpiOK(h, e, port)
    BY <1>3, <2>3, <2>8, <2>9, <2>10 DEF SpiOK, Moving
  <2>12. Asking(h, e)
    BY <1>2, <1>4 DEF Asking
  <2> QED
    BY <2>2, <2>5, <2>11, <2>12 DEF FrameOK
<1>11. /\ e.fw.pins.cpu # "restart" => FrameOK(h, e, port)
       /\ port = "open" => e.fw.pins.cpu # "restart"
  BY <1>5, <1>9, <1>10 DEF e
<1> QED
  BY <1>11 DEF e

\* usbPoll: the next packet.
LEMMA PollTxFrames ==
  ASSUME HostOK(host), DevOK(dev), mode.bus \in {"spi", "i2c"}, FrameOK(host, dev, port), PollTx
  PROVE  FrameOK(host, dev', port)
<1> DEFINE e == usbBuildTxBlock(dev)
<1>1. dev' = Running(e)
  BY DEF PollTx
<1>2. e.fw.pins.cpu # "restart" => FrameOK(host, e, port)
  BY PollTxStarted, PollTxClosed
<1>3. mode.bus = "i2c" => IsSeq(e.fw.pins.wire)
  BY PollTxStarted DEF FrameOK, Started, StartedLow
<1>4. mode.bus = "spi" /\ port = "open" => e.fw.pins.cpu # "restart"
  BY PollTxClosed
<1> HIDE DEF e
<1> QED
  BY <1>1, <1>2, <1>3, <1>4, RunningFrames

\* usbPoll: a request.
LEMMA SetupFrames ==
  ASSUME HostOK(host), DevOK(dev), Fetching(host, dev), mode.bus \in {"spi", "i2c"},
         FrameOK(host, dev, port), PollRx, dev.rx.pid = "SETUP"
  PROVE  FrameOK(host, dev', port)
<1> DEFINE h  == host
           d  == dev
           rq == d.rx.data
           e  == SetupReceived(d, rq)
           r  == usbFunctionSetup(d.fw, rq)
<1>1. dev' = Running(e) /\ d.rx # Nothing /\ d.fw.pins.cpu = "running"
  BY DEF PollRx, RxPending, Loops, usbProcessRx
<1>2. Asks(rq) /\ rq.req \in Asked
  BY EmptyBuffers DEF DevOK, RxOK, FrameOK, Asking
<1>3. FwOK(d.fw) /\ PinsOK(d.fw.pins) /\ Asking(h, d)
  BY DEF DevOK, FrameOK
<1> HIDE DEF rq
<1>4. /\ e.tx = Nak /\ e.rx = Nothing /\ e.addr = d.addr
      /\ rq.type = "standard" => e.fw = d.fw /\ ~e.userRW
      /\ rq.type = "vendor" =>
           /\ e.fw = r.fw
           /\ e.userRW <=> rq.req \in Readable \cup Writable
           /\ e.userRW => e.msgLen = IF rq.dir = "in" THEN rq.len ELSE NoMsg
  BY <1>2, SetupDetails, SetupAddress
<1>5. Reaches(h, e) => rq = Head(h.todo) /\ h.got = <<>> /\ h.todo # <<>>
  BY DEF Reaches, Serves, Fetching, HostOK, rq
<1>6. Asking(h, e)
  BY <1>3, <1>4, EmptyBuffers DEF Asking
<1>7. /\ rq.type = "vendor" => PinsOK(r.fw.pins)
      /\ rq.type = "vendor" /\ mode.bus = "i2c" => rq.req \in I2CRequests
      /\ rq.type = "vendor" /\ mode.bus = "spi" => rq.req \in SpiRequests
      /\ rq.type = "standard" => rq.req \notin SpiRequests /\ rq.req \in Standards
      /\ rq.type \in {"vendor", "standard"}
  <2>1. rq.type = "vendor" => rq.req \notin Standards
    BY <1>2 DEF Asks, Vendors, Standards, Memory, IspReads, IspWrites, Atomic
  <2>2. rq.type = "standard" => rq.req \in Standards
    BY <1>2 DEF Asks
  <2>3. rq.req \in Standards => rq.req \notin SpiRequests
    BY DEF Standards, SpiRequests
  <2>4. rq.type \in {"vendor", "standard"}
    BY <1>2 DEF Asks
  <2>5. rq.type = "vendor" /\ mode.bus = "i2c" => rq.req \in I2CRequests
    BY <1>2, <2>1 DEF Asked
  <2>6. rq.type = "vendor" /\ mode.bus = "spi" => rq.req \in SpiRequests
    BY <1>2, <2>1 DEF Asked
  <2>7. SpiRequests \cup I2CRequests \subseteq MemoryRequests
    BY DEF SpiRequests, I2CRequests, MemoryRequests, Memory
  <2>8. rq.type = "vendor" => PinsOK(r.fw.pins)
    BY <1>3, <2>5, <2>6, <2>7, SetupRuns
  <2> QED
    BY <2>2, <2>3, <2>4, <2>5, <2>6, <2>8
<1> HIDE DEF e, r
<1>8. PinsOK(e.fw.pins)
  BY <1>3, <1>4, <1>7
<1>9. CASE mode.bus = "i2c"
  <2>1. Started(d)
    BY <1>9 DEF FrameOK
  <2>2. rq.type = "vendor" => StartedLow(r.fw.pins) /\ r.fw.state \in {Idle, "I2C_READ", "I2C_WRITE"}
    BY <1>3, <1>7, <1>9, <2>1, SetupStarts DEF Started, r
  <2>3. Started(e)
    BY <1>4, <1>7, <2>1, <2>2 DEF Started
  <2>4. FrameOK(h, e, port)
    BY <1>6, <1>8, <1>9, <2>3 DEF FrameOK
  <2> QED
    BY <1>1, <1>9, <2>3, <2>4, RunningFrames DEF e, Started, StartedLow
<1>10. CASE mode.bus = "spi"
  <2>1. d.fw.state \in {Idle, "SPI_READ", "SPI_WRITE"} /\ Calling(h) /\ Rests(h, d, port)
    BY <1>10 DEF FrameOK, SpiOK
  <2>2. ASSUME rq.type = "vendor"
        PROVE  /\ r.fw.state = d.fw.state \/ (r.fw.state = rq.req /\ rq.req \in {"SPI_READ", "SPI_WRITE"})
               /\ d.fw.pins.transmit # "unset" => r.fw.pins.transmit # "unset"
               /\ r.fw.pins.cpu = d.fw.pins.cpu
               /\ rq.req = "SPI_CONNECT" => r.fw.pins.transmit # "unset" /\ r.fw.pins.rst = "high"
               /\ rq.req \in {"SPI_READ", "SPI_WRITE"} =>
                    r.fw.state = rq.req /\ r.fw.nbytes = rq.len /\ r.fw.csHi = rq.value
    BY <1>3, <1>7, <1>10, <2>2, SetupSelects DEF r
  <2>3. /\ e.fw.state \in {Idle, "SPI_READ", "SPI_WRITE"} /\ e.fw.pins.cpu = "running"
        /\ d.fw.pins.transmit # "unset" => e.fw.pins.transmit # "unset"
    BY <1>1, <1>4, <1>7, <2>1, <2>2
  <2>4. rq.req \in {"SPI_READ", "SPI_WRITE", "SPI_CONNECT"} => rq.type = "vendor"
    BY <1>7 DEF SpiRequests
  <2>5. ASSUME Reaches(h, e), rq.req \in {"SPI_READ", "SPI_WRITE"}
        PROVE  /\ e.userRW /\ e.fw.state = rq.req /\ e.fw.csHi = rq.value /\ e.fw.nbytes = rq.len
               /\ rq.len \in Nat \ {0} /\ rq.dir = (IF rq.req = "SPI_READ" THEN "in" ELSE "out")
               /\ Taking(h, e) = 0
    <3>1. e.fw.state = rq.req /\ e.fw.csHi = rq.value /\ e.fw.nbytes = rq.len
      BY <1>4, <2>2, <2>4, <2>5
    <3>2. e.userRW
      BY <1>4, <2>4, <2>5, Names
    <3>3. Moves(h)
      BY <1>3, <1>5, <1>10, <2>1, <2>5, WhoAsks
    <3>4. rq.len \in Nat \ {0} /\ rq.dir = (IF rq.req = "SPI_READ" THEN "in" ELSE "out")
      BY <1>5, <2>5, <3>3, MoveIs
    <3>5. Taking(h, e) = 0
      BY <1>4, <1>5, <2>5, EmptyBuffers, SeqShort DEF Taking
    <3> QED
      BY <3>1, <3>2, <3>4, <3>5
  <2>6. SpiReads(h, e)
    BY <1>5, <2>5 DEF SpiReads
  <2>7. SpiWrites(h, e)
    <3>1. SUFFICES ASSUME Reaches(h, e), rq.req = "SPI_WRITE" PROVE e.msgLen = NoMsg
      BY <1>4, <1>5, <2>5 DEF SpiWrites
    <3> QED
      BY <1>4, <2>4, <2>5, <3>1
  <2>8. SpiConnects(h, e)
    <3>1. SUFFICES ASSUME Reaches(h, e), rq.req = "SPI_CONNECT"
                   PROVE  ~e.userRW /\ e.fw.pins.transmit # "unset" /\ e.fw.pins.rst = "high"
      BY <1>5 DEF SpiConnects
    <3> QED
      BY <1>4, <2>2, <2>4, <3>1, Names
  <2>9. Rests(h, e, port)
    BY <1>1, <1>4, <2>1, <2>3 DEF Rests
  <2>10. FrameOK(h, e, port)
    BY <1>6, <1>8, <1>10, <2>1, <2>3, <2>6, <2>7, <2>8, <2>9 DEF FrameOK, SpiOK, Moving
  <2> QED
    BY <1>1, <1>10, <2>3, <2>10, RunningFrames DEF e
<1> QED
  BY <1>9, <1>10

\* usbPoll: data of the host.
LEMMA OutFrames ==
  ASSUME HostOK(host), DevOK(dev), mode.bus \in {"spi", "i2c"},
         FrameOK(host, dev, port), PollRx, dev.rx.pid # "SETUP"
  PROVE  FrameOK(host, dev', port)
<1> DEFINE h    == host
           d    == dev
           data == d.rx.data
           e    == OutReceived(d, data)
           g    == usbFunctionWrite(d.fw, data)
           rq   == Head(h.todo)
<1>1. dev' = Running(e) /\ d.rx # Nothing /\ d.fw.pins.cpu = "running"
  BY DEF PollRx, RxPending, Loops, usbProcessRx
<1>2. IsSeq(data)
  BY <1>1 DEF DevOK, RxOK
<1>3. FwOK(d.fw) /\ PinsOK(d.fw.pins) /\ Asking(h, d)
  BY DEF DevOK, FrameOK
<1>4. /\ e.rx \in {Nothing, d.rx} /\ e.addr = d.addr /\ (e.userRW <=> d.userRW)
      /\ ~d.userRW => e.fw = d.fw /\ e.tx = d.tx /\ e.msgLen = d.msgLen
      /\ d.userRW /\ d.fw.state \notin Writable => e.fw = d.fw /\ e.tx = Stall /\ e.msgLen = d.msgLen
      /\ d.userRW /\ d.fw.state \in Writable =>
           /\ e.fw = g /\ e.tx = d.tx
           /\ \/ e.msgLen = d.msgLen
              \/ g.pins.cpu # "hung" /\ (g.nbytes = 0 \/ g.state = Idle)
  BY OutDetails
<1> HIDE DEF data, e, g
<1>5. e.rx.pid # "SETUP"
  BY <1>4, EmptyBuffers
<1>6. Asking(h, e)
  BY <1>3, <1>5 DEF Asking
<1>7. CASE mode.bus = "i2c"
  <2>1. Started(d)
    BY <1>7 DEF FrameOK
  <2>2. ASSUME d.fw.state \in Writable
        PROVE  StartedLow(g.pins) /\ PinsOK(g.pins) /\ g.state \in {Idle, "I2C_WRITE"}
    <3>1. d.fw.state = "I2C_WRITE"
      BY <2>1, <2>2, Names DEF Started, Idle
    <3>2. Ran(d.fw, d.fw.pins, g.pins)
      BY <1>2, <1>3, <3>1, WriteRuns DEF MemWrites, g
    <3>3. WriteFits(d.fw, data, g)
      BY <1>2, <1>3, WriteKeeps DEF g
    <3> QED
      BY <2>1, <3>1, <3>2, <3>3 DEF Started, Ran, Keeps, WriteFits, IspWrites
  <2>3. Started(e) /\ PinsOK(e.fw.pins)
    BY <1>3, <1>4, <2>1, <2>2 DEF Started
  <2>4. FrameOK(h, e, port)
    BY <1>6, <1>7, <2>3 DEF FrameOK
  <2> QED
    BY <1>1, <1>7, <2>3, <2>4, RunningFrames DEF Started, StartedLow
<1>8. CASE mode.bus = "spi"
  <2>1. d.fw.state \in {Idle, "SPI_READ", "SPI_WRITE"} /\ Moving(h, d) /\ Calling(h) /\ Rests(h, d, port)
    BY <1>8 DEF FrameOK, SpiOK
  <2>2. Reaches(h, e) <=> Reaches(h, d)
    BY <1>4, <1>5 DEF Reaches, Serves
  <2>3. ASSUME d.fw.state \in Writable
        PROVE  /\ d.fw.state = "SPI_WRITE"
               /\ PinsOK(g.pins) /\ g.pins.transmit = d.fw.pins.transmit /\ Released(d.fw.pins, g.pins)
               /\ g.csHi = d.fw.csHi /\ g.state = d.fw.state
               /\ g.pins.cpu = "running" /\ g.nbytes = 0 => Closed(g)
    <3>1. d.fw.state = "SPI_WRITE"
      BY <2>1, <2>3, Names DEF Idle
    <3> QED
      BY <1>2, <1>3, <3>1, WriteDraws DEF g
  <2>4. /\ PinsOK(e.fw.pins) /\ e.fw.pins.transmit = d.fw.pins.transmit /\ Released(d.fw.pins, e.fw.pins)
        /\ e.fw.csHi = d.fw.csHi /\ e.fw.state = d.fw.state
    <3>1. Released(d.fw.pins, d.fw.pins)
      BY DEF Released
    <3> QED
      BY <1>3, <1>4, <2>3, <3>1
  <2>5. port = "open" => e.fw.pins.cpu # "restart"
    BY <1>1, <2>1, <2>4 DEF Rests, Released
  <2>6. SpiReads(h, e)
    <3>1. SUFFICES ASSUME Reaches(h, d), rq.req = "SPI_READ" PROVE SpiReads(h, e)
      BY <2>2 DEF SpiReads
    <3>2. d.userRW /\ d.fw.state \notin Writable
      BY <2>1, <3>1, Names DEF Moving, SpiReads, Idle
    <3>3. e.fw = d.fw /\ e.tx = Stall
      BY <1>4, <3>2
    <3> DEFINE n   == IF d.tx.pid = "DATA" THEN Len(d.tx.data) ELSE 0
               m   == Len(h.got)
               len == rq.len
    <3>4. n \in Nat /\ m \in Nat /\ len \in Int /\ d.fw.nbytes \in Nat
      <4>1. n \in Nat
        BY OfferedIs
      <4>2. m \in Nat
        BY SeqLen DEF HostOK
      <4>3. len \in Int
        BY <3>1, SeqTail DEF Reaches, Serves, HostOK, Asks
      <4> QED
        BY <1>3, <4>1, <4>2, <4>3 DEF FwOK
    <3>5. Taking(h, d) = m + n
      BY DEF Taking
    <3>6. Taking(h, e) = m
      BY <3>3, <3>4, EmptyBuffers DEF Taking
    <3>7. /\ Taking(h, d) + d.fw.nbytes <= len
          /\ Taking(h, d) = len => Closed(d.fw)
          /\ d.userRW /\ d.fw.state \in {"SPI_READ", Idle} /\ d.fw.csHi = rq.value
      BY <2>1, <3>1 DEF Moving, SpiReads
    <3> HIDE DEF n, m, len
    <3>8. Taking(h, e) + d.fw.nbytes <= len
      BY <3>4, <3>5, <3>6, <3>7
    <3>9. Taking(h, e) = len => Taking(h, d) = len
      BY <3>4, <3>5, <3>6, <3>7
    <3> QED
      BY <1>4, <3>3, <3>7, <3>8, <3>9 DEF SpiReads, len
  <2>7. ASSUME e.fw.pins.cpu # "restart" PROVE SpiWrites(h, e)
    <3>1. SUFFICES ASSUME Reaches(h, d), rq.req = "SPI_WRITE", e.msgLen # NoMsg \/ e.tx # Nak
                   PROVE  Closed(e.fw)
      BY <1>4, <2>1, <2>2, <2>4 DEF Moving, SpiWrites
    <3>2. d.userRW /\ d.fw.state = "SPI_WRITE" /\ (d.msgLen # NoMsg \/ d.tx # Nak => Closed(d.fw))
      BY <2>1, <3>1 DEF Moving, SpiWrites
    <3>3. d.fw.state \in Writable /\ d.fw.state # Idle
      BY <3>2, Names DEF Idle
    <3>4. /\ e.fw = g /\ e.tx = d.tx
          /\ \/ e.msgLen = d.msgLen
             \/ g.pins.cpu # "hung" /\ (g.nbytes = 0 \/ g.state = Idle)
      BY <1>4, <3>2, <3>3
    <3>5. CASE Closed(d.fw)
      BY <2>4, <3>5, ClosedOn
    <3>6. CASE g.pins.cpu # "hung" /\ (g.nbytes = 0 \/ g.state = Idle)
      <4>1. g.pins.cpu = "running"
        BY <1>1, <2>4, <2>7, <3>4, <3>6 DEF Released
      <4> QED
        BY <2>3, <3>3, <3>4, <3>6, <4>1
    <3> QED
      BY <3>1, <3>2, <3>4, <3>5, <3>6
  <2>8. SpiConnects(h, e)
    <3>1. SUFFICES ASSUME Reaches(h, d), rq.req = "SPI_CONNECT" PROVE SpiConnects(h, e)
      BY <2>2 DEF SpiConnects
    <3>2. ~d.userRW /\ d.fw.pins.transmit # "unset" /\ d.fw.pins.rst = "high"
      BY <2>1, <3>1 DEF Moving, SpiConnects
    <3> QED
      BY <1>4, <3>2 DEF SpiConnects
  <2>9. Rests(h, e, port)
    BY <1>1, <2>1, <2>4 DEF Rests
  <2>10. e.fw.pins.cpu # "restart" => FrameOK(h, e, port)
    BY <1>6, <1>8, <2>1, <2>4, <2>6, <2>7, <2>8, <2>9 DEF FrameOK, SpiOK, Moving
  <2> QED
    BY <1>1, <1>8, <2>5, <2>10, RunningFrames
<1> QED
  BY <1>7, <1>8

-----------------------------------------------------------------------------
(***************************************************************************)
(* The calls and the frames.                                               *)
(***************************************************************************)
\* A transfer ends, on either bus.
LEMMA EndsAsking ==
  ASSUME NEW h, HostOK(h), h.todo # <<>>, NEW d, Asking(h, d), NEW result, NEW got, Ends(h, result, got)
  PROVE  Asking(host', d)
<1> DEFINE c == h.call
           g == [h EXCEPT !.total = h.total + result, !.replies = @ \o got, !.todo = Tail(@),
                          !.phase = "setup", !.sent = 0, !.got = <<>>, !.toggle = 1]
<1>1. host' = g \/ \E good, entered : Settled(g, c, good, entered)
  BY Zenon DEF Ends
<1>2. DOMAIN g = HostFields /\ g.todo = Tail(h.todo) /\ g.call = c
  BY DEF HostOK, HostFields
<1> HIDE DEF g
<1>3. CASE host' = g
  <2>1. /\ IsSeq(h.todo) /\ h.todo # <<>>
        /\ \A i \in DOMAIN Tail(h.todo) : i + 1 \in DOMAIN h.todo /\ Tail(h.todo)[i] = h.todo[i + 1]
    BY SeqTail DEF HostOK
  <2> QED
    BY <1>2, <1>3, <2>1 DEF Asking
<1>4. CASE \E good, entered : Settled(g, c, good, entered)
  <2>0. \E a, b : host' = [g EXCEPT !.call = NoCall, !.todo = <<>>, !.entered = a, !.addr = b]
    BY <1>4 DEF Settled
  <2>1. host'.todo = <<>>
    BY <1>2, <2>0 DEF HostFields
  <2>2. DOMAIN host'.todo = {}
    BY <2>1
  <2> QED
    BY <2>2 DEF Asking
<1> QED
  BY <1>1, <1>3, <1>4

\* On the SPI bus: a call that reads or writes ends with its one transfer.
LEMMA EndsMoves ==
  ASSUME mode.bus = "spi", NEW h, HostOK(h), h.todo # <<>>, Moves(h), h.addr = 1, NEW d, Rests(h, d, port),
         NEW result \in Int, NEW got, Ends(h, result, got),
         result = Head(h.todo).len => d.rx = Nothing /\ (h.call.cs = 1 => d.fw.pins.rst = "high")
  PROVE  Calling(host') /\ Rests(host', d, port')
<1> DEFINE c  == h.call
           rq == Head(h.todo)
           g  == [h EXCEPT !.total = h.total + result, !.replies = @ \o got, !.todo = Tail(@),
                           !.phase = "setup", !.sent = 0, !.got = <<>>, !.toggle = 1]
           stop == \/ result # rq.len /\ (c.op = "Attach" \/ rq.req = "SETISPSCK")
                   \/ rq.req = "ENABLEPROG" /\ got # <<0>>
<1>1. /\ Tail(h.todo) = <<>> /\ Wanted(h.todo) = rq.len /\ rq.len \in Nat
      /\ rq.req = (IF c.op = "SPIRead" THEN "SPI_READ" ELSE "SPI_WRITE")
  BY MoveIs
<1>2. c.op \in {"SPIWrite", "SPIRead"} /\ h.todo = Transfers(c) /\ h.total = 0
  BY DEF Moves
<1>3. ~stop
  BY <1>1, <1>2
<1>4. DOMAIN g = HostFields /\ g.todo = <<>> /\ g.addr = h.addr /\ g.inFrame = h.inFrame /\ g.entered = h.entered
  BY <1>1 DEF HostOK, HostFields
<1> DEFINE good == h.total + result = Wanted(Transfers(c)) /\ ~stop
<1>5. /\ host' = [g EXCEPT !.call = NoCall, !.todo = <<>>, !.entered = h.entered,
                           !.addr = IF c.op = "Attach" /\ ~good THEN Unplugged ELSE @]
      /\ port' = IF good THEN port ELSE "broken"
  <2>1. c.op \notin {"Open", "Close", "Attach"}
    BY <1>2
  <2>2. g.todo = <<>>
    BY <1>4
  <2> HIDE DEF g
  <2> QED
    BY <2>1, <2>2 DEF Ends, Settled, g
<1>6. good <=> result = rq.len
  <2>1. h.total + result = result /\ Wanted(Transfers(c)) = rq.len
    BY <1>1, <1>2
  <2> HIDE DEF stop
  <2> QED
    BY <1>3, <2>1
<1> HIDE DEF g, good, stop
<1>7. /\ host'.call = NoCall /\ host'.entered = h.entered /\ host'.addr = h.addr /\ host'.inFrame = h.inFrame
  BY <1>2, <1>4, <1>5 DEF HostFields
<1>8. Rests(host', d, port')
  <2>1. SUFFICES ASSUME port' = "open" PROVE Rests(host', d, port')
    BY DEF Rests
  <2>2. port = "open" /\ result = rq.len
    BY <1>5, <1>6, <2>1
  <2>3. d.rx = Nothing /\ (c.cs = 1 => d.fw.pins.rst = "high")
    BY <2>2
  <2>4. c.cs \in {0, 1} /\ (c.cs = 0 => h.inFrame)
    BY DEF Moves
  <2> HIDE DEF c
  <2>5. h.inFrame \/ d.fw.pins.rst = "high"
    BY <2>3, <2>4
  <2>6. NoCall.op = "none"
    BY DEF NoCall
  <2> QED
    BY <1>7, <2>2, <2>3, <2>5, <2>6 DEF Rests
<1> QED
  BY <1>7, <1>8 DEF Calling

\* The three requests that open a session.
LEMMA EndsSetsUp ==
  ASSUME mode \in Modes, mode.bus = "spi", NEW h, HostOK(h), h.todo # <<>>, SetsUp(h), h.addr = 1,
         NEW d, Rests(h, d, port), NEW result \in Int, result <= Head(h.todo).len, NEW got, Ends(h, result, got),
         result = Head(h.todo).len => d.rx = Nothing,
         result = 0 /\ Head(h.todo).req = "SPI_CONNECT" => d.fw.pins.transmit # "unset" /\ d.fw.pins.rst = "high"
  PROVE  Calling(host') /\ Rests(host', d, port')
<1> DEFINE c  == h.call
           rq == Head(h.todo)
           s  == SetUp(mode)
           total == h.total + result
           g  == [h EXCEPT !.total = total, !.replies = @ \o got, !.todo = Tail(@),
                           !.phase = "setup", !.sent = 0, !.got = <<>>, !.toggle = 1]
           stop == \/ result # rq.len /\ (c.op = "Attach" \/ rq.req = "SETISPSCK")
                   \/ rq.req = "ENABLEPROG" /\ got # <<0>>
           good == total = Wanted(Transfers(c)) /\ ~stop
<1>1. c.op = "Open" /\ h.total \in Int /\ port # "open"
  BY DEF SetsUp, Rests
<1>2. Wanted(Transfers(c)) = 5
  BY <1>1, SetUpIs DEF Transfers
<1>3. PICK refused \in Refused(rq, result) :
        IF g.todo = <<>> \/ stop \/ refused
        THEN Settled(g, c, good, ~refused /\ ~(stop /\ mode.bus \in {"mw", "isp"}))
        ELSE host' = g /\ port' = IF port = "open" /\ result # rq.len THEN "broken" ELSE port
  BY <1>1 DEF Ends
<1> HIDE DEF stop, good, c
<1>4. /\ DOMAIN g = HostFields /\ g.todo = Tail(h.todo) /\ g.call = c /\ g.total = total
      /\ g.addr = h.addr
  BY DEF HostOK, HostFields, c
<1>5. total \in Int
  BY <1>1
<1> HIDE DEF g, s, total
<1>6. CASE ~(g.todo = <<>> \/ stop \/ refused)
  <2>1. host' = g /\ port' = port
    BY <1>1, <1>3, <1>6
  <2>2. SetsUp(g)
    <3>1. CASE h.todo = s /\ h.total <= 0
      <4>1. rq.len = 4
        BY <3>1, SetUpIs DEF s
      <4>2. total <= 4
        BY <1>1, <3>1, <4>1 DEF total
      <4> QED
        BY <1>1, <1>4, <1>5, <3>1, <4>2 DEF SetsUp, s
    <3>2. CASE h.todo = Tail(s) /\ h.total <= 4
      <4>1. rq.len = 1
        BY <3>2, SetUpIs DEF s
      <4>2. total <= 5
        BY <1>1, <3>2, <4>1 DEF total
      <4> QED
        BY <1>1, <1>4, <1>5, <3>2, <4>2 DEF SetsUp, s
    <3>3. CASE h.todo = Tail(Tail(s))
      BY <1>4, <1>6, <3>3, SetUpIs DEF s
    <3> QED
      BY <3>1, <3>2, <3>3 DEF SetsUp, s
  <2> QED
    BY <1>1, <1>4, <2>1, <2>2 DEF Calling, Rests
<1>7. CASE g.todo = <<>> \/ stop \/ refused
  <2>1. Settled(g, c, good, ~refused /\ ~(stop /\ mode.bus \in {"mw", "isp"}))
    BY <1>3, <1>7
  <2>2. /\ host' = [g EXCEPT !.call = NoCall, !.todo = <<>>,
                             !.entered = ~refused /\ ~(stop /\ mode.bus \in {"mw", "isp"}),
                             !.addr = IF c.op = "Attach" /\ ~good THEN Unplugged ELSE @]
        /\ port' = IF good THEN "open" ELSE "broken"
    BY <1>1, <2>1 DEF Settled, c
  <2>3. host'.call = NoCall /\ host'.addr = 1 /\ (host'.entered <=> ~refused)
    <3>1. c.op # "Attach" /\ ~(mode.bus \in {"mw", "isp"})
      BY <1>1 DEF c
    <3> QED
      BY <1>4, <2>2, <3>1 DEF HostFields
  <2>4. Rests(host', d, port')
    <3>1. SUFFICES ASSUME good PROVE Rests(host', d, port')
      BY <2>2 DEF Rests
    <3>2. total = 5 /\ ~stop
      BY <1>2, <3>1 DEF good
    <3>3. CASE h.todo = s /\ h.total <= 0
      <4>1. rq.len = 4
        BY <3>3, SetUpIs DEF s
      <4>2. total <= 4
        BY <1>1, <3>3, <4>1 DEF total
      <4> QED
        BY <3>2, <4>2
    <3>4. CASE h.todo = Tail(s) /\ h.total <= 4
      <4>1. rq.req = "SETISPSCK" /\ g.todo # <<>>
        BY <1>4, <3>4, SetUpIs DEF s
      <4>2. refused = FALSE
        BY <1>3, <4>1 DEF Refused
      <4> QED
        BY <1>7, <3>2, <4>1, <4>2
    <3>5. CASE h.todo = Tail(Tail(s)) /\ h.total <= 5
      <4>1. rq.req = "SPI_CONNECT" /\ rq.len = 0
        BY <3>5, SetUpIs DEF s
      <4>2. refused = FALSE
        BY <1>3, <4>1 DEF Refused
      <4>3. result = 0
        BY <1>1, <3>2, <3>5, <4>1 DEF total
      <4>4. d.rx = Nothing /\ d.fw.pins.transmit # "unset" /\ d.fw.pins.rst = "high"
        BY <4>1, <4>3
      <4>5. NoCall.op = "none" /\ host'.entered
        BY <2>3, <4>2 DEF NoCall
      <4> QED
        BY <2>3, <4>4, <4>5 DEF Rests
    <3> QED
      BY <3>3, <3>4, <3>5 DEF SetsUp, s
  <2> QED
    BY <2>3, <2>4 DEF Calling
<1> QED
  BY <1>6, <1>7

\* The others are not made in a good session.
LEMMA EndsOthers ==
  ASSUME mode.bus = "spi", NEW h, HostOK(h), h.todo # <<>>, NEW d, Rests(h, d, port),
         h.call.op = "Attach" \/ (h.call.op = "Close" /\ h.addr = 1), NEW result, NEW got, Ends(h, result, got)
  PROVE  Calling(host') /\ Rests(host', d, port')
<1> DEFINE c == h.call
           g == [h EXCEPT !.total = h.total + result, !.replies = @ \o got, !.todo = Tail(@),
                          !.phase = "setup", !.sent = 0, !.got = <<>>, !.toggle = 1]
<1>1. \/ host' = g /\ port' \in {port, "broken"}
      \/ \E good, entered : Settled(g, c, good, entered)
  <2>1. \/ host' = g /\ port' = IF port = "open" /\ result # Head(h.todo).len THEN "broken" ELSE port
        \/ \E good, entered : Settled(g, c, good, entered)
    BY Zenon DEF Ends
  <2> QED
    BY <2>1
<1>2. DOMAIN g = HostFields /\ g.call = c /\ g.addr = h.addr
  BY DEF HostOK, HostFields
<1> HIDE DEF g
<1>3. port # "open" /\ c.op \in {"Attach", "Close"}
  BY DEF Rests
<1>4. CASE host' = g /\ port' \in {port, "broken"}
  BY <1>2, <1>3, <1>4 DEF Calling, Rests
<1>5. CASE \E good, entered : Settled(g, c, good, entered)
  <2>1. /\ \E a, b : host' = [g EXCEPT !.call = NoCall, !.todo = <<>>, !.entered = a, !.addr = b]
        /\ port' \in {port, "broken", "closed"}
    <3>1. PICK good, entered : Settled(g, c, good, entered)
      BY <1>5
    <3>2. \E a, b : host' = [g EXCEPT !.call = NoCall, !.todo = <<>>, !.entered = a, !.addr = b]
      BY <3>1, Zenon DEF Settled
    <3>3. port' \in {port, "broken", "closed"}
      BY <1>3, <3>1 DEF Settled
    <3> QED
      BY <3>2, <3>3
  <2>2. host'.call = NoCall
    BY <1>2, <2>1 DEF HostFields
  <2> QED
    BY <1>3, <2>1, <2>2 DEF Calling, Rests
<1> QED
  BY <1>1, <1>4, <1>5

\* A transfer ends; what is known of the frame counts when it brought all it asked for.
LEMMA EndsFrames ==
  ASSUME mode \in Modes, port \in Ports, mode.bus \in {"spi", "i2c"}, NEW h, HostOK(h), h.todo # <<>>,
         NEW d, PinsOK(d.fw.pins), Asking(h, d), mode.bus = "i2c" => Started(d),
         mode.bus = "spi" => d.fw.state \in {Idle, "SPI_READ", "SPI_WRITE"} /\ Calling(h) /\ Rests(h, d, port),
         NEW result \in Int, result <= Head(h.todo).len, NEW got, Ends(h, result, got),
         result = Head(h.todo).len => d.rx = Nothing,
         mode.bus = "spi" /\ result = Head(h.todo).len =>
           /\ Head(h.todo).req = "SPI_CONNECT" => d.fw.pins.transmit # "unset" /\ d.fw.pins.rst = "high"
           /\ Moves(h) /\ h.call.cs = 1 => d.fw.pins.rst = "high"
  PROVE  FrameOK(host', d, port')
<1>1. Asking(host', d)
  BY EndsAsking
<1>2. host'.phase = "setup"
  BY EndsKeeps
<1>3. ASSUME mode.bus = "spi" PROVE Calling(host') /\ Rests(host', d, port')
  <2>1. Calling(h) /\ Rests(h, d, port) /\ h.call # NoCall
    BY <1>3 DEF HostOK
  <2>2. CASE h.call.op = "Attach" \/ (h.call.op = "Close" /\ h.addr = 1)
    BY <1>3, <2>1, <2>2, EndsOthers
  <2>3. CASE Moves(h) /\ h.addr = 1
    BY <1>3, <2>1, <2>3, EndsMoves
  <2>4. CASE SetsUp(h) /\ h.addr = 1
    <3>1. result = 0 /\ Head(h.todo).req = "SPI_CONNECT" => Head(h.todo).len = 0
      <4>1. h.todo \in {SetUp(mode), Tail(SetUp(mode)), Tail(Tail(SetUp(mode)))}
        BY <2>4 DEF SetsUp
      <4> QED
        BY <1>3, <4>1, SetUpIs
    <3> QED
      BY <1>3, <2>1, <2>4, <3>1, EndsSetsUp
  <2> QED
    BY <2>1, <2>2, <2>3, <2>4 DEF Calling
<1> QED
  BY <1>1, <1>2, <1>3, BetweenFrames

\* A call is begun.
LEMMA BeginFrames ==
  ASSUME IInv, mode.bus \in {"spi", "i2c"}, FrameOK(host, dev, port), host.addr = 1,
         NEW c, c # NoCall, Script(Transfers(c), Requests(mode.bus, c.op)),
         host.made < MaxJobs \/ ~IsJob(c), Begin(c), NEW p,
         \/ c.op = "Open" /\ ~host.entered /\ p = port
         \/ c.op = "Close" /\ p # "open"
         \/ /\ p = port
            /\ mode.bus = "spi" => c.op \in {"SPIWrite", "SPIRead"} /\ c.cs \in {0, 1} /\ c.n \in Nat \ {0}
  PROVE  FrameOK(host', dev, p)
<1>1. HostOK(host') /\ host'.todo = Transfers(c) /\ host'.phase = "setup"
  BY BeginKeeps
<1>2. HostOK(host)
  BY DEF IInv
<1> DEFINE open == c.op \in {"SPIWrite", "SPIRead", "MWWrite", "MWRead"} /\ c.cs = 0
<1>3. /\ host'.call = c /\ (host'.entered <=> host.entered) /\ host'.addr = 1 /\ host'.total = 0
      /\ host'.inFrame = open
  BY <1>2 DEF Begin, HostOK, HostFields
<1>4. Asking(host', dev)
  BY <1>1, <1>3 DEF FrameOK, Asking, Script
<1>5. ASSUME mode.bus = "spi" PROVE Calling(host') /\ Rests(host', dev, p)
  <2>1. Rests(host, dev, port)
    BY <1>5 DEF FrameOK, SpiOK
  <2>2. CASE c.op = "Open" /\ ~host.entered /\ p = port
    <3>0. Transfers(c) = SetUp(mode)
      BY <2>2 DEF Transfers
    <3>1. SetsUp(host')
      BY <1>1, <1>3, <2>2, <3>0 DEF SetsUp
    <3> QED
      BY <1>3, <2>1, <2>2, <3>1 DEF Calling, Rests
  <2>3. CASE c.op = "Close" /\ p # "open"
    BY <1>3, <2>3 DEF Calling, Rests
  <2>4. CASE p = port /\ c.op \in {"SPIWrite", "SPIRead"} /\ c.cs \in {0, 1} /\ c.n \in Nat \ {0}
    <3>1. c.cs = 0 => host'.inFrame
      BY <1>3, <2>4
    <3>2. Moves(host')
      BY <1>1, <1>3, <2>4, <3>1 DEF Moves
    <3>3. Rests(host', dev, p)
      BY <1>3, <2>1, <2>4 DEF Rests
    <3> QED
      BY <1>3, <3>2, <3>3 DEF Calling
  <2> QED
    BY <1>5, <2>2, <2>3, <2>4
<1> QED
  BY <1>1, <1>4, <1>5, BetweenFrames DEF FrameOK, SpiOK

\* The three ways to begin one.
LEMMA CallFrames ==
  ASSUME Filled, IInv, mode.bus \in {"spi", "i2c"}, FrameOK(host, dev, port),
         Open \/ Close \/ \E j \in JobsOf(mode.bus) : Make(j)
  PROVE  FrameOK(host', dev', port')
<1>0. mode \in Modes /\ HostOK(host) /\ port \in Ports
  BY DEF IInv
<1>1. CASE Open
  <2> DEFINE c == [op |-> "Open"]
  <2>1. Begin(c) /\ c.op = "Open" /\ ~host.entered /\ dev' = dev /\ port' = port /\ c # NoCall /\ host.addr = 1
    BY <1>1 DEF Open, Attached, NoCall
  <2>2. Script(Transfers(c), Requests(mode.bus, c.op))
    BY <1>0, SessionFits
  <2> HIDE DEF c
  <2>3. ~IsJob(c)
    BY <2>1 DEF IsJob
  <2>4. FrameOK(host', dev, port)
    BY <2>1, <2>2, <2>3, BeginFrames
  <2> QED
    BY <2>1, <2>4
<1>2. CASE Close
  <2> DEFINE c == [op |-> "Close"]
  <2>1. /\ Begin(c) /\ c.op = "Close" /\ dev' = dev /\ port' = "broken" /\ c # NoCall /\ host.addr = 1
    BY <1>2 DEF Close, Attached, NoCall
  <2>2. Script(Transfers(c), Requests(mode.bus, c.op))
    BY <1>0, SessionFits
  <2> HIDE DEF c
  <2>3. ~IsJob(c)
    BY <2>1 DEF IsJob
  <2>4. FrameOK(host', dev, "broken")
    BY <2>1, <2>2, <2>3, BeginFrames
  <2> QED
    BY <2>1, <2>4
<1>3. ASSUME NEW j \in JobsOf(mode.bus), Make(j) PROVE FrameOK(host', dev', port')
  <2> DEFINE k == host.made + 1
             c == [j EXCEPT !.id = k]
  <2>1. k \in Nat
    BY <1>0 DEF HostOK
  <2>2. Begin(c) /\ host.made < MaxJobs /\ dev' = dev /\ port' = port /\ host.addr = 1
    BY <1>3 DEF Make, Attached
  <2> HIDE DEF k
  <2>3. c \in JobType(mode.bus)
    BY <1>0, <2>1, Numbered
  <2>4. mode.bus = "spi" => c.op \in {"SPIWrite", "SPIRead"} /\ c.cs \in {0, 1} /\ c.n \in Nat \ {0}
    <3>1. SUFFICES ASSUME mode.bus = "spi"
                   PROVE  c.op \in {"SPIWrite", "SPIRead"} /\ c.cs \in {0, 1} /\ c.n \in Nat \ {0}
      OBVIOUS
    <3>2. j \in JobType("spi") /\ j.n > 0
      BY <1>0, <1>3, <3>1, UsbAspAssumption DEF Filled
    <3>3. j \in [op : {"SPIWrite", "SPIRead"}, cs : {0, 1}, n : Nat, id : Nat]
      BY <3>2 DEF JobType
    <3>4. c.op = j.op /\ c.cs = j.cs /\ c.n = j.n
      BY <3>3
    <3> QED
      BY <3>2, <3>3, <3>4
  <2> HIDE DEF c
  <2>5. Script(Transfers(c), Requests(mode.bus, c.op)) /\ IsJob(c)
    BY <1>0, <2>3, JobFits
  <2>6. c # NoCall
    BY <2>5 DEF IsJob, NoCall
  <2>7. FrameOK(host', dev, port)
    BY <2>2, <2>4, <2>5, <2>6, BeginFrames
  <2> QED
    BY <2>2, <2>7
<1> QED
  BY <1>1, <1>2, <1>3

\* The device is attached.
LEMMA AttachFrames ==
  ASSUME IInv, mode.bus \in {"spi", "i2c"}, FrameOK(host, dev, port), Attach
  PROVE  FrameOK(host', dev', port')
<1> DEFINE c == [op |-> "Attach"]
<1>1. HostOK(host) /\ DevOK(dev) /\ mode \in Modes /\ port \in Ports
  BY DEF IInv
<1>2. Script(Transfers(c), Requests(mode.bus, "Attach"))
  BY <1>1, SessionFits
<1>3. c.op = "Attach"
  OBVIOUS
<1> HIDE DEF c
<1>4. host'.todo = Transfers(c) /\ host'.call = c /\ host'.phase = "setup"
  BY DEF Attach, Quiet, c
<1>5. dev'.rx = dev.rx /\ dev'.fw = dev.fw
  BY <1>1 DEF Attach, DevOK, DevFields
<1>6. port' # "open"
  BY <1>1 DEF Attach, Ports
<1>7. Asking(host', dev')
  BY <1>2, <1>3, <1>4, <1>5 DEF FrameOK, Asking, Script
<1>8. mode.bus = "i2c" => Started(dev')
  BY <1>5 DEF FrameOK, Started
<1>9. Calling(host') /\ Rests(host', dev', port')
  BY <1>3, <1>4, <1>6 DEF Calling, Rests
<1>10. mode.bus = "spi" => dev'.fw.state \in {Idle, "SPI_READ", "SPI_WRITE"}
  BY <1>5 DEF FrameOK, SpiOK
<1>11. PinsOK(dev'.fw.pins)
  BY <1>5 DEF FrameOK
<1> HIDE DEF c
<1> QED
  BY <1>4, <1>7, <1>8, <1>9, <1>10, <1>11, BetweenFrames

\* A device as it is plugged in, and a host that has no transfer under way.
LEMMA QuietFrames ==
  ASSUME mode.bus \in {"spi", "i2c"}, NEW h, h.todo = <<>>, h.call = NoCall, h.phase = "setup", NEW p, p # "open"
  PROVE  FrameOK(h, PoweredUp, p)
<1> DEFINE d == PoweredUp
<1>1. DOMAIN h.todo = {}
  BY SeqShort, SeqLen
<1>2. /\ d.rx = Nothing /\ d.fw.state = Idle /\ PinsOK(d.fw.pins)
      /\ d.fw.pins.sdaLow = FALSE /\ d.fw.pins.spcr = 0 /\ IsSeq(d.fw.pins.wire)
  BY SeqShort DEF PoweredUp, Static, PowerUp, PinsOK, PinFields
<1> HIDE DEF d
<1>3. Asking(h, d)
  BY <1>1, <1>2, EmptyBuffers DEF Asking
<1>4. Started(d)
  BY <1>2 DEF Started, StartedLow
<1>5. Calling(h) /\ Rests(h, d, p)
  BY DEF Calling, Rests
<1>6. FrameOK(h, d, p)
  BY <1>2, <1>3, <1>4, <1>5, BetweenFrames
<1> QED
  BY <1>6 DEF d

\* A device that has taken a packet of the host, whatever the host then waits for.
LEMMA TakenFrames ==
  ASSUME IInv, mode.bus \in {"spi", "i2c"}, FrameOK(host, dev, port), Listens, Speaks,
         NEW h, h = host \/ (h = [host EXCEPT !.phase = h.phase, !.sent = h.sent] /\ h.phase # "setup"),
         NEW p \in {port, "broken"}
  PROVE  FrameOK(h, Taken(dev), p)
<1> DEFINE d == dev
           e == Taken(dev)
           rq == Head(host.todo)
<1>1. HostOK(host) /\ DevOK(d) /\ host.todo # <<>> /\ d.rx = Nothing /\ d.addr = host.addr /\ host.phase \in {"setup", "data"}
  BY DEF IInv, Listens, Speaks
<1>2. /\ h.todo = host.todo /\ h.call = host.call /\ (h.entered <=> host.entered) /\ h.addr = host.addr
      /\ h.got = host.got /\ h.total = host.total /\ (h.inFrame <=> host.inFrame)
  BY <1>1 DEF HostOK, HostFields
<1>3. /\ e.fw = d.fw /\ e.tx = d.tx /\ e.msgLen = d.msgLen /\ (e.userRW <=> d.userRW) /\ e.addr = d.addr
  BY <1>1 DEF Taken, DevOK, DevFields
<1>4. /\ host.phase = "setup" => e.rx.pid = "SETUP" /\ e.rx.data = rq
      /\ host.phase = "data" => e.rx.pid = "OUT"
  <2>1. host.phase = "setup" => e.rx = [pid |-> "SETUP", data |-> Request]
    BY <1>1, TakenFits
  <2>2. host.phase = "data" => e.rx.pid = "OUT"
    BY <1>1, TakenFits
  <2> HIDE DEF e
  <2> QED
    BY <2>1, <2>2 DEF Request
<1> HIDE DEF e
<1>5. Asking(host, d) /\ PinsOK(d.fw.pins)
  BY DEF FrameOK
<1>6. rq.req \in Asked
  BY <1>1, <1>5, Allowed
<1>7. Asking(h, e)
  BY <1>2, <1>1, <1>4, <1>5, <1>6 DEF Asking
<1>8. mode.bus = "i2c" => Started(e)
  BY <1>3 DEF FrameOK, Started
<1>9. ASSUME mode.bus = "spi" PROVE SpiOK(h, e, p)
  <2>1. /\ d.fw.state \in {Idle, "SPI_READ", "SPI_WRITE"} /\ Moving(host, d) /\ Calling(host) /\ Rests(host, d, port)
    BY <1>9 DEF FrameOK, SpiOK
  <2>2. Calling(h)
    BY <1>2, <2>1 DEF Calling, SetsUp, Moves
  <2>3. Rests(h, e, p)
    <3>1. h.call # NoCall
      BY <1>1, <1>2 DEF HostOK
    <3> QED
      BY <1>2, <1>3, <2>1, <3>1 DEF Rests
  <2>4. Reaches(h, e) => host.phase = "data" /\ Reaches(host, d)
    BY <1>1, <1>4, EmptyBuffers DEF Reaches, Serves
  <2>5. Taking(h, e) = Taking(host, d)
    BY <1>2, <1>3 DEF Taking
  <2>6. SpiReads(h, e)
    BY <1>2, <1>3, <2>1, <2>4, <2>5 DEF SpiReads, Moving
  <2>7. SpiWrites(h, e)
    BY <1>2, <1>3, <2>1, <2>4 DEF SpiWrites, Moving
  <2>8. SpiConnects(h, e)
    BY <1>2, <1>3, <2>1, <2>4 DEF SpiConnects, Moving
  <2> QED
    BY <1>3, <2>1, <2>2, <2>3, <2>6, <2>7, <2>8 DEF SpiOK, Moving
<1>10. FrameOK(h, e, p)
  BY <1>3, <1>5, <1>7, <1>8, <1>9 DEF FrameOK
<1> QED
  BY <1>10 DEF e

\* A packet is sent to the device.
LEMMA SendFrames ==
  ASSUME IInv, mode.bus \in {"spi", "i2c"}, FrameOK(host, dev, port), SendSetup \/ SendData \/ LoseAck
  PROVE  FrameOK(host', dev', port')
<1>1. Listens /\ Speaks /\ dev' = Taken(dev)
  BY DEF SendSetup, SendData, LoseAck, Speaks
<1>2. HostOK(host) /\ port \in Ports
  BY DEF IInv
<1>3. port' \in {port, "broken"}
  BY DEF SendSetup, SendData, LoseAck
<1>4. host' = host \/ (host' = [host EXCEPT !.phase = host'.phase, !.sent = host'.sent] /\ host'.phase # "setup")
  <2>1. CASE LoseAck
    BY <2>1 DEF LoseAck
  <2>2. CASE SendSetup
    <3> DEFINE x == IF Request.len = 0 THEN "status" ELSE "data"
    <3>1. host' = [host EXCEPT !.phase = x] /\ x # "setup"
      BY <2>2 DEF SendSetup
    <3> HIDE DEF x
    <3>2. host'.phase = x /\ host'.sent = host.sent
      BY <1>2, <3>1 DEF HostOK, HostFields
    <3>3. host' = [host EXCEPT !.phase = x, !.sent = host.sent]
      BY <1>2, <3>1 DEF HostOK, HostFields
    <3> QED
      BY <3>1, <3>2, <3>3
  <2>3. CASE SendData
    <3> DEFINE x == IF host.sent + Chunk = Request.len THEN "status" ELSE "data"
               n == host.sent + Chunk
    <3>1. host' = [host EXCEPT !.sent = n, !.phase = x] /\ x # "setup"
      BY <2>3 DEF SendData
    <3> HIDE DEF x, n
    <3>2. host'.phase = x /\ host'.sent = n
      BY <1>2, <3>1 DEF HostOK, HostFields
    <3>3. host' = [host EXCEPT !.phase = x, !.sent = n]
      BY <1>2, <3>1 DEF HostOK, HostFields
    <3> QED
      BY <3>1, <3>2, <3>3
  <2> QED
    BY <2>1, <2>2, <2>3
<1> DEFINE h == host'
           p == port'
<1> HIDE DEF h, p
<1>5. h = host \/ (h = [host EXCEPT !.phase = h.phase, !.sent = h.sent] /\ h.phase # "setup")
  BY <1>4 DEF h
<1>6. p \in {port, "broken"}
  BY <1>3 DEF p
<1>7. FrameOK(h, Taken(dev), p)
  BY <1>1, <1>5, <1>6, TakenFrames
<1> QED
  BY <1>1, <1>7 DEF h, p

\* A packet of the device is received, or lost.
LEMMA ReceiveFrames ==
  ASSUME IInv, mode.bus \in {"spi", "i2c"}, FrameOK(host, dev, port), ReceiveData
  PROVE  FrameOK(host', dev', port)
<1> DEFINE got  == host.got \o dev.tx.data
           done == Len(dev.tx.data) < PacketSize \/ Len(got) = Request.len
           x    == IF done THEN "status" ELSE "data"
           rq   == Head(host.todo)
<1>1. /\ HostOK(host) /\ DevOK(dev) /\ host.todo # <<>> /\ dev.rx = Nothing /\ host.phase = "data"
      /\ dev.addr = host.addr /\ rq.dir = "in" /\ dev' = Sent(dev) /\ dev.tx \notin {Nak, Stall}
  BY DEF IInv, ReceiveData, Offers, Listens, Request
<1>2. FrameOK(host, dev', port)
  BY <1>1, SentFrames
<1>3. CASE dev.tx.toggle # host.toggle
  <2>1. host' = host
    BY <1>3 DEF ReceiveData
  <2> QED
    BY <1>2, <2>1
<1>4. CASE dev.tx.toggle = host.toggle
  <2>1. host' = [host EXCEPT !.got = got, !.toggle = Flip(@), !.phase = x] /\ x \in {"status", "data"}
    BY <1>4 DEF ReceiveData
  <2> HIDE DEF got, x
  <2>2. /\ host'.todo = host.todo /\ host'.call = host.call /\ (host'.entered <=> host.entered)
        /\ host'.addr = host.addr /\ host'.total = host.total /\ (host'.inFrame <=> host.inFrame)
        /\ host'.got = got /\ host'.phase \in {"status", "data"}
    BY <1>1, <2>1 DEF HostOK, HostFields
  <2>3. /\ dev'.rx = dev.rx /\ dev'.tx = Nak /\ dev'.fw = dev.fw /\ dev'.msgLen = dev.msgLen
        /\ (dev'.userRW <=> dev.userRW)
    BY <1>1, SentDetails
  <2>4. Asking(host', dev') /\ PinsOK(dev'.fw.pins) /\ (mode.bus = "i2c" => Started(dev'))
    BY <1>2, <2>2 DEF FrameOK, Asking
  <2>5. ASSUME mode.bus = "spi" PROVE SpiOK(host', dev', port)
    <3>1. /\ dev'.fw.state \in {Idle, "SPI_READ", "SPI_WRITE"} /\ Moving(host, dev') /\ Moving(host, dev)
          /\ Calling(host) /\ Rests(host, dev', port)
      BY <1>2, <2>5 DEF FrameOK, SpiOK
    <3>2. Calling(host') /\ Rests(host', dev', port)
      BY <2>2, <3>1 DEF Calling, SetsUp, Moves, Rests
    <3>3. Reaches(host, dev) /\ (Reaches(host', dev') => Reaches(host, dev'))
      BY <1>1, <2>2, EmptyBuffers DEF Reaches, Serves
    <3>4. Taking(host', dev') = Taking(host, dev)
      <4>1. dev.tx.pid = "DATA" /\ IsSeq(dev.tx.data) /\ dev'.tx.pid # "DATA" /\ IsSeq(host.got)
        BY <1>1, <2>3, OfferedIs, EmptyBuffers DEF HostOK
      <4>2. Len(got) = Len(host.got) + Len(dev.tx.data) /\ Len(got) \in Nat
        BY <4>1, SeqConcat, SeqLen DEF got
      <4> QED
        BY <2>2, <4>1, <4>2 DEF Taking
    <3>5. SpiReads(host', dev')
      BY <2>2, <2>3, <3>1, <3>3, <3>4 DEF SpiReads, Moving
    <3>6. SpiWrites(host', dev') /\ SpiConnects(host', dev')
      BY <2>2, <3>1, <3>3 DEF SpiWrites, SpiConnects, Moving
    <3> QED
      BY <3>1, <3>2, <3>5, <3>6 DEF SpiOK, Moving
  <2> QED
    BY <2>4, <2>5 DEF FrameOK
<1> QED
  BY <1>3, <1>4

\* The host ends an IN transfer: all there was to read has been read, and the last byte closed the frame.
LEMMA StatusOutFrames ==
  ASSUME IInv, mode.bus \in {"spi", "i2c"}, FrameOK(host, dev, port), StatusOut
  PROVE  FrameOK(host', dev, port')
<1> DEFINE rq == Head(host.todo)
           result == Len(host.got)
<1>1. /\ HostOK(host) /\ DevOK(dev) /\ mode \in Modes /\ port \in Ports /\ host.todo # <<>> /\ dev.rx = Nothing
      /\ dev.addr = host.addr /\ host.phase = "status" /\ rq.dir = "in" /\ rq.len > 0
      /\ Ends(host, result, host.got)
  BY DEF IInv, StatusOut, Listens, Request
<1>2. result \in Int /\ result <= rq.len
  BY <1>1, SeqLen DEF HostOK
<1>3. Reaches(host, dev)
  BY <1>1, EmptyBuffers DEF Reaches, Serves
<1>4. /\ PinsOK(dev.fw.pins) /\ Asking(host, dev) /\ (mode.bus = "i2c" => Started(dev))
      /\ mode.bus = "spi" => SpiOK(host, dev, port)
  BY DEF FrameOK
<1>5. ASSUME mode.bus = "spi", result = rq.len
      PROVE  /\ rq.req = "SPI_CONNECT" => dev.fw.pins.transmit # "unset" /\ dev.fw.pins.rst = "high"
             /\ Moves(host) /\ host.call.cs = 1 => dev.fw.pins.rst = "high"
  <2>1. SpiReads(host, dev) /\ SpiConnects(host, dev)
    BY <1>4, <1>5 DEF SpiOK, Moving
  <2>2. ASSUME Moves(host), host.call.cs = 1 PROVE dev.fw.pins.rst = "high"
    <3>1. rq.req = "SPI_READ" /\ rq.value = 1 /\ rq.len \in Nat
      BY <1>1, <2>2, MoveIs
    <3>2. /\ Taking(host, dev) + dev.fw.nbytes <= rq.len
          /\ Taking(host, dev) = rq.len => Closed(dev.fw)
          /\ dev.fw.csHi = 1
      BY <1>3, <2>1, <3>1 DEF SpiReads
    <3> DEFINE n == IF dev.tx.pid = "DATA" THEN Len(dev.tx.data) ELSE 0
    <3>3. n \in Nat /\ dev.fw.nbytes \in Nat
      BY <1>1, OfferedIs DEF DevOK, FwOK
    <3>4. Taking(host, dev) = result + n
      BY DEF Taking
    <3> HIDE DEF n, result, rq
    <3>5. Taking(host, dev) = rq.len
      BY <1>5, <3>1, <3>2, <3>3, <3>4
    <3> QED
      BY <3>2, <3>5 DEF Closed
  <2> QED
    BY <1>3, <2>1, <2>2 DEF SpiConnects
<1> HIDE DEF result
<1> QED
  BY <1>1, <1>2, <1>4, <1>5, EndsFrames DEF SpiOK

\* A transfer fails: the session is not a good one any more.
LEMMA FailFrames ==
  ASSUME IInv, mode.bus \in {"spi", "i2c"}, FrameOK(host, dev, port), host.todo # <<>>, Ends(host, -1, <<>>)
  PROVE  FrameOK(host', dev, port')
<1>1. HostOK(host) /\ mode \in Modes /\ port \in Ports
  BY DEF IInv
<1>2. Head(host.todo).len \in Nat
  BY <1>1, SeqTail DEF HostOK, Asks
<1>3. -1 \in Int /\ -1 <= Head(host.todo).len /\ -1 # Head(host.todo).len
  BY <1>2
<1>4. /\ PinsOK(dev.fw.pins) /\ Asking(host, dev) /\ (mode.bus = "i2c" => Started(dev))
      /\ mode.bus = "spi" => SpiOK(host, dev, port)
  BY DEF FrameOK
<1> QED
  BY <1>1, <1>3, <1>4, EndsFrames DEF SpiOK

\* The device ends a transfer that brings nothing: it has taken all the data, and closed the frame.
LEMMA StatusInFrames ==
  ASSUME IInv, mode.bus \in {"spi", "i2c"}, FrameOK(host, dev, port), StatusIn
  PROVE  FrameOK(host', dev', port')
<1> DEFINE rq == Head(host.todo)
<1>1. /\ HostOK(host) /\ DevOK(dev) /\ mode \in Modes /\ port \in Ports /\ host.todo # <<>>
      /\ dev.rx = Nothing /\ dev.addr = host.addr /\ host.phase = "status" /\ dev' = Sent(dev)
      /\ dev.tx \notin {Nak, Stall} /\ (rq.dir = "out" \/ rq.len = 0)
  BY DEF IInv, StatusIn, Offers, Listens, Request
<1>2. FrameOK(host, dev', port)
  BY <1>1, SentFrames
<1>3. CASE dev.tx.toggle # 1
  <2>1. host' = host /\ port' = port
    BY <1>3 DEF StatusIn
  <2> QED
    BY <1>2, <2>1
<1>4. CASE dev.tx.toggle = 1
  <2> DEFINE h == IF Request.req = "SET_ADDRESS" THEN [host EXCEPT !.addr = Request.value] ELSE host
             result == IF dev.tx.data = <<>> THEN Request.len ELSE -1
  <2>1. Ends(h, result, <<>>)
    BY <1>4 DEF StatusIn
  <2>2. Asks(rq) /\ rq.len \in Nat
    BY <1>1, SeqTail DEF HostOK, Asks
  <2>3. /\ DOMAIN h = HostFields /\ h.phase = host.phase /\ h.made = host.made /\ h.todo = host.todo
        /\ h.call = host.call /\ h.got = host.got /\ h.sent = host.sent /\ h.toggle = host.toggle
        /\ (h.entered <=> host.entered) /\ h.total = host.total /\ (h.inFrame <=> host.inFrame)
        /\ h.addr \in {host.addr, 1} /\ (rq.req # "SET_ADDRESS" => h = host)
    BY <1>1, <2>2 DEF HostOK, HostFields, Asks, Request
  <2>4. result \in Int /\ result <= rq.len
    BY <2>2 DEF Request
  <2> HIDE DEF h, result
  <2>5. HostOK(h)
    BY <1>1, <2>3 DEF HostOK
  <2>6. /\ dev'.rx = Nothing /\ dev'.tx = Nak /\ dev'.fw = dev.fw
    BY <1>1, SentDetails
  <2>7. /\ PinsOK(dev'.fw.pins) /\ Asking(h, dev') /\ (mode.bus = "i2c" => Started(dev'))
    BY <1>2, <2>3 DEF FrameOK, Asking
  <2>8. ASSUME mode.bus = "spi"
        PROVE  /\ dev'.fw.state \in {Idle, "SPI_READ", "SPI_WRITE"} /\ Calling(h) /\ Rests(h, dev', port)
               /\ rq.req = "SPI_CONNECT" => dev'.fw.pins.transmit # "unset" /\ dev'.fw.pins.rst = "high"
               /\ Moves(h) /\ h.call.cs = 1 => dev'.fw.pins.rst = "high"
    <3>1. /\ dev'.fw.state \in {Idle, "SPI_READ", "SPI_WRITE"} /\ Moving(host, dev) /\ Calling(host)
          /\ Rests(host, dev', port) /\ Asking(host, dev)
      BY <1>2, <2>6, <2>8 DEF FrameOK, SpiOK
    <3>2. Calling(h) /\ Rests(h, dev', port)
      <4>1. CASE h = host
        BY <3>1, <4>1
      <4>2. CASE rq.req = "SET_ADDRESS"
        <5>1. host.call.op = "Attach"
          BY <1>1, <2>8, <3>1, <4>2, WhoAsks DEF Standards
        <5>2. port # "open"
          BY <3>1, <5>1 DEF Rests
        <5> QED
          BY <2>3, <5>1, <5>2 DEF Calling, Rests
      <4> QED
        BY <2>3, <4>1, <4>2
    <3>3. Reaches(host, dev)
      BY <1>1, EmptyBuffers DEF Reaches, Serves
    <3>4. rq.req = "SPI_CONNECT" => dev'.fw.pins.transmit # "unset" /\ dev'.fw.pins.rst = "high"
      BY <2>6, <3>1, <3>3 DEF SpiConnects, Moving
    <3>5. ASSUME Moves(h), h.call.cs = 1 PROVE dev'.fw.pins.rst = "high"
      <4>1. /\ rq.req \in {"SPI_READ", "SPI_WRITE"} /\ rq.value = 1 /\ rq.len # 0
            /\ rq.dir = "out" => rq.req = "SPI_WRITE"
        BY <2>3, <3>5, MoveIs
      <4>2. rq.req = "SPI_WRITE"
        BY <1>1, <4>1
      <4>3. Closed(dev.fw) /\ dev.fw.csHi = 1
        BY <1>1, <3>1, <3>3, <4>1, <4>2 DEF SpiWrites, Moving
      <4> QED
        BY <2>6, <4>3 DEF Closed
    <3> QED
      BY <3>1, <3>2, <3>4, <3>5
  <2> DEFINE e == dev'
  <2>9. h.todo # <<>> /\ Head(h.todo) = rq
    BY <1>1, <2>3
  <2>10. FrameOK(host', e, port')
    <3> HIDE DEF e, rq
    <3>1. PinsOK(e.fw.pins) /\ Asking(h, e) /\ (mode.bus = "i2c" => Started(e)) /\ e.rx = Nothing
      BY <2>6, <2>7 DEF e
    <3>2. mode.bus = "spi" =>
            /\ e.fw.state \in {Idle, "SPI_READ", "SPI_WRITE"} /\ Calling(h) /\ Rests(h, e, port)
            /\ rq.req = "SPI_CONNECT" => e.fw.pins.transmit # "unset" /\ e.fw.pins.rst = "high"
            /\ Moves(h) /\ h.call.cs = 1 => e.fw.pins.rst = "high"
      BY <2>8 DEF e
    <3> QED
      BY <1>1, <2>1, <2>4, <2>5, <2>9, <3>1, <3>2, EndsFrames
  <2> QED
    BY <2>10
<1> QED
  BY <1>3, <1>4

\* It holds in the first state.
LEMMA InitFrames == Init => FInv
<1> SUFFICES ASSUME Init, mode.bus \in {"spi", "i2c"} PROVE FrameOK(host, dev, port)
  BY DEF FInv
<1>1. host = Quiet /\ dev = PoweredUp /\ port = "closed"
  BY DEF Init
<1>2. host.todo = <<>> /\ host.call = NoCall /\ host.phase = "setup"
  BY <1>1 DEF Quiet
<1> QED
  BY <1>1, <1>2, QuietFrames

\* Every step keeps it.
LEMMA NextFrames ==
  ASSUME Filled
  PROVE  IInv /\ FInv /\ [Next]_vars => FInv'
<1> SUFFICES ASSUME IInv, FInv, [Next]_vars, mode'.bus \in {"spi", "i2c"} PROVE FrameOK(host, dev, port)'
  BY DEF FInv
<1>1. mode' = mode
  BY DEF Next, Bus, Attach, Open, Close, Make, SendSetup, SendData, ReceiveData, StatusOut,
         StatusIn, Stalled, PollRx, PollTx, LoseData, LoseAck, GiveUp, Unplug, vars
<1>2. /\ mode.bus \in {"spi", "i2c"} /\ FrameOK(host, dev, port)
      /\ HostOK(host) /\ DevOK(dev) /\ Fetching(host, dev)
  BY <1>1 DEF FInv, IInv
<1>3. SUFFICES FrameOK(host', dev', port')
  <2>1. PinsOK(dev.fw.pins)' <=> PinsOK(dev'.fw.pins)
    BY DEF PinsOK
  <2>2. Asking(host, dev)' <=> Asking(host', dev')
    BY <1>1 DEF Asking, Requests, Asked
  <2>3. Started(dev)' <=> Started(dev')
    BY DEF Started, StartedLow
  <2>4. Moving(host, dev)' <=> Moving(host', dev')
    BY DEF Moving, SpiReads, SpiWrites, SpiConnects, Reaches, Serves, Taking, Closed
  <2>5. Calling(host)' <=> Calling(host')
    <3>1. SetsUp(host)' <=> SetsUp(host')
      BY <1>1 DEF SetsUp, SetUp
    <3>2. Moves(host)' <=> Moves(host')
      BY DEF Moves, Transfers
    <3> QED
      BY <3>1, <3>2 DEF Calling
  <2>6. Rests(host, dev, port)' <=> Rests(host', dev', port')
    BY DEF Rests
  <2>7. SpiOK(host, dev, port)' <=> SpiOK(host', dev', port')
    BY <2>4, <2>5, <2>6 DEF SpiOK
  <2> QED
    BY <1>1, <2>1, <2>2, <2>3, <2>7 DEF FrameOK
<1>4. CASE Attach
  BY <1>2, <1>4, AttachFrames
<1>5. CASE Open \/ Close \/ \E j \in JobsOf(mode.bus) : Make(j)
  BY <1>2, <1>5, CallFrames
<1>6. CASE SendSetup \/ SendData \/ LoseAck
  BY <1>2, <1>6, SendFrames
<1>7. CASE ReceiveData
  <2>1. port' = port
    BY <1>7 DEF ReceiveData
  <2> QED
    BY <1>2, <1>7, <2>1, ReceiveFrames
<1>8. CASE StatusOut
  <2>1. dev' = dev
    BY <1>8 DEF StatusOut
  <2> QED
    BY <1>2, <1>8, <2>1, StatusOutFrames
<1>9. CASE StatusIn
  BY <1>2, <1>9, StatusInFrames
<1>10. CASE Stalled \/ GiveUp
  <2>1. dev' = dev /\ host.todo # <<>> /\ Ends(host, -1, <<>>)
    BY <1>10 DEF Stalled, GiveUp, Listens
  <2> QED
    BY <1>2, <2>1, FailFrames
<1>11. CASE PollRx
  <2>1. host' = host /\ port' = port
    BY <1>11 DEF PollRx
  <2>2. FrameOK(host, dev', port)
    BY <1>2, <1>11, SetupFrames, OutFrames
  <2> QED
    BY <2>1, <2>2
<1>12. CASE PollTx
  <2>1. host' = host /\ port' = port
    BY <1>12 DEF PollTx
  <2>2. FrameOK(host, dev', port)
    BY <1>2, <1>12, PollTxFrames
  <2> QED
    BY <2>1, <2>2
<1>13. CASE LoseData
  <2>1. host' = host /\ port' = port /\ dev' = Sent(dev)
    BY <1>13 DEF LoseData
  <2>2. host.phase # "setup" /\ dev.rx = Nothing /\ dev.addr = host.addr
    BY <1>13 DEF LoseData, Offers, Listens
  <2>3. FrameOK(host, Sent(dev), port)
    BY <1>2, <2>2, SentFrames
  <2> QED
    BY <2>1, <2>3
<1>14. CASE Unplug
  <2>1. host' = [Quiet EXCEPT !.made = host.made] /\ port' = "broken" /\ dev' = PoweredUp
    BY <1>14 DEF Unplug
  <2>2. host'.todo = <<>> /\ host'.call = NoCall /\ host'.phase = "setup"
    BY <2>1 DEF Quiet
  <2> QED
    BY <1>2, <2>1, <2>2, QuietFrames
<1>15. CASE UNCHANGED vars
  BY <1>2, <1>15 DEF vars
<1> QED
  BY <1>4, <1>5, <1>6, <1>7, <1>8, <1>9, <1>10, <1>11, <1>12, <1>13, <1>14, <1>15 DEF Next, Bus

(***************************************************************************)
(* Between the calls of a good session the firmware leaves no chip         *)
(* selected and no I2C transfer open that the program does not mean to go  *)
(* on with: the last byte of every read and write, and the connect, close  *)
(* the frame (usbFunctionRead, usbFunctionWrite and usbFunctionSetup of    *)
(* main.c).  It takes calls that have something to read or to write, as    *)
(* all operations of spi25.pas make them: one of no bytes selects the chip *)
(* and has no last byte.                                                   *)
(***************************************************************************)
THEOREM UsbAspNoFrameLeaks ==
  ASSUME Filled
  PROVE  Spec => []NoFrameLeaks
<1>1. Init => IInv /\ FInv
  BY InitFits, InitFrames
<1>2. IInv /\ FInv /\ [Next]_vars => (IInv /\ FInv)'
  BY NextKeeps, NextFrames
<1>3. IInv /\ FInv => NoFrameLeaks
  <2>1. SUFFICES ASSUME IInv, FInv, port = "open", host.call = NoCall, FrameOpen
                 PROVE  host.inFrame \/ (mode.bus = "i2c" /\ Last(dev.fw.pins.wire) \in {Sym("S"), Sym("ack")})
    BY DEF NoFrameLeaks
  <2>2. mode.bus \in {"spi", "i2c", "mw", "isp"}
    BY <2>1, UsbAspAssumption DEF IInv
  <2>3. CASE mode.bus = "spi"
    <3>1. dev.fw.pins.rst = "low"
      BY <2>1, <2>3 DEF FrameOpen
    <3>2. Rests(host, dev, port)
      BY <2>1, <2>3 DEF FInv, FrameOK, SpiOK
    <3> QED
      BY <2>1, <3>1, <3>2 DEF Rests
  <2>4. CASE mode.bus = "i2c"
    <3>1. dev.fw.pins.sdaLow
      BY <2>1, <2>4 DEF FrameOpen
    <3>2. StartedLow(dev.fw.pins)
      BY <2>1, <2>4 DEF FInv, FrameOK, Started
    <3> QED
      BY <2>4, <3>1, <3>2 DEF StartedLow
  <2>5. CASE mode.bus \in {"mw", "isp"}
    BY <2>1, <2>5 DEF FrameOpen
  <2> QED
    BY <2>2, <2>3, <2>4, <2>5
<1> QED
  BY <1>1, <1>2, <1>3, PTL DEF Spec
=============================================================================
