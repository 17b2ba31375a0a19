------------------------------- MODULE UsbAsp -------------------------------
(***************************************************************************)
(* The USBasp as a programmer: the calls of usbasphw.pas for serial        *)
(* memories and those of an AVR programming tool (external), each one or   *)
(* more USB control transfers; the bus; the V-USB driver, whose interrupt  *)
(* answers every bus transaction at once while its main loop (usbPoll)     *)
(* works through what was received; and the requests of main.c             *)
(* (UsbAspFirmware).                                                       *)
(*                                                                         *)
(* A step is one bus transaction, one half of usbPoll, or a decision of    *)
(* the program.  A transaction the device answers with NAK, or that is     *)
(* lost on its way to the device, is repeated by the host controller: it   *)
(* changes nothing and is no step.  What can go wrong is an IN packet lost *)
(* on its way to the host, a handshake of the device lost, a transfer      *)
(* given up (three errors in a row, or ten seconds), and the device being  *)
(* unplugged; MaxFaults bounds these.                                      *)
(***************************************************************************)
EXTENDS UsbAspFirmware

CONSTANTS
  Modes,             \* what the header is used for: a bus and an SCK option
  JobsOf(_),         \* the calls made on each bus
  MaxJobs, MaxFaults \* bounds: calls made after the port was opened, faults

(***************************************************************************)
(* The calls that can be made on each bus, with what they are asked for.   *)
(***************************************************************************)
JobType(b) ==
  CASE b = "spi" -> [op : {"SPIWrite", "SPIRead"}, cs : {0, 1}, n : Nat, id : Nat]
    [] b = "i2c" ->
         {j \in [op : {"I2CReadWrite"}, w : Nat, r : Nat, id : Nat] : j.w + j.r > 0}
         \cup [op : {"I2CStart", "I2CStop", "I2CWriteByte"}, id : Nat]
         \cup [op : {"I2CReadByte"}, ack : {"ack", "nack"}, id : Nat]
    [] b = "mw"  ->
         [op : {"MWWrite"}, cs : {0, 1}, bits : Nat, id : Nat]
         \cup [op : {"MWRead"}, cs : {0, 1}, n : Nat, id : Nat]
         \cup [op : {"MWIsBusy"}, id : Nat]
    [] b = "isp" ->
         [op : {"Instruction"}, id : Nat]
         \cup [op : {"READFLASH", "READEEPROM", "WRITEEEPROM"}, addr : Nat,
               blocks : Seq(Nat) \ {<<>>}, id : Nat]
         \cup [op : {"WRITEFLASH"}, addr : Nat, page : Nat, blocks : Seq(Nat) \ {<<>>}, id : Nat]

ASSUME UsbAspAssumption ==
  /\ PacketSize \in Nat \ {0}
  /\ CounterMod \in Nat \ {0}
  /\ {MaxJobs, MaxFaults} \subseteq Nat
  /\ Modes \subseteq [bus: {"spi", "i2c", "mw", "isp"}, sck: Nat]
  /\ \A m \in Modes: m.bus = "mw" => m.sck \in 1..(Sck93 - 1)
  /\ \A m \in Modes: JobsOf(m.bus) \subseteq JobType(m.bus)
  /\ Jumper \in BOOLEAN

VARIABLES
  mode,    \* what the user works with
  host,    \* the call under way and its control transfer
  dev,     \* the driver's state, with the firmware's in fw
  port,    \* history: is the session as good as new: "closed", "open", "broken"
  base,    \* history: length of the wire when the call was made
  answer,  \* what the last call returned
  faults

vars == <<mode, host, dev, port, base, answer, faults>>

NoMsg   == -1                   \* USB_NO_MSG: nothing to transmit
Nothing == [pid |-> "none"]     \* an empty receive buffer
Nak     == [pid |-> "NAK"]
Stall   == [pid |-> "STALL"]
NoCall  == [op |-> "none"]
Unplugged == -1                 \* for an address
Failed  == [ok |-> FALSE, data |-> <<>>]

Flip(t) == 1 - t
AtMost(a, b) == IF a < b THEN a ELSE b

-----------------------------------------------------------------------------
(***************************************************************************)
(* The calls, as the control transfers they make.                          *)
(***************************************************************************)
Vendor(req, dir, value, index, len) ==
  [type |-> "vendor", req |-> req, dir |-> dir, value |-> value, index |-> index, len |-> len]
Standard(req, dir, value, len) ==
  [type |-> "standard", req |-> req, dir |-> dir, value |-> value, index |-> 0, len |-> len]

ByteNum(bits) == (bits + 7) \div 8

SetUp(m) ==
  <<Vendor("GETCAPABILITIES", "in", 1, 0, 4)>> \o
  IF m.bus = "i2c" THEN <<Vendor("I2C_INIT", "in", 0, 0, 0)>>
  ELSE <<Vendor("SETISPSCK", "in", m.sck, 0, 1)>> \o
  IF m.bus = "isp" THEN <<Vendor("CONNECT", "in", 0, 0, 0), Vendor("ENABLEPROG", "in", 0, 0, 1)>>
  ELSE <<Vendor("SPI_CONNECT", "in", 0, 0, 0)>>

(***************************************************************************)
(* The AVR tool gives the address of every block, and sends a page in      *)
(* blocks of which it marks the first and the last.                        *)
(***************************************************************************)
Offset(c, b) == FoldLeft(LAMBDA sum, n: sum + n, 0, SubSeq(c.blocks, 1, b - 1))

Flags(c, b) == (IF b = 1 THEN 1 ELSE 0) + (IF b = Len(c.blocks) THEN 2 ELSE 0)

Blocks(c, req, dir, Index(_)) ==
  FlattenSeq([b \in 1..Len(c.blocks) |->
    <<Vendor("SETLONGADDRESS", "in", c.addr + Offset(c, b), 0, 0),
      Vendor(req, dir, 0, Index(b), c.blocks[b])>>])

Transfers(c) ==
  CASE c.op = "Attach" -> <<Standard("SET_ADDRESS", "out", 1, 0),
                            Standard("GET_DESCRIPTOR", "in", 0, PacketSize + 1),
                            Standard("SET_CONFIGURATION", "out", 1, 0)>>
    [] c.op = "Open"     -> SetUp(mode)
    [] c.op = "Close"    -> <<Vendor("DISCONNECT", "in", 0, 0, 0)>>
    [] c.op = "SPIWrite" -> <<Vendor("SPI_WRITE", "out", c.cs, 0, c.n)>>
    [] c.op = "SPIRead"  -> <<Vendor("SPI_READ", "in", c.cs, 0, c.n)>>
    [] c.op = "I2CReadWrite" ->
         (IF c.w > 0 THEN <<Vendor("I2C_WRITE", "out", "addr", IF c.r > 0 THEN 0 ELSE 1, c.w)>> ELSE <<>>)
         \o (IF c.r > 0 THEN <<Vendor("I2C_READ", "in", "addr", 0, c.r)>> ELSE <<>>)
    [] c.op = "I2CStart" -> <<Vendor("I2C_START", "in", 0, 0, 0)>>
    [] c.op = "I2CStop"  -> <<Vendor("I2C_STOP", "in", 0, 0, 0)>>
    [] c.op = "I2CWriteByte" -> <<Vendor("I2C_WRITEBYTE", "in", Byte(c.id, 1), 0, 1)>>
    [] c.op = "I2CReadByte"  -> <<Vendor("I2C_READBYTE", "in", c.ack, 0, 1)>>
    [] c.op = "MWWrite"  -> <<Vendor("MW_WRITE", "out", c.cs, c.bits, ByteNum(c.bits))>>
    [] c.op = "MWRead"   -> <<Vendor("MW_READ", "in", c.cs, 0, c.n)>>
    [] c.op = "MWIsBusy" -> <<Vendor("MW_BUSY", "in", 0, 0, 1)>>
    [] c.op = "Instruction" -> <<Vendor("TRANSMIT", "in", Byte(c.id, 1), 0, 4)>>
    [] c.op \in {"READFLASH", "READEEPROM"} -> Blocks(c, c.op, "in", LAMBDA b: 0)
    [] c.op = "WRITEFLASH"  -> Blocks(c, c.op, "out", LAMBDA b: 4 * c.page + IF c.page > 0 THEN Flags(c, b) ELSE 0)
    [] c.op = "WRITEEEPROM" -> Blocks(c, c.op, "out", LAMBDA b: 0)

Wanted(rqs) == FoldLeft(LAMBDA sum, rq: sum + rq.len, 0, rqs)

IsJob(c) == c.op \notin {"none", "Attach", "Open", "Close"}

(***************************************************************************)
(* What each call is to put on the wires of the chip, and which of these   *)
(* symbols the chip answers.                                               *)
(***************************************************************************)
Bytes(c, n)    == [i \in 1..n |-> Byte(c.id, i)]
Times(n, s)    == [i \in 1..n |-> Sym(s)]
EndIf(cs)      == IF cs = 1 THEN <<Sym("end")>> ELSE <<>>
I2CReads(n)    == <<Sym("S"), Sym("R")>> \o Times(n - 1, "ack") \o <<Sym("nack"), Sym("P")>>
BitsIn(c, i)   == AtMost(8, c.bits - 8 * (i - 1))

Total(c) == Offset(c, Len(c.blocks) + 1)

\* A page is flushed when it is full, and at the end.
Written(c) ==
  FlattenSeq([i \in 1..Total(c) |->
    IF c.op = "WRITEEEPROM" THEN <<<<"store", c.id, i, c.addr + i - 1>>>>
    ELSE IF c.page = 0 THEN <<<<"program", c.id, i, c.addr + i - 1>>>>
    ELSE <<<<"load", c.id, i, c.addr + i - 1>>>> \o
         IF i % c.page = 0 \/ i = Total(c) THEN <<<<"flush", 0, 0, c.addr + i - 1>>>> ELSE <<>>])

Symbols(c) ==
  CASE c.op = "SPIWrite" -> Bytes(c, c.n) \o EndIf(c.cs)
    [] c.op = "SPIRead"  -> Times(c.n, "read") \o EndIf(c.cs)
    [] c.op = "I2CReadWrite" ->
         (IF c.w > 0 THEN <<Sym("S"), Sym("W")>> \o Bytes(c, c.w) ELSE <<>>)
         \o (IF c.r > 0 THEN I2CReads(c.r) ELSE <<Sym("P")>>)
    [] c.op = "I2CStart" -> <<Sym("S")>>
    [] c.op = "I2CStop"  -> <<Sym("P")>>
    [] c.op = "I2CWriteByte" -> <<Byte(c.id, 1)>>
    [] c.op = "I2CReadByte"  -> <<Sym(c.ack)>>
    [] c.op = "MWWrite"  ->
         [i \in 1..ByteNum(c.bits) |-> [Byte(c.id, i) EXCEPT ![4] = BitsIn(c, i)]] \o EndIf(c.cs)
    [] c.op = "MWRead"   -> Times(c.n, "read") \o EndIf(c.cs)
    [] c.op = "MWIsBusy" -> <<Sym("busy")>>
    [] c.op = "Instruction" -> <<<<"instruction", c.id, 0, 0>>>>
    [] c.op = "READFLASH"   -> [i \in 1..Total(c) |-> <<"flash", 0, 0, c.addr + i - 1>>]
    [] c.op = "READEEPROM"  -> [i \in 1..Total(c) |-> <<"eeprom", 0, 0, c.addr + i - 1>>]
    [] OTHER                -> Written(c)

From(k, n) == [i \in 1..n |-> k + i - 1]

Places(c) ==
  CASE c.op \in {"SPIRead", "MWRead"} -> From(1, c.n)
    [] c.op \in {"READFLASH", "READEEPROM"} -> From(1, Total(c))
    [] c.op = "Instruction"           -> <<1, 1, 1, 1>>
    [] c.op = "I2CReadWrite"          -> From(IF c.w > 0 THEN c.w + 5 ELSE 3, c.r)
    [] c.op \in {"I2CWriteByte", "I2CReadByte", "MWIsBusy"} -> <<1>>
    [] OTHER                          -> <<>>

\* Calls are told apart by their number, so that stale bytes show.
AllJobs == {[j EXCEPT !.id = k]: j \in UNION {JobsOf(m.bus): m \in Modes}, k \in 1..MaxJobs}

-----------------------------------------------------------------------------
(***************************************************************************)
(* The driver (usbdrv.c).                                                  *)
(***************************************************************************)
PoweredUp ==
  [addr |-> 0, newAddr |-> 0, rx |-> Nothing, tx |-> Nak, msgLen |-> NoMsg,
   msg |-> <<>>, userRW |-> FALSE, toggle |-> 0, config |-> 0, fw |-> Static]

\* usbDriverSetup and usbDriverDescriptor: the reply of a standard request.
usbDriverSetup(d, rq) ==
  CASE rq.req = "SET_ADDRESS"       -> [d EXCEPT !.newAddr = rq.value, !.msg = <<>>]
    [] rq.req = "SET_CONFIGURATION" -> [d EXCEPT !.config = rq.value, !.msg = <<>>]
    [] rq.req = "GET_DESCRIPTOR"    -> [d EXCEPT !.msg = [i \in 1..(PacketSize + 2) |-> <<"descriptor", i>>]]

\* A restart of the program leaves nothing of the driver's state.
Running(d) ==
  IF d.fw.pins.cpu = "restart" THEN [PoweredUp EXCEPT !.fw.pins.wire = d.fw.pins.wire] ELSE d

SetupReceived(d, rq) ==
  LET d0 == [d EXCEPT !.toggle = 0, !.tx = Nak, !.userRW = FALSE, !.rx = Nothing]
      r  == usbFunctionSetup(d.fw, rq)
      d1 == IF rq.type = "standard" THEN usbDriverSetup(d0, rq)
            ELSE [d0 EXCEPT !.fw = r.fw, !.msg = r.reply]
  IN  IF rq.type = "vendor" /\ r.user
      THEN [d1 EXCEPT !.userRW = TRUE, !.msgLen = IF rq.dir = "in" THEN rq.len ELSE NoMsg]
      ELSE [d1 EXCEPT !.msgLen = AtMost(Len(d1.msg), rq.len)]

OutReceivedKept(d, data) ==
  IF ~d.userRW \/ d.fw.state \notin Writable THEN d
  ELSE [d EXCEPT !.fw = usbFunctionWrite(d.fw, data)]

OutReceived(d, data) ==
  LET d0 == [d EXCEPT !.rx = Nothing]
  IN  IF ~d.userRW THEN d0
      ELSE IF d.fw.state \notin Writable THEN [d0 EXCEPT !.tx = Stall]
      ELSE LET fw == usbFunctionWrite(d.fw, data)
           IN  IF fw.pins.cpu = "hung" THEN [d EXCEPT !.fw = fw]
               ELSE IF fw.nbytes = 0 \/ fw.state = Idle THEN [d0 EXCEPT !.fw = fw, !.msgLen = 0]
               ELSE [d0 EXCEPT !.fw = fw]

usbProcessRx(d) == IF d.rx.pid = "SETUP" THEN SetupReceived(d, d.rx.data) ELSE OutReceived(d, d.rx.data)

WantAll(d) == d.msgLen
Want(d)    == AtMost(PacketSize, d.msgLen)

\* A partial packet identifies the end of the message.
EndsMessageAlways(k) == k <= PacketSize
EndsMessage(k)       == k < PacketSize

usbBuildTxBlock(d) ==
  LET want  == Want(d)
      user  == d.userRW /\ want > 0
      error == user /\ d.fw.state \notin Readable
      r     == IF user /\ ~error THEN usbFunctionRead(d.fw, want)
               ELSE [fw |-> d.fw, data |-> SubSeq(d.msg, 1, want)]
      last  == error \/ EndsMessage(Len(r.data))
  IN  IF r.fw.pins.cpu = "hung" THEN [d EXCEPT !.fw = r.fw]
      ELSE [d EXCEPT !.fw = r.fw, !.toggle = Flip(@),
                     !.msg = IF user THEN @ ELSE SubSeq(@, want + 1, Len(@)),
                     !.msgLen = IF last THEN NoMsg ELSE @ - want,
                     !.tx = IF error THEN Stall ELSE [pid |-> "DATA", toggle |-> Flip(d.toggle), data |-> r.data]]

Loops == host.addr # Unplugged /\ dev.fw.pins.cpu = "running"

\* usbPoll, first half: what the interrupt received.
RxPending == Loops /\ dev.rx # Nothing

PollRx ==
  /\ RxPending
  /\ dev' = Running(usbProcessRx(dev))
  /\ UNCHANGED <<mode, host, port, base, answer, faults>>

\* usbPoll, second half: the next packet, if the last one has gone.
TxPending == Loops /\ dev.rx = Nothing /\ dev.tx \in {Nak, Stall} /\ dev.msgLen # NoMsg

PollTx ==
  /\ TxPending
  /\ dev' = Running(usbBuildTxBlock(dev))
  /\ UNCHANGED <<mode, host, port, base, answer, faults>>

-----------------------------------------------------------------------------
(***************************************************************************)
(* The host: a call is a sequence of control transfers, a transfer a       *)
(* sequence of bus transactions.                                           *)
(***************************************************************************)
Quiet == [addr |-> Unplugged, entered |-> FALSE, inFrame |-> FALSE, made |-> 0, call |-> NoCall, todo |-> <<>>,
          phase |-> "setup", sent |-> 0, got |-> <<>>, toggle |-> 1, total |-> 0, replies |-> <<>>]

Begin(c) ==
  /\ host.call = NoCall
  /\ host' = [host EXCEPT !.call = c, !.todo = Transfers(c), !.phase = "setup", !.total = 0,
                          !.replies = <<>>, !.made = IF IsJob(c) THEN @ + 1 ELSE @,
                          !.inFrame = c.op \in {"SPIWrite", "SPIRead", "MWWrite", "MWRead"} /\ c.cs = 0]
  /\ answer' = Failed

\* The host resets the bus, which usbPoll notices, and gives out an address.
Attach ==
  /\ host.addr = Unplugged
  /\ host.call = NoCall
  /\ host' = [Quiet EXCEPT !.addr = 0, !.call = [op |-> "Attach"], !.made = host.made,
                           !.todo = Transfers([op |-> "Attach"])]
  /\ dev' = IF dev.fw.pins.cpu = "running" THEN [dev EXCEPT !.addr = 0, !.newAddr = 0] ELSE dev
  /\ port' = IF port = "open" THEN "broken" ELSE port
  /\ base' = 0
  /\ answer' = Failed
  /\ UNCHANGED <<mode, faults>>

Attached == host.addr = 1

Open ==
  /\ Attached
  /\ ~host.entered
  /\ Begin([op |-> "Open"])
  /\ UNCHANGED <<mode, dev, port, base, faults>>

Close ==
  /\ Attached
  /\ host.entered
  /\ Begin([op |-> "Close"])
  /\ port' = "broken"
  /\ base' = 0
  /\ UNCHANGED <<mode, dev, faults>>

\* microwire.pas reads only behind a command that left the frame open, and
\* asks for busy only between frames.
InOrder(j) == (j.op = "MWRead" => host.inFrame) /\ (j.op = "MWIsBusy" => ~host.inFrame)

Make(j) ==
  /\ Attached
  /\ host.entered
  /\ host.made < MaxJobs
  /\ InOrder(j)
  /\ Begin([j EXCEPT !.id = host.made + 1])
  /\ base' = IF port = "open" THEN Len(dev.fw.pins.wire) ELSE 0
  /\ UNCHANGED <<mode, dev, port, faults>>

Request == Head(host.todo)

\* The device's interrupt takes a packet for it if the buffer is free.
Listens == host.todo # <<>> /\ dev.addr = host.addr /\ dev.rx = Nothing

(***************************************************************************)
(* The end of a call.  An operation on an SPI or I2C part looks at the     *)
(* result of DevOpen only, so the session is entered although SPIInit      *)
(* failed, and SPIInit does not look at that of the connect.  The AVR tool *)
(* looks at the answer to ENABLEPROG.                                      *)
(***************************************************************************)
Settled(h, c, good, entered) ==
  /\ host' = [h EXCEPT !.call = NoCall, !.todo = <<>>, !.entered = entered,
                       !.addr = IF c.op = "Attach" /\ ~good THEN Unplugged ELSE @]
  /\ port' = CASE c.op = "Open"  -> IF good THEN "open" ELSE "broken"
               [] c.op = "Close" -> "closed"
               [] OTHER          -> IF good THEN port ELSE "broken"
  /\ base' = 0
  /\ answer' = IF good /\ IsJob(c) THEN [ok |-> TRUE, data |-> h.replies] ELSE Failed

\* DevOpen looks at a capability byte it may not have received.
Refused(rq, result) == IF rq.req = "GETCAPABILITIES" /\ result # rq.len THEN BOOLEAN ELSE {FALSE}

\* A transfer ends with a number of bytes, or -1; got is what it brought.
Ends(h, result, got) ==
  LET c     == h.call
      rq    == Head(h.todo)
      total == h.total + result
      g     == [h EXCEPT !.total = total, !.replies = @ \o got, !.todo = Tail(@),
                         !.phase = "setup", !.sent = 0, !.got = <<>>, !.toggle = 1]
      stop  == \/ result # rq.len /\ (c.op = "Attach" \/ rq.req = "SETISPSCK")
               \/ rq.req = "ENABLEPROG" /\ got # <<0>>
  IN  \E refused \in Refused(rq, result):
        IF g.todo = <<>> \/ stop \/ refused
        THEN Settled(g, c, total = Wanted(Transfers(c)) /\ ~stop,
                     CASE c.op = "Open"  -> ~refused /\ ~(stop /\ mode.bus \in {"mw", "isp"})
                       [] c.op = "Close" -> FALSE
                       [] OTHER          -> h.entered)
        ELSE /\ host' = g
             /\ port' = IF port = "open" /\ result # rq.len THEN "broken" ELSE port
             /\ base' = IF port' = "broken" THEN 0 ELSE base
             /\ UNCHANGED answer

Chunk == AtMost(PacketSize, Request.len - host.sent)

Speaks == host.phase = "setup" \/ (host.phase = "data" /\ Request.dir = "out")

Taken(d) ==
  [d EXCEPT !.rx = IF host.phase = "setup" THEN [pid |-> "SETUP", data |-> Request]
                   ELSE [pid |-> "OUT", data |-> [i \in 1..Chunk |->
                           Byte(host.call.id, host.total + host.sent + i)]]]

SendSetup ==
  /\ Listens
  /\ host.phase = "setup"
  /\ dev' = Taken(dev)
  /\ host' = [host EXCEPT !.phase = IF Request.len = 0 THEN "status" ELSE "data"]
  /\ UNCHANGED <<mode, port, base, answer, faults>>

SendData ==
  /\ Listens
  /\ host.phase = "data"
  /\ Request.dir = "out"
  /\ dev' = Taken(dev)
  /\ host' = [host EXCEPT !.sent = @ + Chunk,
                          !.phase = IF host.sent + Chunk = Request.len THEN "status" ELSE "data"]
  /\ UNCHANGED <<mode, port, base, answer, faults>>

\* The interrupt sends the packet, frees the buffer, and takes a new address.
Sent(d) == [d EXCEPT !.tx = Nak, !.addr = d.newAddr]

Offers == Listens /\ dev.tx \notin {Nak, Stall} /\ host.phase # "setup"

\* A packet with the wrong toggle is taken for a repetition and dropped.
ReceiveData ==
  /\ Offers
  /\ host.phase = "data"
  /\ Request.dir = "in"
  /\ LET got  == host.got \o dev.tx.data
         done == Len(dev.tx.data) < PacketSize \/ Len(got) = Request.len
     IN  host' = IF dev.tx.toggle # host.toggle THEN host
                 ELSE [host EXCEPT !.got = got, !.toggle = Flip(@),
                                   !.phase = IF done THEN "status" ELSE "data"]
  /\ dev' = Sent(dev)
  /\ UNCHANGED <<mode, port, base, answer, faults>>

\* The status of an IN transfer: an empty packet, acknowledged and ignored.
StatusOut ==
  /\ Listens
  /\ host.phase = "status"
  /\ Request.dir = "in" /\ Request.len > 0
  /\ Ends(host, Len(host.got), host.got)
  /\ UNCHANGED <<mode, dev, faults>>

\* The status of all others: an empty packet from the device.
StatusIn ==
  /\ Offers
  /\ host.phase = "status"
  /\ (Request.dir = "out" \/ Request.len = 0)
  /\ dev' = Sent(dev)
  /\ IF dev.tx.toggle # 1 THEN UNCHANGED <<host, port, base, answer>>
     ELSE LET h == IF Request.req = "SET_ADDRESS" THEN [host EXCEPT !.addr = Request.value] ELSE host
          IN  Ends(h, IF dev.tx.data = <<>> THEN Request.len ELSE -1, <<>>)
  /\ UNCHANGED <<mode, faults>>

Stalled ==
  /\ Listens
  /\ host.phase # "setup"
  /\ dev.tx = Stall
  /\ Ends(host, -1, <<>>)
  /\ UNCHANGED <<mode, dev, faults>>

-----------------------------------------------------------------------------
(***************************************************************************)
(* Faults.                                                                 *)
(***************************************************************************)
Fault == faults < MaxFaults /\ faults' = faults + 1

\* The packet is damaged on its way to the host; the device has let it go.
LoseData ==
  /\ Fault
  /\ Offers
  /\ dev' = Sent(dev)
  /\ UNCHANGED <<mode, host, port, base, answer>>

(***************************************************************************)
(* The device takes a packet, but its ACK is damaged: the host sends the   *)
(* packet again, and the driver does not compare the toggles of what it    *)
(* receives (USB_CFG_CHECK_DATA_TOGGLING only stores them).  A request is  *)
(* served twice, data are counted twice; no call need notice, so the       *)
(* session is given up.                                                    *)
(***************************************************************************)
LoseAck ==
  /\ Fault
  /\ Listens
  /\ Speaks
  /\ dev' = Taken(dev)
  /\ port' = IF port = "open" THEN "broken" ELSE port
  /\ base' = 0
  /\ answer' = Failed
  /\ UNCHANGED <<mode, host>>

GiveUp ==
  /\ Fault
  /\ host.todo # <<>>
  /\ Ends(host, -1, <<>>)
  /\ UNCHANGED <<mode, dev>>

Unplug ==
  /\ Fault
  /\ host.addr # Unplugged
  /\ host' = [Quiet EXCEPT !.made = host.made]
  /\ port' = "broken"
  /\ base' = 0
  /\ answer' = Failed
  /\ dev' = PoweredUp
  /\ UNCHANGED mode

-----------------------------------------------------------------------------
Init ==
  /\ mode \in Modes
  /\ host = Quiet
  /\ dev = PoweredUp
  /\ port = "closed"
  /\ base = 0
  /\ answer = Failed
  /\ faults = 0

Bus == SendSetup \/ SendData \/ ReceiveData \/ StatusOut \/ StatusIn \/ Stalled

Next ==
  \/ Attach \/ Open \/ Close
  \/ \E j \in JobsOf(mode.bus): Make(j)
  \/ Bus
  \/ PollRx \/ PollTx
  \/ LoseData \/ LoseAck \/ GiveUp \/ Unplug

Spec == Init /\ [][Next]_vars

(***************************************************************************)
(* The main loop and the host controller go on working; the user and the   *)
(* faults owe nothing.  No ten seconds are needed for progress, so GiveUp  *)
(* is not fair either.  PollRx and PollTx are enabled exactly while        *)
(* something is pending for them, and end that: to say it never stays      *)
(* pending is their weak fairness.                                         *)
(***************************************************************************)
Fairness == WF_vars(Bus) /\ []<>~RxPending /\ []<>~TxPending

FairSpec == Spec /\ Fairness

-----------------------------------------------------------------------------
(***************************************************************************)
(* The calls implement the port of ProgrammerPort: within a session that   *)
(* was opened without a fault, and until a call fails, a call that reports *)
(* all its bytes has clocked them once, in order, in the frame it was      *)
(* meant for, and brings what the chip said at those places.               *)
(***************************************************************************)
Port ==
  INSTANCE ProgrammerPort WITH
    Jobs    <- AllJobs,
    NoJob   <- NoCall,
    session <- port,
    call    <- IF port = "open" /\ IsJob(host.call) THEN host.call ELSE NoCall,
    wire    <- IF port = "open" THEN dev.fw.pins.wire ELSE <<>>,
    answer  <- IF port = "open" THEN answer ELSE Failed

ImplementsPort == Port!Spec

(***************************************************************************)
(* Every variable has its type; the driver never offers more than a packet *)
(* and the host never holds more than it asked for.                        *)
(***************************************************************************)
TypeOK ==
  /\ mode \in Modes
  /\ port \in {"closed", "open", "broken"}
  /\ host.addr \in {Unplugged, 0, 1} /\ host.phase \in {"setup", "data", "status"}
  /\ host.made \in 0..MaxJobs /\ faults \in 0..MaxFaults
  /\ host.todo = <<>> <=> host.call = NoCall
  /\ dev.msgLen >= NoMsg /\ dev.rx.pid \in {"none", "SETUP", "OUT"}
  /\ dev.tx.pid = "DATA" => Len(dev.tx.data) <= PacketSize
  /\ host.todo # <<>> => host.sent <= Request.len /\ Len(host.got) <= Request.len
  /\ dev.fw.nbytes >= 0

(***************************************************************************)
(* While nothing has gone wrong the program, the driver and the firmware   *)
(* agree about a transfer: what the device still has to take or give is    *)
(* what the host still has to send or fetch, with the packet between them. *)
(* This is about the calls of usbasphw.pas, and only as long as there was  *)
(* no fault at all: a repeated packet makes the counts differ, and the ISP *)
(* requests of an outside tool are left to ImplementsPort.                 *)
(***************************************************************************)
InFlight ==
  IF dev.rx.pid = "OUT" THEN Len(dev.rx.data)
  ELSE IF dev.tx.pid = "DATA" THEN -Len(dev.tx.data) ELSE 0

InStep ==
  faults = 0 /\ host.phase # "setup" /\ dev.rx.pid # "SETUP" /\ dev.userRW /\ mode.bus # "isp" =>
    dev.fw.nbytes = Request.len + InFlight
                    - (IF Request.dir = "out" THEN host.sent ELSE Len(host.got))

(***************************************************************************)
(* A chip select or an I2C transfer left open by the firmware belongs to a *)
(* call that is not over, failed, or wanted it so: between the calls of a  *)
(* good session nothing else keeps a frame open.                           *)
(***************************************************************************)
FrameOpen == CASE mode.bus = "spi" -> dev.fw.pins.rst = "low"
               [] mode.bus \in {"mw", "isp"} -> FALSE
               [] mode.bus = "i2c" -> dev.fw.pins.sdaLow

NoFrameLeaks ==
  port = "open" /\ host.call = NoCall /\ FrameOpen =>
    \/ host.inFrame
    \/ mode.bus = "i2c" /\ Last(dev.fw.pins.wire) \in {Sym("S"), Sym("ack")}

(***************************************************************************)
(* As long as no fault happens, no call needs the ten seconds of usbhid:   *)
(* the host's transactions and the two halves of usbPoll always finish it. *)
(***************************************************************************)
CallsFinish == (host.call # NoCall) ~> (host.call = NoCall \/ faults > 0)
=============================================================================
