------------------------------- MODULE AvrIsp -------------------------------
(***************************************************************************)
(* The AVRISP-MKII clone as a programmer: the calls of avrisphw.pas for    *)
(* serial memories and those of an AVR programming tool (external), each   *)
(* one or more bulk transfers; the one endpoint bank of the device, which  *)
(* is turned round between the command and its reply; and the command      *)
(* loop, which serves one command at a time (AVRISP_Task).                 *)
(*                                                                         *)
(* The device works on a command once its data is complete, and the host   *)
(* has finished a write when its last packet is in the bank: a success is  *)
(* reported while the bytes have still to be clocked out.                  *)
(*                                                                         *)
(* Bulk packets are neither lost nor repeated.  What can go wrong is a     *)
(* transfer given up, a host too slow to fetch a reply within the 100 ms   *)
(* the device holds it, an AVR that stays busy, the program ended in the   *)
(* middle of a session, and the device unplugged; MaxFaults bounds these.  *)
(***************************************************************************)
EXTENDS AvrIspFirmware

CONSTANTS
  Modes,             \* what the header is used for: a bus and an SCK duration
  JobsOf(_),         \* the calls made on each bus
  MaxJobs, MaxFaults \* bounds: calls made in all sessions, faults

\* The calls of a bus.  A length is sent in two bytes; an AVR tool sends no
\* block larger than the device can take.
Word == 0..2^16 - 1

JobType(b) ==
  CASE b = "spi" -> [op: {"SPIWrite", "SPIRead"}, cs: {0, 1}, n: Word, id: Nat]
    [] b = "i2c" -> {j \in [op: {"I2CReadWrite"}, w: Word, r: Word, id: Nat]: j.w + j.r > 0}
                    \cup [op: {"I2CStart", "I2CStop", "I2CWriteByte"}, id: Nat]
                    \cup [op: {"I2CReadByte"}, ack: {"ack", "nack"}, id: Nat]
    [] b = "mw"  -> [op: {"MWWrite"}, cs: {0, 1}, bits: Word, id: Nat]
                    \cup [op: {"MWRead"}, cs: {0, 1}, n: Word, id: Nat]
                    \cup [op: {"MWIsBusy"}, id: Nat]
    [] b = "isp" -> [op: {"READ_FLASH", "READ_EEPROM", "PROGRAM_FLASH", "PROGRAM_EEPROM"}, addr: Nat,
                     extended: BOOLEAN, paged: BOOLEAN, blocks: Seq(1..BlockMax), id: Nat]
                    \cup [op: {"CHIP_ERASE", "READ_FUSE", "PROGRAM_FUSE"}, id: Nat]
                    \cup [op: {"SPI_MULTI"}, n: Nat, id: Nat]

ASSUME AvrIspAssumption ==
  /\ PacketSize \in Nat /\ PacketSize > 2
  /\ BlockMax \in Nat
  /\ {MaxJobs, MaxFaults} \subseteq Nat
  /\ Modes \subseteq [bus: {"spi", "i2c", "mw", "isp"}, sck: Nat]
  /\ \A m \in Modes: m.bus = "spi" => m.sck < HardwareSpeeds
  /\ \A b \in {"spi", "i2c", "mw", "isp"}: JobsOf(b) \subseteq JobType(b)

VARIABLES
  mode,    \* what the user works with
  host,    \* the call under way and its bulk transfer
  dev,     \* the endpoint bank and the command loop
  port,    \* history: is the session as good as new: "closed", "open", "broken"
  base,    \* history: length of the wire when the call was made
  answer,  \* what the last call returned
  faults

vars == <<mode, host, dev, port, base, answer, faults>>

NoCmd  == [cmd |-> "none", len |-> 0]
NoCall == [op |-> "none"]
Empty  == [head |-> NoCmd, data |-> <<>>, full |-> FALSE, wire |-> <<>>]
Failed == [ok |-> FALSE, data |-> <<>>]

\* Bytes nobody sent as what they are taken for.
StrayByte     == Byte(0, 0)
StrayCommands == {[cmd |-> "stray", len |-> 0], [cmd |-> "SPI25_WRITE", len |-> 2, cs |-> 1]}

-----------------------------------------------------------------------------
(***************************************************************************)
(* The calls, as the bulk transfers they make.  A tool for AVRs ends what  *)
(* it sends with a short packet, reads until one, and stops at an error.   *)
(* A call with a failed transfer has failed; SPIRead itself looks at its   *)
(* read alone, which a command that was lost leaves without an answer.     *)
(***************************************************************************)
Config     == [ep |-> "config", must |-> FALSE]
Out(head)  == [ep |-> "out", head |-> head, off |-> 0, short |-> FALSE, must |-> FALSE]
In(n)      == [ep |-> "in", n |-> n, short |-> FALSE, must |-> FALSE, ver |-> FALSE]
Bare(name) == [cmd |-> name, len |-> 0]

Tool(head, off, n) ==
  <<[Out(head) EXCEPT !.off = off, !.short = TRUE, !.must = TRUE],
    [In(n) EXCEPT !.short = TRUE, !.must = TRUE]>>

SetParameter(param, value) == [cmd |-> "SET_PARAMETER", len |-> 0, param |-> param, value |-> value]
GetParameter(param)        == [cmd |-> "GET_PARAMETER", len |-> 0, param |-> param]

SetSpeed(m) == <<Out(SetParameter("SCK_DURATION", m.sck)), [In(1) EXCEPT !.must = TRUE]>>

DevOpen == <<Config, Out(Bare("FIRMWARE_VER")), [In(1) EXCEPT !.ver = TRUE]>>

ToolOpen(m) ==
  <<Config>> \o Tool(Bare("SIGN_ON"), 0, 1) \o Tool(GetParameter("VTARGET"), 0, 2)
  \o Tool(SetParameter("SCK_DURATION", m.sck), 0, 1)
  \o Tool(SetParameter("RESET_POLARITY", 1), 0, 1) \o Tool(Bare("ENTER_ISP"), 0, 1)

SetUp(m) ==
  CASE m.bus = "spi" -> DevOpen \o SetSpeed(m) \o <<Out(Bare("ENTER_SPI25")), In(1)>>
    [] m.bus = "i2c" -> DevOpen \o <<Out(Bare("I2C_INIT"))>>
    [] m.bus = "mw"  -> DevOpen \o SetSpeed(m) \o <<Out(Bare("MW_INIT"))>>
    [] m.bus = "isp" -> ToolOpen(m)

\* LEAVE's reply is not read by avrisphw.pas.
TearDown(m) ==
  IF m.bus = "isp" THEN Tool(Bare("LEAVE_ISP"), 0, 1) ELSE <<Out(Bare("LEAVE_SPI25"))>>

ByteNum(bits) == (bits + 7) \div 8

Offset(c, b) == FoldLeft(LAMBDA sum, n: sum + n, 0, SubSeq(c.blocks, 1, b - 1))
Total(c)     == Offset(c, Len(c.blocks) + 1)

\* The address is loaded once; the device counts on from block to block.
Blocks(c, Block(_)) ==
  Tool([cmd |-> "LOAD_ADDRESS", len |-> 0, addr |-> c.addr, extended |-> c.extended], 0, 1)
  \o [k \in 1..2 * Len(c.blocks) |-> Block((k + 1) \div 2)[IF k % 2 = 1 THEN 1 ELSE 2]]

Transfers(c) ==
  CASE c.op = "SPIWrite" -> <<Out([cmd |-> "SPI25_WRITE", len |-> c.n, cs |-> c.cs])>>
    [] c.op = "SPIRead"  -> <<Out([cmd |-> "SPI25_READ", len |-> 0, n |-> c.n, cs |-> c.cs]), In(c.n)>>
    [] c.op = "I2CReadWrite" ->
         (IF c.w > 0 THEN <<Out([cmd |-> "I2C_WRITE", len |-> c.w, stop |-> IF c.r > 0 THEN 0 ELSE 1])>> ELSE <<>>)
         \o (IF c.r > 0 THEN <<Out([cmd |-> "I2C_READ", len |-> 0, n |-> c.r]), In(c.r)>> ELSE <<>>)
    [] c.op = "I2CStart" -> <<Out(Bare("I2C_START"))>>
    [] c.op = "I2CStop"  -> <<Out(Bare("I2C_STOP"))>>
    [] c.op = "I2CWriteByte" -> <<Out([cmd |-> "I2C_WRITEBYTE", len |-> 0, byte |-> Byte(c.id, 1)]), In(1)>>
    [] c.op = "I2CReadByte"  -> <<Out([cmd |-> "I2C_READBYTE", len |-> 0, ack |-> c.ack]), In(1)>>
    [] c.op = "MWWrite"  -> <<Out([cmd |-> "MW_WRITE", len |-> ByteNum(c.bits), cs |-> c.cs, bits |-> c.bits])>>
    [] c.op = "MWRead"   -> <<Out([cmd |-> "MW_READ", len |-> 0, n |-> c.n, cs |-> c.cs]), In(IF c.n = 0 THEN 1 ELSE c.n)>>
    [] c.op = "MWIsBusy" -> <<Out(Bare("MW_BUSY")), In(1)>>
    [] c.op \in {"READ_FLASH", "READ_EEPROM"} ->
         Blocks(c, LAMBDA b: Tool([cmd |-> c.op, len |-> 0, n |-> c.blocks[b]], 0, c.blocks[b] + 2))
    [] c.op \in {"PROGRAM_FLASH", "PROGRAM_EEPROM"} ->
         Blocks(c, LAMBDA b: Tool([cmd |-> c.op, len |-> c.blocks[b], paged |-> c.paged,
                                   commit |-> c.paged, polled |-> TRUE], Offset(c, b), 1))
    [] c.op = "CHIP_ERASE"   -> Tool([cmd |-> c.op, len |-> 0, polled |-> TRUE], 0, 1)
    [] c.op = "READ_FUSE"    -> Tool(Bare(c.op), 0, 2)
    [] c.op = "PROGRAM_FUSE" -> Tool([cmd |-> c.op, len |-> 0, id |-> c.id], 0, 1)
    [] c.op = "SPI_MULTI"    -> Tool([cmd |-> c.op, len |-> 1, n |-> c.n], 0, c.n + 2)

IsJob(c) == c.op \notin {"none", "Open", "Close"}

(***************************************************************************)
(* What each call is to put on the wires of the chip, and which of these   *)
(* symbols the chip answers.                                               *)
(***************************************************************************)
Bytes(c, n)   == [i \in 1..n |-> Byte(c.id, i)]
Times(n, s)   == [i \in 1..n |-> Sym(s)]
EndIf(cs)     == IF cs = 1 THEN <<Sym("end")>> ELSE <<>>
From(k, n)    == [i \in 1..n |-> k + i - 1]
BitsIn(c, i)  == IF c.bits - 8 * (i - 1) < 8 THEN c.bits - 8 * (i - 1) ELSE 8

\* Flash is addressed by words, and its bytes are numbered through.
FirstByte(c) == IF c.op \in {"READ_FLASH", "PROGRAM_FLASH"} THEN 2 * c.addr ELSE c.addr

Written(c) ==
  FlattenSeq([b \in 1..Len(c.blocks) |->
    [i \in 1..c.blocks[b] |-> <<IF c.paged THEN "load" ELSE c.op, c.id, Offset(c, b) + i,
                                FirstByte(c) + Offset(c, b) + i - 1>>]
    \o IF ~c.paged THEN <<>>
       ELSE <<<<"commit", 0, 0, c.addr + Offset(c, b) \div (IF c.op = "PROGRAM_FLASH" THEN 2 ELSE 1)>>>>])

Symbols(c) ==
  CASE c.op = "SPIWrite" -> Bytes(c, c.n) \o EndIf(c.cs)
    [] c.op = "SPIRead"  -> Times(c.n, "read") \o EndIf(c.cs)
    [] c.op = "I2CReadWrite" ->
         (IF c.w > 0 THEN <<Sym("S"), Sym("W")>> \o Bytes(c, c.w) ELSE <<>>)
         \o (IF c.r > 0 THEN <<Sym("S"), Sym("R")>> \o Times(c.r - 1, "ack") \o <<Sym("nack")>> ELSE <<>>)
         \o <<Sym("P")>>
    [] c.op = "I2CStart" -> <<Sym("S")>>
    [] c.op = "I2CStop"  -> <<Sym("P")>>
    [] c.op = "I2CWriteByte" -> <<Byte(c.id, 1)>>
    [] c.op = "I2CReadByte"  -> <<Sym(c.ack)>>
    [] c.op = "MWWrite"  ->
         [i \in 1..ByteNum(c.bits) |-> [Byte(c.id, i) EXCEPT ![4] = BitsIn(c, i)]] \o EndIf(c.cs)
    [] c.op = "MWRead"   -> Times(c.n, "read") \o EndIf(c.cs)
    [] c.op = "MWIsBusy" -> <<Sym("busy")>>
    [] c.op \in {"READ_FLASH", "READ_EEPROM"} ->
         [i \in 1..Total(c) |-> <<c.op, 0, 0, FirstByte(c) + i - 1>>]
    [] c.op \in {"PROGRAM_FLASH", "PROGRAM_EEPROM"} -> Written(c)
    [] c.op = "CHIP_ERASE"   -> <<Sym("erase")>>
    [] c.op = "READ_FUSE"    -> <<Sym("fuse")>>
    [] c.op = "PROGRAM_FUSE" -> <<<<"setfuse", c.id, 0, 0>>>>
    [] c.op = "SPI_MULTI"    -> <<<<"multi", c.id, 0, 0>>>>

Places(c) ==
  CASE c.op \in {"SPIRead", "MWRead"} -> From(1, c.n)
    [] c.op \in {"READ_FLASH", "READ_EEPROM"} -> From(1, Total(c))
    [] c.op = "I2CReadWrite" -> From(IF c.w > 0 THEN c.w + 5 ELSE 3, c.r)
    [] c.op \in {"I2CWriteByte", "I2CReadByte", "MWIsBusy", "READ_FUSE"} -> <<1>>
    [] c.op = "SPI_MULTI" -> [i \in 1..c.n |-> 1]
    [] OTHER -> <<>>

\* Calls are told apart by their number, so that stale bytes show.
AllJobs == {[j EXCEPT !.id = k]: j \in UNION {JobsOf(m.bus): m \in Modes}, k \in 1..MaxJobs}

-----------------------------------------------------------------------------
(***************************************************************************)
(* The device.  bank is the packet received (its wire, a history, is what  *)
(* the chip will have seen once the packet is worked off); reply is the    *)
(* packets still to be sent, the first of them in the bank, which is then  *)
(* turned to the host; cmd and got are a command whose data is not         *)
(* complete.  strayed says that a byte was taken for what it was not since *)
(* the last configuration.                                                 *)
(***************************************************************************)
Powered(params) ==
  [bank |-> Empty, cmd |-> NoCmd, got |-> <<>>, reply |-> <<>>, strayed |-> FALSE, fw |-> Start(params)]

Runs == ~dev.fw.pins.hung
Idle == dev.cmd = NoCmd /\ dev.bank = Empty /\ dev.reply = <<>>

Executed(d, c, data, stuck) ==
  LET r == ProcessCommand(d.fw, c, data, stuck)
  IN  [d EXCEPT !.fw = r.fw, !.reply = r.reply, !.cmd = NoCmd, !.got = <<>>]

(***************************************************************************)
(* A block to program is followed by an empty packet when its last one is  *)
(* full; the block is complete with whatever comes then.                   *)
(***************************************************************************)
NeverEmpty(c)    == FALSE
EndsWithEmpty(c) == c.cmd \in {"PROGRAM_FLASH", "PROGRAM_EEPROM"} /\ (1 + c.len) % PacketSize = 0

Complete(c, before, after) ==
  IF TooLong(c) THEN TRUE
  ELSE IF EndsWithEmpty(c) THEN before >= c.len ELSE after >= c.len

Take(d, stuck, stray) ==
  LET pk    == d.bank
      opens == d.cmd = NoCmd
      c     == IF ~opens THEN d.cmd ELSE IF pk.head # NoCmd THEN pk.head ELSE stray
      data  == d.got \o (IF opens \/ pk.head = NoCmd THEN <<>> ELSE <<StrayByte>>) \o pk.data
      taken == [d EXCEPT !.bank = Empty, !.cmd = c, !.got = data,
                         !.strayed = @ \/ (opens <=> pk.head = NoCmd)]
  IN  IF Complete(c, Len(d.got), Len(data)) THEN Executed(taken, c, data, stuck) ELSE taken

TakePending == Runs /\ dev.bank.full

TakePacket ==
  /\ TakePending
  /\ \E stray \in IF dev.cmd = NoCmd /\ dev.bank.head = NoCmd THEN StrayCommands ELSE {NoCmd}:
       dev' = Take(dev, 0, stray)
  /\ UNCHANGED <<mode, host, port, base, answer, faults>>

\* What the chip has seen once the device has worked off what it accepted.
Wire == IF TakePending THEN dev.bank.wire ELSE dev.fw.pins.wire

\* Whether the host is about to send more, or to fetch the reply.
Elements(t) == 1 + t.head.len
PacketsOf(t) ==
  (Elements(t) + PacketSize - 1) \div PacketSize
  + (IF t.short /\ Elements(t) % PacketSize = 0 THEN 1 ELSE 0)

Now(ep) == host.todo # <<>> /\ Head(host.todo).ep = ep
Sending == Now("out") /\ host.sent < PacketsOf(Head(host.todo))
Awaited ==
  \/ Now("in")
  \/ Now("out") /\ ~Sending /\ Len(host.todo) > 1 /\ host.todo[2].ep = "in"

\* Endpoint_Read_Stream gives up after 100 ms, and the command goes on.
StreamTimeout ==
  /\ Runs
  /\ dev.cmd # NoCmd
  /\ dev.bank = Empty
  /\ ~Sending
  /\ LET missing == IF dev.cmd.len > Len(dev.got) THEN dev.cmd.len - Len(dev.got) ELSE 0
         data    == dev.got \o [i \in 1..missing |-> StrayByte]
     IN  dev' = Executed([dev EXCEPT !.strayed = @ \/ missing > 0], dev.cmd, data, 0)
  /\ UNCHANGED <<mode, host, port, base, answer, faults>>

\* Endpoint_WaitUntilReady gives up after 100 ms; the reply is dropped.
DropReply ==
  /\ Runs
  /\ dev.reply # <<>>
  /\ ~Awaited
  /\ dev' = [dev EXCEPT !.reply = <<>>]
  /\ UNCHANGED <<mode, host, port, base, answer, faults>>

-----------------------------------------------------------------------------
(***************************************************************************)
(* The host.                                                               *)
(***************************************************************************)
Quiet == [entered |-> FALSE, clean |-> TRUE, inFrame |-> FALSE, made |-> 0, call |-> NoCall,
          todo |-> <<>>, sent |-> 0, got |-> <<>>, replies |-> <<>>, good |-> TRUE]

Begin(c, todo, inFrame, good) ==
  /\ host.call = NoCall
  /\ host' = [host EXCEPT !.call = c, !.todo = todo, !.inFrame = inFrame, !.replies = <<>>,
                          !.good = good, !.made = IF IsJob(c) THEN @ + 1 ELSE @]
  /\ answer' = Failed

(***************************************************************************)
(* The user changes to another kind of chip between sessions.  After one   *)
(* in which something failed he tries the same again: only a new session   *)
(* of the same kind puts the pins right.                                   *)
(***************************************************************************)
Open ==
  /\ ~host.entered
  /\ mode' \in IF host.clean THEN Modes ELSE {mode}
  /\ Begin([op |-> "Open"], SetUp(mode'), FALSE, TRUE)
  /\ UNCHANGED <<dev, port, base, faults>>

\* No session ends within a frame or an I2C transfer.
Close ==
  /\ host.entered
  /\ ~host.inFrame
  /\ Begin([op |-> "Close"], TearDown(mode), FALSE, port = "open")
  /\ port' = "broken"
  /\ base' = 0
  /\ UNCHANGED <<mode, dev, faults>>

\* A frame is what chip select or a start and a stop enclose.
LeavesOpen(c) ==
  \/ c.op \in {"SPIWrite", "SPIRead", "MWWrite", "MWRead"} /\ c.cs = 0
  \/ c.op \in {"I2CStart", "I2CWriteByte", "I2CReadByte"}

InOrder(j) ==
  /\ j.op \in {"MWRead", "I2CStop", "I2CWriteByte", "I2CReadByte"} => host.inFrame
  /\ j.op \in {"MWIsBusy", "I2CReadWrite", "I2CStart"} => ~host.inFrame

Make(j) ==
  /\ host.entered
  /\ host.made < MaxJobs
  /\ InOrder(j)
  /\ LET c == [j EXCEPT !.id = host.made + 1] IN Begin(c, Transfers(c), LeavesOpen(c), TRUE)
  /\ base' = IF port = "open" THEN Len(Wire) ELSE 0
  /\ UNCHANGED <<mode, dev, port, faults>>

(***************************************************************************)
(* The end of a call.  An operation on a memory looks at the result of     *)
(* DevOpen only, so the session is entered although SPIInit or MWInit      *)
(* failed; the AVR tool stops.  A session was left in order if nothing in  *)
(* it failed.  A Microwire session does not deselect the chip: it is good  *)
(* only after one that was left in order.                                  *)
(***************************************************************************)
Settled(h, good, refused) ==
  LET op == h.call.op
  IN  /\ host' = [h EXCEPT !.call = NoCall, !.todo = <<>>,
                           !.clean = (op = "Close" /\ good) \/ (@ /\ op # "Open"),
                           !.entered = CASE op = "Open"  -> ~refused /\ (mode.bus = "isp" => good)
                                         [] op = "Close" -> FALSE
                                         [] OTHER        -> @]
      /\ port' = CASE op = "Open"  -> IF good /\ (h.clean \/ mode.bus # "mw") THEN "open" ELSE "broken"
                   [] op = "Close" -> IF good THEN "closed" ELSE "broken"
                   [] OTHER        -> IF good THEN port ELSE "broken"
      /\ base' = 0
      /\ answer' = IF good /\ IsJob(h.call) THEN [ok |-> TRUE, data |-> SelectSeq(h.replies, LAMBDA v: v >= 0)]
                   ELSE Failed

\* A transfer is over, well or not, and got is what it brought.  DevOpen
\* looks at a version byte it may not have received.
Ends(ok, got) ==
  LET t    == Head(host.todo)
      good == host.good /\ ok
      g    == [host EXCEPT !.todo = Tail(@), !.sent = 0, !.got = <<>>, !.replies = @ \o got, !.good = good]
      stop == ~ok /\ t.must
      refusals == IF ~ok /\ t.ep = "in" /\ t.ver THEN BOOLEAN ELSE {FALSE}
  IN  \E refused \in refusals:
        IF g.todo = <<>> \/ stop \/ refused THEN Settled(g, good, refused)
        ELSE /\ host' = g
             /\ port' = IF port = "open" /\ ~good THEN "broken" ELSE port
             /\ base' = IF port' = "broken" THEN 0 ELSE base
             /\ UNCHANGED answer

\* The main loop handles it between commands, and clears the bank.
Configure ==
  /\ Now("config")
  /\ Runs /\ Idle
  /\ dev' = [dev EXCEPT !.strayed = FALSE]
  /\ Ends(TRUE, <<>>)
  /\ UNCHANGED <<mode, faults>>

SendPacket ==
  /\ Sending
  /\ Runs /\ dev.bank = Empty /\ dev.reply = <<>>
  /\ LET t     == Head(host.todo)
         first == host.sent * PacketSize + 1
         last  == IF first + PacketSize - 1 < Elements(t) THEN first + PacketSize - 1 ELSE Elements(t)
         bytes == [i \in 1..t.head.len |-> Byte(host.call.id, t.off + i)]
         d     == [dev EXCEPT !.bank =
                     [head |-> IF first = 1 THEN t.head ELSE NoCmd, full |-> TRUE, wire |-> <<>>,
                      data |-> SubSeq(bytes, IF first = 1 THEN 1 ELSE first - 1, last - 1)]]
         after == Take(d, 0, [cmd |-> "stray", len |-> 0])
     IN  dev' = [d EXCEPT !.bank.wire = after.fw.pins.wire]
  /\ host' = [host EXCEPT !.sent = @ + 1]
  /\ UNCHANGED <<mode, port, base, answer, faults>>

WriteDone ==
  /\ Now("out")
  /\ ~Sending
  /\ Ends(TRUE, <<>>)
  /\ UNCHANGED <<mode, dev, faults>>

\* A short packet ends a read, or the last of the bytes asked for.
ReceivePacket ==
  /\ Now("in")
  /\ Runs /\ dev.reply # <<>>
  /\ LET t    == Head(host.todo)
         got  == host.got \o Head(dev.reply)
         done == Len(Head(dev.reply)) < PacketSize \/ (~t.short /\ Len(got) >= t.n)
     IN  IF done THEN Ends(Len(got) = t.n /\ (t.must => got[1] = STATUS_CMD_OK), got)
         ELSE /\ host' = [host EXCEPT !.got = got]
              /\ UNCHANGED <<port, base, answer>>
  /\ dev' = [dev EXCEPT !.reply = Tail(@)]
  /\ UNCHANGED <<mode, faults>>

-----------------------------------------------------------------------------
(***************************************************************************)
(* Faults.                                                                 *)
(***************************************************************************)
Fault == faults < MaxFaults /\ faults' = faults + 1

GiveUp ==
  /\ Fault
  /\ host.todo # <<>>
  /\ Ends(FALSE, <<>>)
  /\ UNCHANGED <<mode, dev>>

\* A second after a fault, for want of anything to come.
TimesOut ==
  /\ faults > 0
  /\ (~Runs /\ host.todo # <<>>) \/ (Now("in") /\ Idle)
  /\ Ends(FALSE, <<>>)
  /\ UNCHANGED <<mode, dev, faults>>

\* The host comes for the reply when some of it has been dropped.
Late ==
  /\ Fault
  /\ Awaited
  /\ \E k \in 1..Len(dev.reply): dev' = [dev EXCEPT !.reply = SubSeq(@, k + 1, Len(@))]
  /\ UNCHANGED <<mode, host, port, base, answer>>

\* The AVR stays busy at some byte, or the page, of what is programmed.
TargetBusy ==
  /\ Fault
  /\ TakePending
  /\ \E stuck \in 1..(1 + dev.cmd.len):
       /\ stuck <= dev.cmd.len \/ stuck = 1
       /\ dev' = Take(dev, stuck, NoCmd)
       /\ dev'.reply # <<>> /\ dev'.reply[1][1] = STATUS_RDY_BSY_TOUT
  /\ port' = IF port = "open" THEN "broken" ELSE port
  /\ base' = 0
  /\ UNCHANGED <<mode, host, answer>>

\* The program ends, and with it the session and the call under way.
Killed ==
  /\ Fault
  /\ host.entered \/ host.call # NoCall
  /\ host' = [Quiet EXCEPT !.made = host.made, !.clean = FALSE]
  /\ port' = "broken" /\ base' = 0 /\ answer' = Failed
  /\ UNCHANGED <<mode, dev>>

\* The parameters kept in EEPROM survive.
Unplug ==
  /\ Fault
  /\ host' = [Quiet EXCEPT !.made = host.made]
  /\ dev' = Powered(dev.fw.params)
  /\ port' = "broken" /\ base' = 0 /\ answer' = Failed
  /\ UNCHANGED mode

-----------------------------------------------------------------------------
Init ==
  /\ mode \in Modes
  /\ host = Quiet
  /\ dev = Powered(Defaults)
  /\ port = "closed"
  /\ base = 0
  /\ answer = Failed
  /\ faults = 0

Usb == Configure \/ SendPacket \/ WriteDone \/ ReceivePacket

Next ==
  \/ Open \/ Close
  \/ \E j \in JobsOf(mode.bus): Make(j)
  \/ Usb
  \/ TakePacket \/ StreamTimeout \/ DropReply
  \/ GiveUp \/ TimesOut \/ Late \/ TargetBusy \/ Killed \/ Unplug

Spec == Init /\ [][Next]_vars

(***************************************************************************)
(* The host controller, the device's loop and its timer go on working; the *)
(* user and the faults owe nothing.  TakePacket is enabled exactly while   *)
(* TakePending holds, and ends that; Usb is enabled exactly while          *)
(* UsbPending holds, and finitely many steps of it end a call: to say that *)
(* neither stays pending for ever is their weak fairness.                  *)
(***************************************************************************)
UsbPending ==
  \/ Now("config") /\ Runs /\ Idle
  \/ Sending /\ Runs /\ dev.bank = Empty /\ dev.reply = <<>>
  \/ Now("out") /\ ~Sending
  \/ Now("in") /\ Runs /\ dev.reply # <<>>

Fairness == []<>~UsbPending /\ WF_vars(DropReply) /\ []<>~TakePending

FairSpec == Spec /\ Fairness

-----------------------------------------------------------------------------
(***************************************************************************)
(* The calls implement the port of ProgrammerPort: within a good session,  *)
(* and until a call fails, a call that reports success has put its symbols *)
(* on the wires once and in order, or will have before anything else is    *)
(* done, and brings what the chip said at those places.                    *)
(***************************************************************************)
Port ==
  INSTANCE ProgrammerPort WITH
    Jobs    <- AllJobs,
    NoJob   <- NoCall,
    session <- port,
    call    <- IF port = "open" /\ IsJob(host.call) THEN host.call ELSE NoCall,
    wire    <- IF port = "open" THEN Wire ELSE <<>>,
    answer  <- IF port = "open" THEN answer ELSE Failed

ImplementsPort == Port!Spec

(***************************************************************************)
(* Every variable has its type; a packet is never larger than the bank,    *)
(* and the bank is never used in both directions.                          *)
(***************************************************************************)
TypeOK ==
  /\ mode \in Modes
  /\ port \in {"closed", "open", "broken"}
  /\ host.made \in 0..MaxJobs /\ faults \in 0..MaxFaults
  /\ host.todo = <<>> <=> host.call = NoCall
  /\ Now("out") => host.sent <= PacketsOf(Head(host.todo))
  /\ Len(dev.bank.data) <= PacketSize
  /\ \A k \in DOMAIN dev.reply: Len(dev.reply[k]) <= PacketSize
  /\ dev.reply # <<>> => dev.cmd = NoCmd /\ ~dev.bank.full
  /\ DOMAIN dev.fw.params = DOMAIN Defaults

(***************************************************************************)
(* In a good session no byte is taken for what it is not: no data for a    *)
(* command, no command for data, no empty packet for either.               *)
(***************************************************************************)
OnlyOwnBytes == dev.strayed => port # "open"

(***************************************************************************)
(* After a session that was left in order, and before the next begins, the *)
(* header drives nothing: the target runs on its own.  Of a session whose  *)
(* LEAVE was lost nothing is said.                                         *)
(***************************************************************************)
TargetReleased ==
  port = "closed" /\ host.call = NoCall /\ dev.cmd = NoCmd /\ ~dev.bank.full =>
    ~dev.fw.pins.out /\ dev.fw.pins.cs = "float" /\ ~dev.fw.pins.sdaLow /\ ~dev.fw.pins.prog

(***************************************************************************)
(* As long as no fault happens, no call needs the second of libusb, nor    *)
(* the 100 ms of a data stream: the host and the device always finish it.  *)
(***************************************************************************)
CallsFinish == (host.call # NoCall) ~> (host.call = NoCall \/ faults > 0)
=============================================================================
