------------------------------- MODULE Asprog -------------------------------
(***************************************************************************)
(* The Arduino programmer: the calls of arduinohw.pas, the serial line and *)
(* the sketch at its other end.  Every function is accepted by an echo of  *)
(* its code, every chunk of data by an ACK; both ends wait with a timeout  *)
(* (TIMEOUT, two seconds, and Serial.setTimeout, one second) and go on as  *)
(* if nothing had happened.  Between the calls of a session nothing is     *)
(* purged: a byte one call leaves on the line is the next one's echo.      *)
(*                                                                         *)
(* The line may lose bytes in both directions, the host may be late by     *)
(* more than the sketch waits, the program may end in the middle of a      *)
(* session, and the board may be reset; MaxFaults bounds these.            *)
(***************************************************************************)
EXTENDS AsprogFirmware

CONSTANTS
  Buses,              \* the kinds of chip the user works with
  JobsOf(_),          \* the calls made on each
  StrayCodes,         \* what a byte that is no code may be taken for
  MaxJobs, MaxFaults  \* bounds: calls made in all sessions, faults

(***************************************************************************)
(* The calls of a bus.  A length is sent as two bytes, which the sketch    *)
(* takes for an int of 16 bits: it does nothing for a negative one, which  *)
(* no caller comes near.  The number of bits is sent as one byte; no       *)
(* caller writes none, and MWWrite would wait for an ACK nobody sends.     *)
(***************************************************************************)
Word == 0..2^15 - 1
Bits == 1..2^8 - 1

JobType(b) ==
  CASE b = "spi" -> [op: {"SPIRead", "SPIWrite"}, cs: {0, 1}, n: Word, id: Nat]
    [] b = "i2c" -> [op: {"I2CReadWrite"}, w: Word, r: Word, id: Nat]
                    \cup [op: {"I2CStart", "I2CStop", "I2CWriteByte"}, id: Nat]
                    \cup [op: {"I2CReadByte"}, ack: {"ack", "nack"}, id: Nat]
    [] b = "mw"  -> [op: {"MWWrite"}, cs: {0, 1}, bits: Bits, id: Nat]
                    \cup [op: {"MWRead"}, cs: {0, 1}, n: Word, id: Nat]
                    \cup [op: {"MWIsBusy"}, id: Nat]

ASSUME AsprogAssumption ==
  /\ Buses \subseteq {"spi", "i2c", "mw"}
  /\ \A b \in Buses: JobsOf(b) \subseteq JobType(b)
  /\ {MaxJobs, MaxFaults} \subseteq Nat

VARIABLES
  bus,     \* what the user works with
  host,    \* the call under way and what is left of it
  up,      \* the bytes on their way to the sketch
  down,    \* the bytes on their way to the host
  fw,      \* the sketch
  port,    \* history: is the session as good as new: "closed", "open", "broken",
           \* or "doomed" by the call under way, whose handler has given up
  base,    \* history: length of the wire when the call was made
  answer,  \* what the last call returned
  faults

vars == <<bus, host, up, down, fw, port, base, answer, faults>>

NoCall == [op |-> "none"]
Failed == [ok |-> FALSE, data |-> <<>>]

-----------------------------------------------------------------------------
(***************************************************************************)
(* The calls, as what they send and what they wait for.  A byte to send    *)
(* carries two histories: unanswered, that the call does not wait for any  *)
(* answer by which it could miss it, and, for a byte it does not even wait *)
(* for the effect of, the symbols this will put on the wires.              *)
(***************************************************************************)
Connect == [do |-> "connect"]
Send(bytes) == [do |-> "send", bytes |-> [i \in DOMAIN bytes |-> [byte |-> bytes[i], unanswered |-> FALSE, symbols |-> <<>>]]]
Tell(bytes, symbols) ==
  [do |-> "send", bytes |-> [i \in DOMAIN bytes |-> [byte |-> bytes[i], unanswered |-> TRUE, symbols |-> symbols]]]
Echo(code)  == [do |-> "echo", code |-> code]
RecvBuffer(n) == [do |-> "recv", n |-> n]

Function(code, arguments) == <<Send(<<Code(code)>> \o arguments), Echo(code)>>

HiLo(n)    == <<Num(n \div 256), Num(n % 256)>>
ByteNum(n) == (n + 7) \div 8

\* The k-th of the chunks n bytes are cut into, and their number.
Chunk(n, size, k) == AtMost(size, n - (k - 1) * size)
ChunksIn(n, size) == (n + size - 1) \div size

\* First(1), Second(1), First(2), ... Second(m): m turns of the two.
Alternately(m, First(_), Second(_)) ==
  [k \in 1..2 * m |-> IF k % 2 = 1 THEN First((k + 1) \div 2) ELSE Second(k \div 2)]

\* The data of a write; a success of the last chunk ends the call.
Writing(id, n, size) ==
  LET Sent(k)  == Tell([i \in 1..Chunk(n, size, k) |-> Data(id, (k - 1) * size + i)], <<>>)
      Asked(k) == Echo("ACK")
  IN  Alternately(ChunksIn(n, size), Sent, Asked)

ReadingUnacked(n, ending) ==
  LET m == ChunksIn(n, rchunk)
      Fetched(k) == RecvBuffer(Chunk(n, rchunk, k))
      Acked(k)   == Send(<<Code("ACK")>>)
  IN  SubSeq(Alternately(m, Fetched, Acked), 1, 2 * m - 1)

\* Nothing answers the ACK of the last chunk.
Reading(n, ending) ==
  LET m == ChunksIn(n, rchunk)
      Fetched(k) == RecvBuffer(Chunk(n, rchunk, k))
      Acked(k)    == IF k < m THEN Send(<<Code("ACK")>>) ELSE Tell(<<Code("ACK")>>, ending)
  IN  Alternately(m, Fetched, Acked)

EndIf(cs) == IF cs = 1 THEN <<Sym("end")>> ELSE <<>>

SetUp(b) ==
  <<Connect>> \o
  CASE b = "spi" -> Function("SPI_INIT", <<Num(0)>>)
    [] b = "i2c" -> Function("I2C_INIT", <<>>)
    [] b = "mw"  -> Function("MW_INIT", <<>>)

TearDown(b) ==
  CASE b = "spi" -> Function("SPI_DEINIT", <<>>)
    [] b = "i2c" -> <<>>
    [] b = "mw"  -> Function("MW_DEINIT", <<>>)

Script(c) ==
  CASE c.op = "SPIRead"  -> Function("SPI_READ", <<Num(c.cs)>> \o HiLo(c.n)) \o Reading(c.n, EndIf(c.cs))
    [] c.op = "SPIWrite" -> Function("SPI_WRITE", <<Num(c.cs)>> \o HiLo(c.n)) \o Writing(c.id, c.n, wchunk)
    [] c.op = "I2CReadWrite" ->
         (IF c.w = 0 THEN <<>>
          ELSE Function("I2C_WRITE", <<Num(0), Num(IF c.r > 0 THEN 0 ELSE 1)>> \o HiLo(c.w))
               \o Writing(c.id, c.w, wchunk))
         \o (IF c.r = 0 THEN <<>> ELSE Function("I2C_READ", <<Num(0)>> \o HiLo(c.r)) \o Reading(c.r, <<>>))
    [] c.op = "I2CStart" -> <<Tell(<<Code("I2C_START")>>, <<Sym("S")>>)>>
    [] c.op = "I2CStop"  -> <<Tell(<<Code("I2C_STOP")>>, <<Sym("P")>>)>>
    [] c.op = "I2CReadByte"  -> Function("I2C_READBYTE", <<Num(IF c.ack = "ack" THEN 1 ELSE 0)>>) \o <<RecvBuffer(1)>>
    [] c.op = "I2CWriteByte" -> Function("I2C_WRITEBYTE", <<Data(c.id, 1)>>) \o <<RecvBuffer(1)>>
    [] c.op = "MWRead"   -> Function("MW_READ", <<Num(c.cs)>> \o HiLo(c.n)) \o Reading(c.n, EndIf(c.cs))
    [] c.op = "MWWrite"  ->
         Function("MW_WRITE", <<Num(c.cs), Num(c.bits)>> \o HiLo(ByteNum(c.bits)))
         \o Writing(c.id, ByteNum(c.bits), 32)
    [] c.op = "MWIsBusy" -> Function("MW_BUSY", <<>>) \o <<RecvBuffer(1)>>

IsJob(c) == c.op \notin {"none", "Open", "Close"}

(***************************************************************************)
(* What each call is to put on the wires of the chip, and which of these   *)
(* symbols the chip answers.                                               *)
(***************************************************************************)
Bytes(c, n) == [i \in 1..n |-> Byte(c.id, i)]
Times(n, s) == [i \in 1..n |-> Sym(s)]
From(k, n)  == [i \in 1..n |-> k + i - 1]

Symbols(c) ==
  CASE c.op = "SPIWrite" -> Bytes(c, c.n) \o EndIf(c.cs)
    [] c.op \in {"SPIRead", "MWRead"} -> Times(c.n, "read") \o EndIf(c.cs)
    [] c.op = "I2CReadWrite" ->
         (IF c.w > 0 THEN <<Sym("S"), Sym("W")>> \o Bytes(c, c.w) ELSE <<>>)
         \o (IF c.r > 0 THEN <<Sym("S"), Sym("R")>> \o Times(c.r - 1, "ack") \o <<Sym("nack")>> ELSE <<>>)
         \o <<Sym("P")>>
    [] c.op = "I2CStart" -> <<Sym("S")>>
    [] c.op = "I2CStop"  -> <<Sym("P")>>
    [] c.op = "I2CReadByte"  -> <<Sym(c.ack)>>
    [] c.op = "I2CWriteByte" -> <<Byte(c.id, 1)>>
    [] c.op = "MWWrite"  ->
         [i \in 1..ByteNum(c.bits) |-> [Byte(c.id, i) EXCEPT ![4] = AtMost(8, c.bits - 8 * (i - 1))]]
         \o EndIf(c.cs)
    [] c.op = "MWIsBusy" -> <<Sym("busy")>>

Places(c) ==
  CASE c.op \in {"SPIRead", "MWRead"} -> From(1, c.n)
    [] c.op = "I2CReadWrite" -> From(IF c.w > 0 THEN c.w + 5 ELSE 3, c.r)
    [] c.op \in {"I2CReadByte", "I2CWriteByte", "MWIsBusy"} -> <<1>>
    [] OTHER -> <<>>

\* Calls are told apart by their number, so that stale bytes show.
AllJobs == {[j EXCEPT !.id = k]: j \in UNION {JobsOf(b): b \in Buses}, k \in 1..MaxJobs}

-----------------------------------------------------------------------------
(***************************************************************************)
(* The sketch: a wait that has its bytes, or one that has timed out.       *)
(***************************************************************************)
Runs  == ~fw.pins.hung
Ready == Runs /\ Len(up) >= Wanted(fw)

Resumes(bytes, rest) ==
  /\ \E stray \in IF fw.at = "loop" /\ NoCode(bytes[1]) THEN StrayCodes ELSE {"NONE"}:
       LET r == Received(fw, bytes, stray)
       IN  /\ fw' = r.fw
           /\ down' = down \o r.out
  /\ up' = rest

Taken(n) == [i \in 1..n |-> up[i].byte]

Now(do) == host.todo # <<>> /\ Head(host.todo).do = do

\* The host has something to do that takes it no time.
Waits == Now("echo") \/ Now("recv")
Needs == IF Now("recv") THEN Head(host.todo).n ELSE 1
Due   == host.call # NoCall /\ ~(Waits /\ Len(down) < Needs)

WaitedForHeader == Runs /\ fw.at = "head" /\ Len(up) < Wanted(fw)
Waited == Runs /\ fw.at # "loop" /\ Len(up) < Wanted(fw)

\* A handler that gives up ends its frame, or clocks out what it did not get;
\* a byte taken for a command it is not may do anything.
GivesUp == fw.at \in {"data", "ack"}
Mistakes == fw.at = "loop" /\ NoCode(Head(up).byte)
Doomed(now, unnoticed) ==
  /\ port' = IF port # "open" \/ ~now THEN port ELSE IF unnoticed THEN "broken" ELSE "doomed"
  /\ base' = IF port' = port THEN base ELSE 0
  /\ answer' = IF port' = port THEN answer ELSE Failed

Serve ==
  /\ Ready
  /\ Resumes(Taken(Wanted(fw)), SubSeq(up, Wanted(fw) + 1, Len(up)))
  /\ Doomed(Mistakes, FALSE)
  /\ UNCHANGED <<bus, host, faults>>

ReadBytesTimeout ==
  /\ Waited
  /\ ~Due
  /\ Resumes(Taken(Len(up)), <<>>)
  /\ Doomed(GivesUp, FALSE)
  /\ UNCHANGED <<bus, host, faults>>

-----------------------------------------------------------------------------
(***************************************************************************)
(* The host.                                                               *)
(***************************************************************************)
Quiet == [entered |-> FALSE, inFrame |-> FALSE, made |-> 0, call |-> NoCall, todo |-> <<>>,
          got |-> <<>>, good |-> TRUE]

\* What the chip has seen once what was told to the sketch is done.
Wire == fw.pins.wire \o FlattenSeq([i \in 1..Len(up) |-> up[i].symbols])

Begin(c, todo, inFrame, good) ==
  /\ host.call = NoCall
  /\ host' = [host EXCEPT !.call = c, !.todo = todo, !.inFrame = inFrame, !.got = <<>>, !.good = good,
                          !.made = IF IsJob(c) THEN @ + 1 ELSE @]
  /\ answer' = Failed

Open ==
  /\ ~host.entered
  /\ bus' \in Buses
  /\ Begin([op |-> "Open"], SetUp(bus'), FALSE, TRUE)
  /\ port' = "closed"
  /\ UNCHANGED <<up, down, fw, base, faults>>

\* No session ends within a frame or an I2C transfer.
Close ==
  /\ host.entered
  /\ ~host.inFrame
  /\ Begin([op |-> "Close"], TearDown(bus), FALSE, port = "open")
  /\ port' = "broken"
  /\ base' = 0
  /\ UNCHANGED <<bus, up, down, fw, faults>>

\* A frame is what chip select or a start and a stop enclose.
LeavesOpen(c) ==
  \/ c.op \in {"SPIWrite", "SPIRead", "MWWrite", "MWRead"} /\ c.cs = 0
  \/ c.op \in {"I2CStart", "I2CWriteByte", "I2CReadByte"}

InOrder(j) ==
  /\ j.op \in {"MWRead", "I2CStop", "I2CWriteByte", "I2CReadByte"} => host.inFrame
  /\ j.op \in {"MWIsBusy", "I2CReadWrite", "I2CStart"} => ~host.inFrame

Make(j) ==
  /\ host.entered
  /\ host.made < MaxJobs
  /\ InOrder(j)
  /\ LET c == [j EXCEPT !.id = host.made + 1] IN Begin(c, Script(c), LeavesOpen(c), TRUE)
  /\ base' = IF port = "open" THEN Len(Wire) ELSE 0
  /\ UNCHANGED <<bus, up, down, fw, port, faults>>

(***************************************************************************)
(* The end of a call.  An operation on a memory looks at the result of     *)
(* DevOpen only, so the session is entered although SPIInit failed.        *)
(***************************************************************************)
ValueOf(b) == IF b[1] = "chip" THEN b[2] ELSE 0

Ends(good) ==
  LET op == host.call.op
  IN  /\ host' = [host EXCEPT !.call = NoCall, !.todo = <<>>, !.got = <<>>, !.good = TRUE,
                              !.entered = IF op = "Close" THEN FALSE ELSE TRUE]
      /\ port' = CASE op = "Open"  -> IF good /\ port = "closed" THEN "open" ELSE "broken"
                   [] op = "Close" -> IF good THEN "closed" ELSE "broken"
                   [] OTHER        -> IF good THEN port ELSE "broken"
      /\ base' = 0
      /\ answer' = IF good /\ IsJob(host.call)
                   THEN [ok |-> TRUE, data |-> [i \in DOMAIN host.got |-> ValueOf(host.got[i])]]
                   ELSE Failed

Return ==
  /\ host.call # NoCall /\ host.todo = <<>>
  /\ Ends(host.good)
  /\ UNCHANGED <<bus, up, down, fw, faults>>

Proceed(h) ==
  /\ host' = [h EXCEPT !.todo = Tail(@)]
  /\ port' = IF ~h.good /\ port = "open" THEN "doomed" ELSE port
  /\ base' = IF h.good THEN base ELSE 0
  /\ UNCHANGED answer

(***************************************************************************)
(* Connecting resets the board; the line is purged, and the program sleeps *)
(* until the bootloader has gone.                                          *)
(***************************************************************************)
ConnectPort ==
  /\ Now("connect")
  /\ up' = <<>> /\ down' = <<>> /\ fw' = PowerUp
  /\ Proceed(host)
  /\ UNCHANGED <<bus, faults>>

SendBytes ==
  /\ Now("send")
  /\ up' = up \o Head(host.todo).bytes
  /\ Proceed(host)
  /\ UNCHANGED <<bus, down, fw, faults>>

\* A byte of the chip may happen to be the code.
Accepts(b, code) == IF b[1] = "chip" THEN BOOLEAN ELSE {b = Code(code)}

RecvEcho ==
  /\ Now("echo")
  /\ down # <<>>
  /\ \E accepted \in Accepts(Head(down), Head(host.todo).code):
       IF accepted THEN Proceed(host) ELSE Ends(FALSE)
  /\ down' = Tail(down)
  /\ UNCHANGED <<bus, up, fw, faults>>

RecvBytes ==
  /\ Now("recv")
  /\ Len(down) >= Needs
  /\ Proceed([host EXCEPT !.got = @ \o SubSeq(down, 1, Needs)])
  /\ down' = SubSeq(down, Needs + 1, Len(down))
  /\ UNCHANGED <<bus, up, fw, faults>>

(***************************************************************************)
(* Two seconds outlast the one of the sketch, which has gone back to its   *)
(* loop by then.  A call that got less than it waited for goes on.         *)
(***************************************************************************)
RecvEnds ==
  /\ IF Now("echo") THEN Ends(FALSE) ELSE Proceed([host EXCEPT !.got = @ \o down, !.good = FALSE])
  /\ down' = IF Now("echo") THEN down ELSE <<>>
  /\ UNCHANGED <<bus, up, fw, faults>>

RecvTimeoutData == Now("recv") /\ Len(down) < Needs /\ ~Ready /\ ~Waited /\ RecvEnds

RecvTimeout ==
  /\ Waits
  /\ Len(down) < Needs
  /\ ~Ready /\ ~Waited
  /\ RecvEnds

-----------------------------------------------------------------------------
(***************************************************************************)
(* Faults.  Where the call cannot notice what happened the session is      *)
(* given up here: the loss of data to be written (the sketch acknowledges  *)
(* what it clocks out, not what it got), of a command that has no answer,  *)
(* or of the ACK of the last chunk, and that ACK coming late.              *)
(***************************************************************************)
Fault == faults < MaxFaults /\ faults' = faults + 1

LoseUp ==
  /\ Fault
  /\ \E i \in 1..Len(up):
       /\ up' = RemoveAt(up, i)
       /\ Doomed(up[i].unanswered, TRUE)
  /\ UNCHANGED <<bus, host, down, fw>>

LoseDown ==
  /\ Fault
  /\ \E i \in 1..Len(down): down' = RemoveAt(down, i)
  /\ UNCHANGED <<bus, host, up, fw, port, base, answer>>

Late ==
  /\ Fault
  /\ Waited
  /\ Due
  /\ Resumes(Taken(Len(up)), <<>>)
  /\ Doomed(GivesUp, fw.at = "ack" /\ fw.left = 0)
  /\ UNCHANGED <<bus, host>>

\* The port cannot be opened: DevOpen says so.
Refused ==
  /\ Fault
  /\ Now("connect")
  /\ host' = [host EXCEPT !.call = NoCall, !.todo = <<>>]
  /\ port' = "broken" /\ base' = 0 /\ answer' = Failed
  /\ UNCHANGED <<bus, up, down, fw>>

\* The program ends, and with it the session and the call under way.
Killed ==
  /\ Fault
  /\ host.entered \/ host.call # NoCall
  /\ host' = [Quiet EXCEPT !.made = host.made]
  /\ port' = "broken" /\ base' = 0 /\ answer' = Failed
  /\ UNCHANGED <<bus, up, down, fw>>

BoardReset ==
  /\ Fault
  /\ up' = <<>> /\ fw' = PowerUp
  /\ port' = "broken" /\ base' = 0 /\ answer' = Failed
  /\ UNCHANGED <<bus, host, down>>

-----------------------------------------------------------------------------
Init ==
  /\ bus \in Buses
  /\ host = Quiet
  /\ up = <<>> /\ down = <<>> /\ fw = PowerUp
  /\ port = "closed"
  /\ base = 0
  /\ answer = Failed
  /\ faults = 0

Line == Serve \/ ReadBytesTimeout
Program == ConnectPort \/ SendBytes \/ RecvEcho \/ RecvBytes \/ RecvTimeout \/ Return

Next ==
  \/ Open \/ Close
  \/ \E j \in JobsOf(bus): Make(j)
  \/ Program \/ Line
  \/ LoseUp \/ LoseDown \/ Late \/ Refused \/ Killed \/ BoardReset

Spec == Init /\ [][Next]_vars

(***************************************************************************)
(* The program and the sketch run on, and their timers expire; the user    *)
(* and the faults owe nothing.                                             *)
(***************************************************************************)
FairSpec == Spec /\ WF_vars(Program) /\ WF_vars(Line)

-----------------------------------------------------------------------------
(***************************************************************************)
(* The calls implement the port of ProgrammerPort: within a good session,  *)
(* and until a call fails, a call that reports success has put its symbols *)
(* on the wires once and in order, or what it told the sketch will do so   *)
(* before anything else is done, and brings what the chip said there.      *)
(***************************************************************************)
Port ==
  INSTANCE ProgrammerPort WITH
    Jobs    <- AllJobs,
    NoJob   <- NoCall,
    session <- IF port = "doomed" THEN "broken" ELSE port,
    call    <- IF port = "open" /\ IsJob(host.call) THEN host.call ELSE NoCall,
    wire    <- IF port = "open" THEN Wire ELSE <<>>,
    answer  <- IF port = "open" THEN answer ELSE Failed

ImplementsPort == Port!Spec

(***************************************************************************)
(* Every variable has its type, and a handler's counters are those of the  *)
(* command it is about.                                                    *)
(***************************************************************************)
TypeOK ==
  /\ bus \in Buses
  /\ port \in {"closed", "open", "broken", "doomed"}
  /\ host.made \in 0..MaxJobs /\ faults \in 0..MaxFaults
  /\ host.todo # <<>> => host.call # NoCall
  /\ fw.at \in {"loop", "head", "data", "ack"}
  /\ fw.at = "head" => fw.cmd \in DOMAIN HeadLen
  /\ fw.left \in Nat /\ fw.bits \in Nat
  /\ Runs => Wanted(fw) \in Nat \ {0}

(***************************************************************************)
(* Between the calls of a good session the line is clean and both ends     *)
(* agree: no byte is left for the host to take for an echo, and the sketch *)
(* is in its loop, or about to be when it has taken what it was told.      *)
(***************************************************************************)
LineClean ==
  port = "open" /\ host.call = NoCall =>
    /\ down = <<>>
    /\ \A i \in 1..Len(up): up[i].unanswered
    /\ fw.at = "loop" \/ (fw.at = "ack" /\ fw.left = 0 /\ Len(up) > 0)

(***************************************************************************)
(* When the sketch has given up in the middle of a call, at a chunk or an  *)
(* acknowledge that did not come, the call fails: no bytes that happen to  *)
(* be on the line make up for it.                                          *)
(***************************************************************************)
DoomedCallsFail == port = "doomed" => IsJob(host.call)

(***************************************************************************)
(* Whatever was lost, a call comes back: neither end waits for the other   *)
(* for ever, not even for a sketch that hangs.                             *)
(***************************************************************************)
CallsFinish == (host.call # NoCall) ~> (host.call = NoCall)

(***************************************************************************)
(* Whatever was lost or came too late, the sketch finds its way back to    *)
(* the loop, unless it hangs in the SPI library, which it does only after  *)
(* a fault.                                                                *)
(***************************************************************************)
BackInLoop == (fw.at # "loop") ~> (fw.at = "loop" \/ (fw.pins.hung /\ port # "open"))
=============================================================================
