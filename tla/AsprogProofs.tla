---------------------------- MODULE AsprogProofs ----------------------------
(***************************************************************************)
(* What is proved of Asprog for every chunk size, menu of calls, meaning   *)
(* of a stray byte and number of faults: its type invariant, by which the  *)
(* sketch never waits for no byte at all and its counters never go below   *)
(* zero; and that between the calls of a good session the line is clean.   *)
(***************************************************************************)
EXTENDS Asprog, SequenceTheorems, TLAPS

-----------------------------------------------------------------------------
(***************************************************************************)
(* The inductive invariant.  What the sketch has done to the pins does not *)
(* matter here, except that it may hang.                                   *)
(***************************************************************************)
Codes ==
  {"SPI_INIT", "SPI_DEINIT", "SPI_READ", "SPI_WRITE",
   "I2C_INIT", "I2C_START", "I2C_STOP", "I2C_READBYTE", "I2C_WRITEBYTE", "I2C_READ", "I2C_WRITE",
   "MW_INIT", "MW_DEINIT", "MW_READ", "MW_WRITE", "MW_BUSY", "ACK"}

AnyByte  == (Codes \cup {"num", "data"}) \X Nat \X Nat
AnySym   == {"S", "P", "end"} \X {0} \X {0} \X {0}
LineByte == [byte: AnyByte, unanswered: BOOLEAN, symbols: Seq(AnySym)]

Step ==
  [do: {"connect"}] \cup [do: {"send"}, bytes: Seq(LineByte)]
  \cup [do: {"echo"}, code: Codes] \cup [do: {"recv"}, n: Nat]

HostFields == {"entered", "inFrame", "made", "call", "todo", "got", "good"}

HostOK(h) ==
  /\ DOMAIN h = HostFields
  /\ h.made \in 0..MaxJobs
  /\ h.todo \in Seq(Step)
  /\ h.todo # <<>> => h.call # NoCall

FwFields == {"at", "cmd", "cs", "left", "bits", "pins"}

\* The counters of a handler, wherever it is.
Counting(f) == DOMAIN f = FwFields /\ f.left \in Nat /\ f.bits \in Nat

\* A handler that writes waits for bytes it has still to write.
FwOK(f) ==
  /\ Counting(f)
  /\ f.at \in {"loop", "head", "data", "ack"}
  /\ f.at = "head" => f.cmd \in DOMAIN HeadLen
  /\ f.at = "data" /\ ~f.pins.hung => f.left > 0

Ports == {"closed", "open", "broken", "doomed"}

IInv ==
  /\ bus \in Buses /\ port \in Ports /\ faults \in 0..MaxFaults
  /\ HostOK(host) /\ FwOK(fw) /\ up \in Seq(LineByte)

-----------------------------------------------------------------------------
(***************************************************************************)
(* The sketch.                                                             *)
(***************************************************************************)
\* A handler that is over leaves no counter behind.
LEMMA LoopingOK == \A p : FwOK(Looping(p))
BY DEF Looping, PowerUp, FwOK, Counting, FwFields

\* The smaller of two numbers.
LEMMA AtMostLeast ==
  ASSUME NEW k \in Nat, NEW n \in Nat
  PROVE  AtMost(k, n) \in Nat /\ AtMost(k, n) <= n /\ AtMost(k, n) <= k
BY DEF AtMost

\* A chunk read is taken off the counter, and the sketch waits for its ACK.
LEMMA ReadChunkOK ==
  ASSUME NEW f, Counting(f)
  PROVE  FwOK(ReadChunk(f).fw)
<1> DEFINE n == AtMost(rchunk, f.left)
           StepOf(p, i) == ReadByte(f.cmd, p, i = f.left)
           after == After(f.pins, n, StepOf)
           g == [On(f, after[n]) EXCEPT !.left = @ - n, !.at = "ack"]
<1>1. n \in Nat /\ n <= f.left
  BY AtMostLeast, ChunkAssumption DEF Counting
<1>2. ReadChunk(f).fw = IF n = 0 THEN Finished(f) ELSE g
  BY DEF ReadChunk, Goes
<1>3. FwOK(Finished(f))
  BY LoopingOK DEF Finished
<1> HIDE DEF after
<1>4. FwOK(g)
  <2> HIDE DEF n
  <2> QED
    BY <1>1 DEF FwOK, Counting, FwFields, On
<1> QED
  BY <1>2, <1>3, <1>4

\* What is taken for a number is one.
LEMMA NumOfNat ==
  ASSUME NEW b \in AnyByte
  PROVE  NumOf(b) \in Nat
BY DEF AnyByte, NumOf

\* A data chunk is never longer than what is left.
LEMMA ChunkToComeOK ==
  ASSUME NEW f, Counting(f)
  PROVE  ChunkToCome(f) \in Nat /\ ChunkToCome(f) <= f.left /\ (f.left > 0 => ChunkToCome(f) > 0)
BY ChunkAssumption DEF ChunkToCome, AtMost, Counting

\* The bytes that came are taken off the counter; the bits stop at zero.
LEMMA WrittenOK ==
  ASSUME NEW f, Counting(f), f.left > 0, NEW bytes \in Seq(AnyByte), Len(bytes) <= ChunkToCome(f)
  PROVE  FwOK(Written(f, bytes).fw)
<1> DEFINE n == ChunkToCome(f)
           StepOf(p, i) == WriteByte(f, p, i, IF i <= Len(bytes) THEN OnWire(bytes[i]) ELSE Stale)
           m == Clocked(f, n)
           q == After(f.pins, m, StepOf)[m]
           g == [On(f, q) EXCEPT !.left = @ - Len(bytes), !.bits = BitsLeft(@, n), !.at = "data"]
<1>1. n \in Nat /\ Len(bytes) \in Nat /\ Len(bytes) <= f.left
  BY ChunkToComeOK, LenProperties DEF Counting
<1>2. Written(f, bytes) = IF g.pins.hung THEN Goes(g, <<>>) ELSE Answered(g, bytes)
  BY DEF Written
<1> HIDE DEF q, n
<1>3. Counting(g) /\ g.at = "data"
  <2>1. BitsLeft(f.bits, n) \in Nat
    BY <1>1 DEF BitsLeft, Counting
  <2> QED
    BY <1>1, <2>1 DEF Counting, FwFields, On
<1> HIDE DEF g
<1>4. CASE g.pins.hung
  <2>1. Written(f, bytes).fw = g
    BY <1>2, <1>4 DEF Goes
  <2> QED
    BY <2>1, <1>3, <1>4 DEF FwOK
<1>5. CASE ~g.pins.hung
  <2>1. Written(f, bytes).fw \in {BrokenOff(g), Finished(g)} \/ (Written(f, bytes).fw = g /\ g.left # 0)
    BY <1>2, <1>5 DEF Answered, Goes
  <2>2. FwOK(BrokenOff(g)) /\ FwOK(Finished(g))
    BY LoopingOK DEF BrokenOff, Finished
  <2>3. g.left # 0 => FwOK(g)
    BY <1>3 DEF FwOK, Counting
  <2> QED
    BY <2>1, <2>2, <2>3
<1> QED
  BY <1>4, <1>5

\* The length in a header is a number.
LEMMA TransferOK ==
  ASSUME NEW f, Counting(f), NEW p, NEW cs, NEW hi \in AnyByte, NEW lo \in AnyByte, NEW bits \in Nat
  PROVE  FwOK(Transfer(f, p, cs, hi, lo, bits).fw)
<1> DEFINE n == Length(hi, lo)
           g == [On(f, p) EXCEPT !.cs = cs, !.left = n, !.bits = bits, !.at = "data"]
<1>1. n \in Nat
  BY NumOfNat DEF Length
<1>2. Transfer(f, p, cs, hi, lo, bits).fw =
        IF f.cmd \in {"SPI_READ", "I2C_READ", "MW_READ"} THEN ReadChunk(g).fw
        ELSE IF g.left = 0 THEN Finished(g) ELSE g
  <2> DEFINE r == IF f.cmd \in {"SPI_READ", "I2C_READ", "MW_READ"} THEN ReadChunk(g)
                  ELSE Goes(IF g.left = 0 THEN Finished(g) ELSE g, <<>>)
  <2>1. Transfer(f, p, cs, hi, lo, bits) = [r EXCEPT !.out = <<Code(f.cmd)>> \o @]
    BY DEF Transfer
  <2>2. DOMAIN r = {"fw", "out"}
    BY DEF ReadChunk, Goes
  <2>3. Transfer(f, p, cs, hi, lo, bits).fw = r.fw
    <3> HIDE DEF r
    <3> QED
      BY <2>1, <2>2
  <2> QED
    BY <2>3 DEF Goes
<1> HIDE DEF n
<1>3. Counting(g) /\ g.at = "data"
  BY <1>1 DEF Counting, FwFields, On
<1> HIDE DEF g
<1>4. FwOK(ReadChunk(g).fw) /\ FwOK(Finished(g))
  BY <1>3, ReadChunkOK, LoopingOK DEF Finished
<1>5. g.left # 0 => FwOK(g)
  BY <1>3 DEF FwOK, Counting
<1> QED
  BY <1>2, <1>4, <1>5

\* The rest of a header, whole or not.
LEMMA HeadedOK ==
  ASSUME NEW f, FwOK(f), f.at = "head", NEW b \in Seq(AnyByte)
  PROVE  FwOK(Headed(f, b).fw)
<1>1. Counting(f) /\ f.cmd \in DOMAIN HeadLen
  BY DEF FwOK
<1>2. ASSUME NEW p, NEW out PROVE FwOK(Reply(p, out).fw)
  BY LoopingOK DEF Reply, Goes
<1>3. CASE Len(b) < HeadLen[f.cmd]
  BY <1>2, <1>3 DEF Headed
<1>4. CASE ~(Len(b) < HeadLen[f.cmd])
  <2>1. Len(b) \in Nat /\ \A i \in 1..Len(b) : b[i] \in AnyByte
    BY LenProperties, ElementOfSeq
  <2>2. CASE f.cmd \in {"SPI_INIT", "I2C_WRITEBYTE", "I2C_READBYTE"}
    <3>1. CASE f.cmd = "SPI_INIT"
      BY <1>2, <1>4, <3>1 DEF Headed
    <3>2. CASE f.cmd = "I2C_WRITEBYTE"
      BY <1>2, <1>4, <3>2 DEF Headed, OneByte
    <3>3. CASE f.cmd = "I2C_READBYTE"
      BY <1>2, <1>4, <3>3 DEF Headed, OneByte
    <3> QED
      BY <2>2, <3>1, <3>2, <3>3
  <2>3. CASE f.cmd \in {"SPI_READ", "SPI_WRITE", "I2C_READ", "MW_READ"}
    <3>1. Len(b) >= 3
      BY <1>4, <2>1, <2>3 DEF HeadLen
    <3>2. b[2] \in AnyByte /\ b[3] \in AnyByte
      BY <2>1, <3>1
    <3>3. \E p, cs : Headed(f, b) = Transfer(f, p, cs, b[2], b[3], 0)
      <4>1. CASE f.cmd \in {"SPI_READ", "SPI_WRITE"}
        BY <1>4, <4>1 DEF Headed
      <4>2. CASE f.cmd = "I2C_READ"
        BY <1>4, <4>2 DEF Headed
      <4>3. CASE f.cmd = "MW_READ"
        BY <1>4, <4>3 DEF Headed
      <4> QED
        BY <2>3, <4>1, <4>2, <4>3
    <3> QED
      BY <1>1, <3>2, <3>3, TransferOK
  <2>4. CASE f.cmd \in {"I2C_WRITE", "MW_WRITE"}
    <3>1. Len(b) >= 4
      BY <1>4, <2>1, <2>4 DEF HeadLen
    <3>2. b[2] \in AnyByte /\ b[3] \in AnyByte /\ b[4] \in AnyByte /\ NumOf(b[2]) \in Nat
      BY <2>1, <3>1, NumOfNat
    <3>3. CASE f.cmd = "I2C_WRITE"
      <4>1. \E p, cs : Headed(f, b) = Transfer(f, p, cs, b[3], b[4], 0)
        BY <1>4, <3>3 DEF Headed
      <4> QED
        BY <1>1, <3>2, <4>1, TransferOK
    <3>4. CASE f.cmd = "MW_WRITE"
      <4>1. \E p, cs : Headed(f, b) = Transfer(f, p, cs, b[3], b[4], NumOf(b[2]))
        BY <1>4, <3>4 DEF Headed
      <4> QED
        BY <1>1, <3>2, <4>1, TransferOK
    <3> QED
      BY <2>4, <3>3, <3>4
  <2>5. f.cmd \in {"SPI_INIT", "SPI_READ", "SPI_WRITE", "I2C_WRITEBYTE", "I2C_READBYTE", "I2C_READ",
                   "I2C_WRITE", "MW_READ", "MW_WRITE"}
    BY <1>1 DEF HeadLen
  <2> QED
    BY <2>2, <2>3, <2>4, <2>5
<1> QED
  BY <1>3, <1>4

\* The sketch takes bytes it waited for, or those it had when it gave up.
LEMMA ReceivedOK ==
  ASSUME NEW f, FwOK(f), ~f.pins.hung, NEW bytes \in Seq(AnyByte), Len(bytes) <= Wanted(f), NEW stray
  PROVE  FwOK(Received(f, bytes, stray).fw)
<1>1. CASE f.at = "loop"
  <2>1. ASSUME NEW cmd PROVE FwOK(ParseCommand(f, cmd).fw)
    <3>1. CASE cmd \in DOMAIN HeadLen
      <4>1. ParseCommand(f, cmd).fw = [f EXCEPT !.at = "head", !.cmd = cmd]
        BY <3>1 DEF ParseCommand, Goes, HeadLen
      <4> QED
        BY <3>1, <4>1 DEF FwOK, Counting, FwFields
    <3>2. CASE cmd \notin DOMAIN HeadLen
      <4>1. \E p, out : ParseCommand(f, cmd) = Reply(p, out)
        BY <3>2 DEF ParseCommand, OneByte
      <4> QED
        BY <4>1, LoopingOK DEF Reply, Goes
    <3> QED
      BY <3>1, <3>2
  <2> QED
    BY <1>1, <2>1 DEF Received
<1>2. CASE f.at = "head"
  BY <1>2, HeadedOK DEF Received
<1>3. CASE f.at = "data"
  <2>1. Len(bytes) <= ChunkToCome(f) /\ Counting(f) /\ f.left > 0
    BY <1>3 DEF Wanted, FwOK
  <2> QED
    BY <1>3, <2>1, WrittenOK DEF Received
<1>4. CASE f.at = "ack"
  <2>1. Received(f, bytes, stray).fw \in {ReadChunk(f).fw, BrokenOff(f)}
    BY <1>4 DEF Received, Acknowledged, Goes
  <2> QED
    BY <2>1, ReadChunkOK, LoopingOK DEF FwOK, BrokenOff
<1> QED
  BY <1>1, <1>2, <1>3, <1>4 DEF FwOK

\* While it runs, the sketch waits for at least one byte.
LEMMA WantedOK ==
  ASSUME NEW f, FwOK(f), ~f.pins.hung
  PROVE  Wanted(f) \in Nat \ {0}
<1>1. f.at = "head" => HeadLen[f.cmd] \in 1..4
  BY DEF FwOK, HeadLen
<1>2. f.at = "data" => ChunkToCome(f) \in Nat /\ ChunkToCome(f) > 0
  BY ChunkToComeOK DEF FwOK
<1> QED
  BY <1>1, <1>2 DEF Wanted, FwOK

-----------------------------------------------------------------------------
(***************************************************************************)
(* The calls.                                                              *)
(***************************************************************************)
\* A function over 1..n is a sequence.
LEMMA TableOK ==
  ASSUME NEW S, NEW n \in Nat, NEW s, s \in [1..n -> S]
  PROVE  s \in Seq(S) /\ Len(s) = n
<1>1. s \in Seq(S)
  BY SeqDef
<1> QED
  BY <1>1, LenProperties

\* The bytes of the line.
LEMMA BytesOK ==
  /\ \A name \in Codes : Code(name) \in AnyByte
  /\ \A n \in Nat : Num(n) \in AnyByte
  /\ \A id \in Nat, i \in Nat : Data(id, i) \in AnyByte
BY DEF Code, Num, Data, AnyByte, Codes

\* Sequences of one and of two elements.
LEMMA ShortOK ==
  ASSUME NEW S, NEW a \in S, NEW b \in S
  PROVE  <<a>> \in Seq(S) /\ <<a, b>> \in Seq(S)
<1>1. <<a>> \in [1..1 -> S] /\ <<a, b>> \in [1..2 -> S]
  OBVIOUS
<1> QED
  BY <1>1, TableOK

\* What is sent.
LEMMA SendOK ==
  ASSUME NEW bytes \in Seq(AnyByte), NEW symbols \in Seq(AnySym)
  PROVE  Send(bytes) \in Step /\ Tell(bytes, symbols) \in Step
<1>1. Len(bytes) \in Nat /\ DOMAIN bytes = 1..Len(bytes) /\ \A i \in 1..Len(bytes) : bytes[i] \in AnyByte
  BY LenProperties, ElementOfSeq
<1>2. Send(bytes).bytes \in Seq(LineByte)
  <2>1. <<>> \in Seq(AnySym)
    OBVIOUS
  <2>2. Send(bytes).bytes \in [1..Len(bytes) -> LineByte]
    BY <1>1, <2>1 DEF Send, LineByte
  <2> QED
    BY <1>1, <2>2, TableOK
<1>3. Tell(bytes, symbols).bytes \in Seq(LineByte)
  <2>2. Tell(bytes, symbols).bytes \in [1..Len(bytes) -> LineByte]
    BY <1>1 DEF Tell, LineByte
  <2> QED
    BY <1>1, <2>2, TableOK
<1>4. /\ Send(bytes) = [do |-> "send", bytes |-> Send(bytes).bytes]
      /\ Tell(bytes, symbols) = [do |-> "send", bytes |-> Tell(bytes, symbols).bytes]
  BY DEF Send, Tell
<1> HIDE DEF Send, Tell
<1> QED
  BY <1>2, <1>3, <1>4 DEF Step

\* What is waited for.
LEMMA WaitOK ==
  /\ \A code \in Codes : Echo(code) \in Step
  /\ \A n \in Nat : RecvBuffer(n) \in Step
  /\ Connect \in Step
BY DEF Echo, RecvBuffer, Connect, Step

\* A function of the sketch, with its echo.
LEMMA FunctionOK ==
  ASSUME NEW code \in Codes, NEW arguments \in Seq(AnyByte)
  PROVE  Function(code, arguments) \in Seq(Step)
<1>1. <<Code(code)>> \in Seq(AnyByte)
  BY BytesOK, ShortOK
<1>2. <<Code(code)>> \o arguments \in Seq(AnyByte)
  BY <1>1, ConcatProperties
<1>3. <<>> \in Seq(AnySym)
  BY EmptySeq
<1>4. Send(<<Code(code)>> \o arguments) \in Step /\ Echo(code) \in Step
  BY <1>2, <1>3, SendOK, WaitOK
<1>5. Function(code, arguments) = <<Send(<<Code(code)>> \o arguments), Echo(code)>>
  BY DEF Function
<1> QED
  BY <1>4, <1>5, ShortOK

\* Halves of what is counted in pairs.
LEMMA HalfOK ==
  ASSUME NEW m \in Nat, NEW k \in 1..2 * m
  PROVE  IF k % 2 = 1 THEN (k + 1) \div 2 \in 1..m ELSE k \div 2 \in 1..m
OBVIOUS

\* The number and the size of chunks.
LEMMA ChunksOK ==
  ASSUME NEW n \in Nat, NEW size \in Nat \ {0}
  PROVE  /\ ChunksIn(n, size) \in Nat
         /\ \A k \in 1..ChunksIn(n, size) : (k - 1) * size \in Nat /\ (k - 1) * size <= n
                                            /\ Chunk(n, size, k) \in Nat
<1> DEFINE m == ChunksIn(n, size)
<1>1. m \in Nat /\ m * size <= n + size - 1
  <2>1. n + size - 1 \in Nat
    OBVIOUS
  <2> QED
    BY <2>1, SMTT(30) DEF ChunksIn
<1> HIDE DEF m
<1>2. ASSUME NEW k \in 1..m
      PROVE  (k - 1) * size \in Nat /\ (k - 1) * size <= n
  <2>1. k * size <= m * size /\ (k - 1) * size = k * size - size /\ (k - 1) * size \in Nat
    BY <1>1
  <2> QED
    BY <1>1, <2>1
<1>3. ASSUME NEW k \in 1..m PROVE Chunk(n, size, k) \in Nat
  <2> DEFINE d == (k - 1) * size
  <2>1. d \in Nat /\ d <= n
    BY <1>2
  <2>2. Chunk(n, size, k) = AtMost(size, n - d)
    BY DEF Chunk
  <2> HIDE DEF d
  <2> QED
    BY <2>1, <2>2 DEF AtMost
<1> QED
  BY <1>1, <1>2, <1>3 DEF m

\* The data of a write.
LEMMA WritingOK ==
  ASSUME NEW id \in Nat, NEW n \in Nat, NEW size \in Nat \ {0}
  PROVE  Writing(id, n, size) \in Seq(Step)
<1> DEFINE m == ChunksIn(n, size)
           Sent(k) == Tell([i \in 1..Chunk(n, size, k) |-> Data(id, (k - 1) * size + i)], <<>>)
<1>1. m \in Nat
  BY ChunksOK
<1>2. ASSUME NEW k \in 1..m PROVE Sent(k) \in Step
  <2> DEFINE c == Chunk(n, size, k)
             d == (k - 1) * size
             bytes == [i \in 1..c |-> Data(id, d + i)]
  <2>1. c \in Nat /\ d \in Nat
    BY ChunksOK
  <2> HIDE DEF c, d
  <2>2. \A i \in 1..c : d + i \in Nat
    BY <2>1
  <2>3. bytes \in [1..c -> AnyByte]
    BY <2>2, BytesOK
  <2>4. bytes \in Seq(AnyByte) /\ <<>> \in Seq(AnySym)
    BY <2>1, <2>3, TableOK, EmptySeq
  <2>5. Tell(bytes, <<>>) \in Step
    BY <2>4, SendOK
  <2> QED
    BY <2>5 DEF c, d
<1>3. Echo("ACK") \in Step
  BY WaitOK DEF Codes
<1>4. Writing(id, n, size) = [k \in 1..2 * m |-> IF k % 2 = 1 THEN Sent((k + 1) \div 2) ELSE Echo("ACK")]
  BY DEF Writing, Alternately
<1> HIDE DEF m, Sent
<1>5. Writing(id, n, size) \in [1..2 * m -> Step]
  <2>1. ASSUME NEW k \in 1..2 * m, k % 2 = 1 PROVE Sent((k + 1) \div 2) \in Step
    BY <1>1, <1>2, <2>1, HalfOK
  <2> QED
    BY <1>3, <1>4, <2>1
<1> QED
  BY <1>1, <1>5, TableOK

\* The data of a read.
LEMMA ReadingOK ==
  ASSUME NEW n \in Nat, NEW ending \in Seq(AnySym)
  PROVE  Reading(n, ending) \in Seq(Step)
<1> DEFINE m == ChunksIn(n, rchunk)
           Fetched(k) == RecvBuffer(Chunk(n, rchunk, k))
           Acked(k)   == IF k < m THEN Send(<<Code("ACK")>>) ELSE Tell(<<Code("ACK")>>, ending)
<1>1. m \in Nat
  BY ChunksOK, ChunkAssumption
<1>2. ASSUME NEW k \in 1..m PROVE Fetched(k) \in Step
  BY ChunksOK, ChunkAssumption, WaitOK
<1>3. ASSUME NEW k \in 1..m PROVE Acked(k) \in Step
  <2>1. <<Code("ACK")>> \in Seq(AnyByte)
    BY BytesOK, ShortOK DEF Codes
  <2>2. Send(<<Code("ACK")>>) \in Step /\ Tell(<<Code("ACK")>>, ending) \in Step
    BY <2>1, SendOK
  <2> QED
    BY <2>2
<1>4. Reading(n, ending) =
        [k \in 1..2 * m |-> IF k % 2 = 1 THEN Fetched((k + 1) \div 2) ELSE Acked(k \div 2)]
  BY DEF Reading, Alternately
<1> HIDE DEF m, Fetched, Acked
<1>5. Reading(n, ending) \in [1..2 * m -> Step]
  <2>1. ASSUME NEW k \in 1..2 * m, k % 2 = 1 PROVE Fetched((k + 1) \div 2) \in Step
    BY <1>1, <1>2, <2>1, HalfOK
  <2>2. ASSUME NEW k \in 1..2 * m, k % 2 # 1 PROVE Acked(k \div 2) \in Step
    BY <1>1, <1>3, <2>2, HalfOK
  <2> QED
    BY <1>4, <2>1, <2>2
<1> QED
  BY <1>1, <1>5, TableOK

\* A length as two bytes.
LEMMA HiLoOK ==
  ASSUME NEW n \in Nat
  PROVE  HiLo(n) \in Seq(AnyByte)
<1>1. n \div 256 \in Nat /\ n % 256 \in Nat
  OBVIOUS
<1> QED
  BY <1>1, BytesOK, ShortOK DEF HiLo

\* The arguments of a function that moves data.
LEMMA ArgumentsOK ==
  ASSUME NEW a \in Nat, NEW b \in Nat, NEW n \in Nat
  PROVE  /\ <<Num(a)>> \in Seq(AnyByte)
         /\ <<Num(a)>> \o HiLo(n) \in Seq(AnyByte)
         /\ <<Num(a), Num(b)>> \o HiLo(n) \in Seq(AnyByte)
<1>1. <<Num(a)>> \in Seq(AnyByte) /\ <<Num(a), Num(b)>> \in Seq(AnyByte)
  BY BytesOK, ShortOK
<1> QED
  BY <1>1, HiLoOK, ConcatProperties

\* Lengths are numbers.
LEMMA WordNat == \A n \in Word : n \in Nat
BY DEF Word

\* What a call on a 25-series part carries.
LEMMA SpiJob ==
  ASSUME NEW c \in JobType("spi")
  PROVE  c.op \in {"SPIRead", "SPIWrite"} /\ c.cs \in Nat /\ c.n \in Nat /\ c.id \in Nat
<1> DEFINE S == [op: {"SPIRead", "SPIWrite"}, cs: {0, 1}, n: Word, id: Nat]
<1>1. JobType("spi") = S
  BY Zenon DEF JobType
<1>2. c \in S
  BY <1>1, Zenon
<1> QED
  BY <1>2, WordNat

\* What a call on an I2C part carries.
LEMMA I2CJob ==
  ASSUME NEW c \in JobType("i2c")
  PROVE  /\ c.op \in {"I2CReadWrite", "I2CStart", "I2CStop", "I2CWriteByte", "I2CReadByte"}
         /\ c.id \in Nat
         /\ c.op = "I2CReadWrite" => c.w \in Nat /\ c.r \in Nat
<1> DEFINE S == [op: {"I2CReadWrite"}, w: Word, r: Word, id: Nat]
           T == [op: {"I2CStart", "I2CStop", "I2CWriteByte"}, id: Nat]
           U == [op: {"I2CReadByte"}, ack: {"ack", "nack"}, id: Nat]
<1>1. JobType("i2c") = S \cup T \cup U
  BY Zenon DEF JobType
<1> HIDE DEF S, T, U
<1>2. c \in S \/ c \in T \/ c \in U
  BY <1>1, Zenon
<1>3. CASE c \in S
  BY <1>3, WordNat DEF S
<1>4. CASE c \in T
  BY <1>4 DEF T
<1>5. CASE c \in U
  BY <1>5 DEF U
<1> QED
  BY <1>2, <1>3, <1>4, <1>5

\* What a call on a Microwire part carries.
LEMMA MWJob ==
  ASSUME NEW c \in JobType("mw")
  PROVE  /\ c.op \in {"MWWrite", "MWRead", "MWIsBusy"}
         /\ c.id \in Nat
         /\ c.op = "MWWrite" => c.cs \in Nat /\ c.bits \in Nat /\ c.bits < 256
         /\ c.op = "MWRead" => c.cs \in Nat /\ c.n \in Nat
<1> DEFINE S == [op: {"MWWrite"}, cs: {0, 1}, bits: Bits, id: Nat]
           T == [op: {"MWRead"}, cs: {0, 1}, n: Word, id: Nat]
           U == [op: {"MWIsBusy"}, id: Nat]
<1>1. JobType("mw") = S \cup T \cup U
  BY Zenon DEF JobType
<1> HIDE DEF S, T, U
<1>2. c \in S \/ c \in T \/ c \in U
  BY <1>1, Zenon
<1>3. CASE c \in S
  <2>1. \A k \in Bits : k \in Nat /\ k < 256
    BY DEF Bits
  <2> QED
    BY <1>3, <2>1 DEF S
<1>4. CASE c \in T
  BY <1>4, WordNat DEF T
<1>5. CASE c \in U
  BY <1>5 DEF U
<1> QED
  BY <1>2, <1>3, <1>4, <1>5

\* A call with its number is still one.
LEMMA RenumberOK ==
  ASSUME NEW b \in {"spi", "i2c", "mw"}, NEW j \in JobType(b), NEW k \in Nat
  PROVE  /\ [j EXCEPT !.id = k] \in JobType(b)
         /\ [j EXCEPT !.id = k].op = j.op /\ j.op # "none"
<1> DEFINE c == [j EXCEPT !.id = k]
<1>1. CASE b = "spi"
  <2> DEFINE S == [op: {"SPIRead", "SPIWrite"}, cs: {0, 1}, n: Word, id: Nat]
  <2>1. JobType("spi") = S
    BY Zenon DEF JobType
  <2>2. j \in S
    BY <1>1, <2>1, Zenon
  <2>3. c \in S /\ c.op = j.op /\ j.op # "none"
    BY <2>2
  <2> QED
    BY <1>1, <2>1, <2>3, Zenon
<1>2. CASE b = "i2c"
  <2> DEFINE S == [op: {"I2CReadWrite"}, w: Word, r: Word, id: Nat]
             T == [op: {"I2CStart", "I2CStop", "I2CWriteByte"}, id: Nat]
             U == [op: {"I2CReadByte"}, ack: {"ack", "nack"}, id: Nat]
  <2>1. JobType("i2c") = S \cup T \cup U
    BY Zenon DEF JobType
  <2>2. /\ j \in S => c \in S /\ c.op = j.op /\ j.op # "none"
        /\ j \in T => c \in T /\ c.op = j.op /\ j.op # "none"
        /\ j \in U => c \in U /\ c.op = j.op /\ j.op # "none"
    OBVIOUS
  <2> HIDE DEF S, T, U, c
  <2> QED
    BY <1>2, <2>1, <2>2, Zenon DEF c
<1>3. CASE b = "mw"
  <2> DEFINE S == [op: {"MWWrite"}, cs: {0, 1}, bits: Bits, id: Nat]
             T == [op: {"MWRead"}, cs: {0, 1}, n: Word, id: Nat]
             U == [op: {"MWIsBusy"}, id: Nat]
  <2>1. JobType("mw") = S \cup T \cup U
    BY Zenon DEF JobType
  <2>2. /\ j \in S => c \in S /\ c.op = j.op /\ j.op # "none"
        /\ j \in T => c \in T /\ c.op = j.op /\ j.op # "none"
        /\ j \in U => c \in U /\ c.op = j.op /\ j.op # "none"
    OBVIOUS
  <2> HIDE DEF S, T, U, c
  <2> QED
    BY <1>3, <2>1, <2>2, Zenon DEF c
<1> QED
  BY <1>1, <1>2, <1>3

\* A call on the chip as steps on the line.
LEMMA ScriptOK ==
  ASSUME NEW b \in {"spi", "i2c", "mw"}, NEW c \in JobType(b)
  PROVE  Script(c) \in Seq(Step)
<1>1. <<>> \in Seq(AnySym) /\ <<>> \in Seq(Step) /\ <<>> \in Seq(AnyByte)
  BY EmptySeq
<1>2. \A cs : EndIf(cs) \in Seq(AnySym)
  <2>1. Sym("end") \in AnySym /\ Sym("S") \in AnySym /\ Sym("P") \in AnySym
    BY DEF Sym, AnySym
  <2> QED
    BY <1>1, <2>1, ShortOK DEF EndIf
<1>3. CASE b = "spi"
  <2>1. c.op \in {"SPIRead", "SPIWrite"} /\ c.cs \in Nat /\ c.n \in Nat /\ c.id \in Nat
    BY <1>3, SpiJob
  <2> DEFINE h == <<Num(c.cs)>> \o HiLo(c.n)
  <2>2. h \in Seq(AnyByte)
    BY <2>1, ArgumentsOK
  <2> HIDE DEF h
  <2>3. CASE c.op = "SPIRead"
    <3>1. Script(c) = Function("SPI_READ", h) \o Reading(c.n, EndIf(c.cs))
      BY <2>3 DEF Script, h
    <3>2. Function("SPI_READ", h) \in Seq(Step)
      BY <2>2, FunctionOK DEF Codes
    <3>3. Reading(c.n, EndIf(c.cs)) \in Seq(Step)
      BY <1>2, <2>1, ReadingOK
    <3> QED
      BY <3>1, <3>2, <3>3, ConcatProperties
  <2>4. CASE c.op = "SPIWrite"
    <3>1. Script(c) = Function("SPI_WRITE", h) \o Writing(c.id, c.n, wchunk)
      BY <2>4 DEF Script, h
    <3>2. Function("SPI_WRITE", h) \in Seq(Step)
      BY <2>2, FunctionOK DEF Codes
    <3>3. wchunk \in Nat \ {0}
      BY ChunkAssumption
    <3>4. Writing(c.id, c.n, wchunk) \in Seq(Step)
      BY <2>1, <3>3, WritingOK
    <3> QED
      BY <3>1, <3>2, <3>4, ConcatProperties
  <2> QED
    BY <2>1, <2>3, <2>4
<1>4. CASE b = "i2c"
  <2>1. /\ c.op \in {"I2CReadWrite", "I2CStart", "I2CStop", "I2CWriteByte", "I2CReadByte"}
        /\ c.id \in Nat
        /\ c.op = "I2CReadWrite" => c.w \in Nat /\ c.r \in Nat
    BY <1>4, I2CJob
  <2>2. RecvBuffer(1) \in Step /\ <<RecvBuffer(1)>> \in Seq(Step)
    BY WaitOK, ShortOK
  <2>3. CASE c.op = "I2CReadWrite"
    <3> DEFINE stop == IF c.r > 0 THEN 0 ELSE 1
               h == <<Num(0), Num(stop)>> \o HiLo(c.w)
               g == <<Num(0)>> \o HiLo(c.r)
               s == IF c.w = 0 THEN <<>> ELSE Function("I2C_WRITE", h) \o Writing(c.id, c.w, wchunk)
               t == IF c.r = 0 THEN <<>> ELSE Function("I2C_READ", g) \o Reading(c.r, <<>>)
    <3>1. h \in Seq(AnyByte) /\ g \in Seq(AnyByte)
      <4>1. stop \in Nat
        OBVIOUS
      <4> HIDE DEF stop
      <4> QED
        BY <2>1, <2>3, <4>1, ArgumentsOK
    <3>2. Script(c) = s \o t
      BY <2>3 DEF Script
    <3> HIDE DEF h, g
    <3>3. Function("I2C_WRITE", h) \in Seq(Step) /\ Function("I2C_READ", g) \in Seq(Step)
      BY <3>1, FunctionOK DEF Codes
    <3>4. s \in Seq(Step)
      <4>1. wchunk \in Nat \ {0}
        BY ChunkAssumption
      <4>2. Writing(c.id, c.w, wchunk) \in Seq(Step)
        BY <2>1, <2>3, <4>1, WritingOK
      <4>3. Function("I2C_WRITE", h) \o Writing(c.id, c.w, wchunk) \in Seq(Step)
        BY <3>3, <4>2, ConcatProperties
      <4> QED
        BY <1>1, <4>3
    <3>5. t \in Seq(Step)
      <4>1. Reading(c.r, <<>>) \in Seq(Step)
        BY <1>1, <2>1, <2>3, ReadingOK
      <4>2. Function("I2C_READ", g) \o Reading(c.r, <<>>) \in Seq(Step)
        BY <3>3, <4>1, ConcatProperties
      <4> QED
        BY <1>1, <4>2
    <3> HIDE DEF s, t
    <3> QED
      BY <3>2, <3>4, <3>5, ConcatProperties
  <2>4. CASE c.op \in {"I2CStart", "I2CStop"}
    <3>1. PICK code \in {"I2C_START", "I2C_STOP"}, s \in {"S", "P"} :
            Script(c) = <<Tell(<<Code(code)>>, <<Sym(s)>>)>>
      BY <2>4 DEF Script
    <3>2. <<Code(code)>> \in Seq(AnyByte)
      BY BytesOK, ShortOK DEF Codes
    <3>3. Sym(s) \in AnySym
      BY DEF Sym, AnySym
    <3>4. <<Sym(s)>> \in Seq(AnySym)
      BY <3>3, ShortOK
    <3> QED
      BY <3>1, <3>2, <3>4, SendOK, ShortOK
  <2>5. CASE c.op = "I2CReadByte"
    <3> DEFINE a == IF c.ack = "ack" THEN 1 ELSE 0
    <3>1. <<Num(a)>> \in Seq(AnyByte)
      BY BytesOK, ShortOK
    <3>2. Script(c) = Function("I2C_READBYTE", <<Num(a)>>) \o <<RecvBuffer(1)>>
      BY <2>5 DEF Script
    <3> HIDE DEF a
    <3>3. Function("I2C_READBYTE", <<Num(a)>>) \in Seq(Step)
      BY <3>1, FunctionOK DEF Codes
    <3> QED
      BY <2>2, <3>2, <3>3, ConcatProperties
  <2>6. CASE c.op = "I2CWriteByte"
    <3>1. <<Data(c.id, 1)>> \in Seq(AnyByte)
      BY <2>1, BytesOK, ShortOK
    <3>2. Script(c) = Function("I2C_WRITEBYTE", <<Data(c.id, 1)>>) \o <<RecvBuffer(1)>>
      BY <2>6 DEF Script
    <3>3. Function("I2C_WRITEBYTE", <<Data(c.id, 1)>>) \in Seq(Step)
      BY <3>1, FunctionOK DEF Codes
    <3> QED
      BY <2>2, <3>2, <3>3, ConcatProperties
  <2> QED
    BY <2>1, <2>3, <2>4, <2>5, <2>6
<1>5. CASE b = "mw"
  <2>1. /\ c.op \in {"MWWrite", "MWRead", "MWIsBusy"}
        /\ c.id \in Nat
        /\ c.op = "MWWrite" => c.cs \in Nat /\ c.bits \in Nat
        /\ c.op = "MWRead" => c.cs \in Nat /\ c.n \in Nat
    BY <1>5, MWJob
  <2>2. CASE c.op = "MWRead"
    <3> DEFINE h == <<Num(c.cs)>> \o HiLo(c.n)
    <3>1. h \in Seq(AnyByte)
      BY <2>1, <2>2, ArgumentsOK
    <3>2. Script(c) = Function("MW_READ", h) \o Reading(c.n, EndIf(c.cs))
      BY <2>2 DEF Script
    <3> HIDE DEF h
    <3>3. Function("MW_READ", h) \in Seq(Step)
      BY <3>1, FunctionOK DEF Codes
    <3>4. Reading(c.n, EndIf(c.cs)) \in Seq(Step)
      BY <1>2, <2>1, <2>2, ReadingOK
    <3> QED
      BY <3>2, <3>3, <3>4, ConcatProperties
  <2>3. CASE c.op = "MWWrite"
    <3> DEFINE n == ByteNum(c.bits)
               h == <<Num(c.cs), Num(c.bits)>> \o HiLo(n)
    <3>1. n \in Nat
      BY <2>1, <2>3 DEF ByteNum
    <3>2. Script(c) = Function("MW_WRITE", h) \o Writing(c.id, n, 32)
      BY <2>3 DEF Script
    <3> HIDE DEF n
    <3>3. h \in Seq(AnyByte)
      BY <2>1, <2>3, <3>1, ArgumentsOK
    <3> HIDE DEF h
    <3>4. Function("MW_WRITE", h) \in Seq(Step)
      BY <3>3, FunctionOK DEF Codes
    <3>5. Writing(c.id, n, 32) \in Seq(Step)
      <4>1. 32 \in Nat \ {0} /\ c.id \in Nat
        BY <2>1
      <4> HIDE DEF n
      <4> QED
        BY <3>1, <4>1, WritingOK
    <3> HIDE DEF n
    <3> QED
      BY <3>2, <3>4, <3>5, ConcatProperties
  <2>4. CASE c.op = "MWIsBusy"
    <3>1. Script(c) = Function("MW_BUSY", <<>>) \o <<RecvBuffer(1)>>
      BY <2>4 DEF Script
    <3>2. Function("MW_BUSY", <<>>) \in Seq(Step) /\ RecvBuffer(1) \in Step
      BY <1>1, FunctionOK, WaitOK DEF Codes
    <3> QED
      BY <3>1, <3>2, ShortOK, ConcatProperties
  <2> QED
    BY <2>1, <2>2, <2>3, <2>4
<1> QED
  BY <1>3, <1>4, <1>5

\* The steps that open and close a session.
LEMMA SessionOK ==
  ASSUME NEW b \in {"spi", "i2c", "mw"}
  PROVE  SetUp(b) \in Seq(Step) /\ TearDown(b) \in Seq(Step)
<1>1. <<>> \in Seq(AnyByte) /\ <<>> \in Seq(Step) /\ <<Num(0)>> \in Seq(AnyByte) /\ <<Connect>> \in Seq(Step)
  BY EmptySeq, BytesOK, WaitOK, ShortOK
<1>2. /\ Function("SPI_INIT", <<Num(0)>>) \in Seq(Step) /\ Function("I2C_INIT", <<>>) \in Seq(Step)
      /\ Function("MW_INIT", <<>>) \in Seq(Step) /\ Function("SPI_DEINIT", <<>>) \in Seq(Step)
      /\ Function("MW_DEINIT", <<>>) \in Seq(Step)
  BY <1>1, FunctionOK DEF Codes
<1>3. \E s \in Seq(Step) : SetUp(b) = <<Connect>> \o s
  BY <1>2 DEF SetUp
<1>4. TearDown(b) \in Seq(Step)
  BY <1>1, <1>2 DEF TearDown
<1> QED
  BY <1>1, <1>3, <1>4, ConcatProperties

-----------------------------------------------------------------------------
(***************************************************************************)
(* The steps.                                                              *)
(***************************************************************************)
\* The host's part and the sketch's part of the invariant.
HostInv == HostOK(host)
LineInv == FwOK(fw) /\ up \in Seq(LineByte)

\* A call is begun.
LEMMA BeginOK ==
  ASSUME HostInv, NEW c, NEW todo \in Seq(Step), NEW inFrame, NEW good, Begin(c, todo, inFrame, good),
         todo # <<>> => c # NoCall, IsJob(c) => host.made < MaxJobs
  PROVE  HostInv'
<1> DEFINE made == IF IsJob(c) THEN host.made + 1 ELSE host.made
<1>1. made \in 0..MaxJobs
  BY AsprogAssumption DEF HostInv, HostOK
<1> HIDE DEF made
<1>2. host' = [host EXCEPT !.call = c, !.todo = todo, !.inFrame = inFrame, !.got = <<>>, !.good = good,
                           !.made = made]
  BY DEF Begin, made
<1>3. /\ DOMAIN host' = HostFields /\ host'.made = made
      /\ host'.todo = todo /\ host'.call = c
  BY <1>2 DEF HostInv, HostOK, HostFields
<1> QED
  BY <1>1, <1>3 DEF HostInv, HostOK

\* A call ends.
LEMMA EndsOK ==
  ASSUME HostInv, NEW good, Ends(good)
  PROVE  HostInv' /\ (port \in Ports => port' \in Ports)
<1>1. /\ DOMAIN host' = HostFields /\ host'.made = host.made /\ host'.todo = <<>>
  BY DEF HostInv, HostOK, HostFields, Ends
<1>2. <<>> \in Seq(Step)
  BY EmptySeq
<1>3. port \in Ports => port' \in Ports
  BY DEF Ends, Ports
<1> QED
  BY <1>1, <1>2, <1>3 DEF HostInv, HostOK

\* The next step of a call.
LEMMA ProceedOK ==
  ASSUME HostInv, host.todo # <<>>, NEW got, NEW good,
         Proceed([host EXCEPT !.got = got, !.good = good]) \/ Proceed(host)
  PROVE  HostInv' /\ (port \in Ports => port' \in Ports)
<1>1. /\ DOMAIN host' = HostFields /\ host'.made = host.made /\ host'.todo = Tail(host.todo)
      /\ host'.call = host.call
  BY DEF HostInv, HostOK, HostFields, Proceed
<1>2. Tail(host.todo) \in Seq(Step)
  BY HeadTailProperties DEF HostInv, HostOK
<1>3. port \in Ports => port' \in Ports
  BY DEF Proceed, Ports
<1> QED
  BY <1>1, <1>2, <1>3 DEF HostInv, HostOK

\* What the sketch takes from the line, and what it leaves there.
LEMMA TakenOK ==
  ASSUME LineInv, NEW n \in Nat, n <= Len(up)
  PROVE  /\ Taken(n) \in Seq(AnyByte) /\ Len(Taken(n)) = n
         /\ SubSeq(up, n + 1, Len(up)) \in Seq(LineByte)
<1>1. Len(up) \in Nat /\ \A i \in 1..Len(up) : up[i] \in LineByte
  BY LenProperties, ElementOfSeq DEF LineInv
<1>2. Taken(n) \in [1..n -> AnyByte]
  BY <1>1 DEF Taken, LineByte
<1>3. \A i \in n + 1 .. Len(up) : up[i] \in LineByte
  BY <1>1
<1> QED
  BY <1>1, <1>2, <1>3, TableOK, SubSeqProperties

\* The sketch resumes with what was there.
LEMMA ResumesOK ==
  ASSUME LineInv, Runs, NEW n \in Nat, n <= Len(up), n <= Wanted(fw), NEW stray,
         fw' = Received(fw, Taken(n), stray).fw
  PROVE  FwOK(fw')
<1>1. Taken(n) \in Seq(AnyByte) /\ Len(Taken(n)) = n
  BY TakenOK
<1>2. FwOK(Received(fw, Taken(n), stray).fw)
  BY <1>1, ReceivedOK DEF LineInv, Runs
<1> QED
  BY <1>2

\* The sketch takes a call's bytes, waits in vain, or for too long.
LEMMA LineStepOK ==
  ASSUME LineInv, Serve \/ ReadBytesTimeout \/ Late
  PROVE  LineInv'
<1>1. Runs /\ Wanted(fw) \in Nat /\ Len(up) \in Nat
  <2>1. Runs
    BY DEF Serve, ReadBytesTimeout, Late, Ready, Waited
  <2> QED
    BY <2>1, WantedOK, LenProperties DEF LineInv, Runs
<1>2. CASE Serve
  <2>1. Wanted(fw) <= Len(up)
    BY <1>1, <1>2 DEF Serve, Ready
  <2>2. SubSeq(up, Wanted(fw) + 1, Len(up)) \in Seq(LineByte)
    BY <1>1, <2>1, TakenOK
  <2>3. PICK stray : fw' = Received(fw, Taken(Wanted(fw)), stray).fw
    BY <1>2 DEF Serve, Resumes
  <2>4. up' = SubSeq(up, Wanted(fw) + 1, Len(up))
    BY <1>2 DEF Serve, Resumes
  <2>5. FwOK(fw')
    BY <1>1, <2>1, <2>3, ResumesOK
  <2> QED
    BY <2>2, <2>4, <2>5 DEF LineInv, FwOK, Counting
<1>3. CASE ReadBytesTimeout \/ Late
  <2>1. Len(up) <= Wanted(fw)
    <3>1. Waited
      BY <1>3, Zenon DEF ReadBytesTimeout, Late
    <3>2. Len(up) < Wanted(fw)
      BY <3>1, Zenon DEF Waited
    <3>3. Wanted(fw) \in Nat /\ Len(up) \in Nat
      BY <1>1, Zenon
    <3> QED
      BY <3>2, <3>3
  <2>2. PICK stray : fw' = Received(fw, Taken(Len(up)), stray).fw
    BY <1>3 DEF ReadBytesTimeout, Late, Resumes
  <2>3. up' = <<>>
    BY <1>3 DEF ReadBytesTimeout, Late, Resumes
  <2>4. FwOK(fw')
    BY <1>1, <2>1, <2>2, ResumesOK
  <2> QED
    BY <2>3, <2>4, EmptySeq DEF LineInv, FwOK, Counting
<1> QED
  BY <1>2, <1>3

\* A session that is given up, or doomed.
LEMMA DoomedOK ==
  ASSUME port \in Ports, NEW now, NEW unnoticed, Doomed(now, unnoticed)
  PROVE  port' \in Ports
BY DEF Doomed, Ports

\* A fault is counted.
LEMMA FaultOK ==
  ASSUME faults \in 0..MaxFaults, Fault
  PROVE  faults' \in 0..MaxFaults
BY AsprogAssumption DEF Fault

\* The board as it comes up.
LEMMA PowerUpOK == FwOK(PowerUp) /\ <<>> \in Seq(LineByte)
BY EmptySeq DEF FwOK, Counting, FwFields, PowerUp

\* The calls of the user.
LEMMA UserOK ==
  ASSUME IInv, Open \/ Close \/ \E j \in JobsOf(bus) : Make(j)
  PROVE  IInv'
<1>1. HostInv /\ UNCHANGED <<up, fw, faults>>
  BY DEF IInv, HostInv, Open, Close, Make
<1>2. CASE Open
  <2>1. bus' \in Buses /\ bus' \in {"spi", "i2c", "mw"} /\ SetUp(bus') \in Seq(Step)
    BY <1>2, SessionOK, AsprogAssumption DEF Open
  <2>2. [op |-> "Open"] # NoCall /\ ~IsJob([op |-> "Open"])
    BY DEF NoCall, IsJob
  <2>3. HostInv'
    BY <1>1, <1>2, <2>1, <2>2, BeginOK DEF Open
  <2> QED
    BY <1>1, <1>2, <2>1, <2>3 DEF IInv, HostInv, Open, Ports
<1>3. CASE Close
  <2>1. bus \in {"spi", "i2c", "mw"} /\ TearDown(bus) \in Seq(Step)
    BY SessionOK, AsprogAssumption DEF IInv
  <2>2. [op |-> "Close"] # NoCall /\ ~IsJob([op |-> "Close"])
    BY DEF NoCall, IsJob
  <2>3. HostInv'
    BY <1>1, <1>3, <2>1, <2>2, BeginOK DEF Close
  <2> QED
    BY <1>1, <1>3, <2>3 DEF IInv, HostInv, Close, Ports
<1>4. ASSUME NEW j \in JobsOf(bus), Make(j) PROVE IInv'
  <2> DEFINE c == [j EXCEPT !.id = host.made + 1]
  <2>1. bus \in {"spi", "i2c", "mw"} /\ j \in JobType(bus)
    BY AsprogAssumption DEF IInv
  <2>2. host.made \in Nat /\ host.made < MaxJobs
    BY <1>1, <1>4 DEF HostInv, HostOK, Make
  <2>3. c \in JobType(bus) /\ c.op = j.op /\ c.op # "none"
    <3> DEFINE k == host.made + 1
    <3>1. k \in Nat
      BY <2>2
    <3> HIDE DEF k
    <3>2. [j EXCEPT !.id = k] \in JobType(bus) /\ [j EXCEPT !.id = k].op = j.op /\ j.op # "none"
      BY <2>1, <3>1, RenumberOK
    <3> QED
      BY <3>2 DEF k
  <2>4. Script(c) \in Seq(Step)
    BY <2>1, <2>3, ScriptOK
  <2>5. c # NoCall
    BY <2>3 DEF NoCall
  <2> HIDE DEF c
  <2>6. Begin(c, Script(c), LeavesOpen(c), TRUE)
    BY <1>4 DEF Make, c
  <2>7. HostInv'
    BY <1>1, <2>2, <2>4, <2>5, <2>6, BeginOK
  <2> QED
    BY <1>1, <1>4, <2>7 DEF IInv, HostInv, Make
<1> QED
  BY <1>2, <1>3, <1>4

\* The steps of a call.
LEMMA ProgramOK ==
  ASSUME IInv, Program
  PROVE  IInv'
<1>1. HostInv /\ LineInv /\ UNCHANGED <<bus, faults>> /\ port \in Ports
  BY DEF IInv, HostInv, LineInv, Program, ConnectPort, SendBytes, RecvEcho, RecvBytes, RecvTimeout, RecvEnds,
         Return
<1>2. HostInv' /\ port' \in Ports
  <2>1. CASE Return
    BY <1>1, <2>1, EndsOK DEF Return
  <2>2. CASE ConnectPort
    BY <1>1, <2>2, ProceedOK DEF ConnectPort, Now
  <2>3. CASE SendBytes
    BY <1>1, <2>3, ProceedOK DEF SendBytes, Now
  <2>4. CASE RecvEcho
    <3>1. host.todo # <<>> /\ (Proceed(host) \/ Ends(FALSE))
      BY <2>4 DEF RecvEcho, Now
    <3> QED
      BY <1>1, <3>1, ProceedOK, EndsOK
  <2>5. CASE RecvBytes
    <3>1. host.todo # <<>> /\ Proceed([host EXCEPT !.got = @ \o SubSeq(down, 1, Needs)])
      BY <2>5 DEF RecvBytes, Now
    <3>2. \E got : Proceed([host EXCEPT !.got = got, !.good = host.good])
      <4>1. \A got : [host EXCEPT !.got = got, !.good = host.good] = [host EXCEPT !.got = got]
        BY <1>1 DEF HostInv, HostOK, HostFields
      <4> QED
        BY <3>1, <4>1
    <3> QED
      BY <1>1, <3>1, <3>2, ProceedOK
  <2>6. CASE RecvTimeout
    <3>1. \/ Ends(FALSE)
          \/ host.todo # <<>> /\ Proceed([host EXCEPT !.got = @ \o down, !.good = FALSE])
      BY <2>6 DEF RecvTimeout, RecvEnds, Waits, Now
    <3> QED
      BY <1>1, <3>1, ProceedOK, EndsOK
  <2> QED
    BY <2>1, <2>2, <2>3, <2>4, <2>5, <2>6 DEF Program
<1>3. LineInv'
  <2>1. CASE ConnectPort
    BY <2>1, PowerUpOK DEF ConnectPort, LineInv
  <2>2. CASE SendBytes
    <3>1. Head(host.todo) \in Step /\ Head(host.todo).do = "send"
      BY <1>1, <2>2, HeadTailProperties DEF SendBytes, Now, HostInv, HostOK
    <3>2. Head(host.todo).bytes \in Seq(LineByte)
      BY <3>1 DEF Step
    <3>3. up' \in Seq(LineByte)
      BY <1>1, <2>2, <3>2, ConcatProperties DEF SendBytes, LineInv
    <3> QED
      BY <1>1, <2>2, <3>3 DEF SendBytes, LineInv
  <2>3. CASE Return \/ RecvEcho \/ RecvBytes \/ RecvTimeout
    BY <1>1, <2>3 DEF Return, RecvEcho, RecvBytes, RecvTimeout, RecvEnds, LineInv
  <2> QED
    BY <2>1, <2>2, <2>3 DEF Program
<1> QED
  BY <1>1, <1>2, <1>3 DEF IInv, HostInv, LineInv

\* The faults.
LEMMA FaultsOK ==
  ASSUME IInv, LoseUp \/ LoseDown \/ Late \/ Refused \/ Killed \/ BoardReset
  PROVE  IInv'
<1>1. HostInv /\ LineInv /\ port \in Ports /\ UNCHANGED bus
  BY DEF IInv, HostInv, LineInv, LoseUp, LoseDown, Late, Refused, Killed, BoardReset
<1>2. faults' \in 0..MaxFaults
  BY FaultOK DEF IInv, LoseUp, LoseDown, Late, Refused, Killed, BoardReset
<1>3. HostInv' /\ port' \in Ports
  <2>1. CASE LoseUp \/ Late
    BY <1>1, <2>1, DoomedOK DEF LoseUp, Late, HostInv
  <2>2. CASE LoseDown \/ BoardReset
    BY <1>1, <2>2 DEF LoseDown, BoardReset, HostInv, Ports
  <2>3. CASE Refused
    <3>1. /\ DOMAIN host' = HostFields /\ host'.made = host.made /\ host'.todo = <<>>
      BY <1>1, <2>3 DEF Refused, HostInv, HostOK, HostFields
    <3> QED
      BY <1>1, <2>3, <3>1, EmptySeq DEF Refused, HostInv, HostOK, Ports
  <2>4. CASE Killed
    <3>1. /\ DOMAIN host' = HostFields /\ host'.made = host.made /\ host'.todo = <<>>
      BY <1>1, <2>4 DEF Killed, Quiet, HostFields
    <3> QED
      BY <1>1, <2>4, <3>1, EmptySeq DEF Killed, HostInv, HostOK, Ports
  <2> QED
    BY <2>1, <2>2, <2>3, <2>4
<1>4. LineInv'
  <2>1. CASE LoseUp
    <3>1. PICK i \in 1..Len(up) : up' = RemoveAt(up, i)
      BY <2>1 DEF LoseUp
    <3>2. Len(up) \in Nat /\ \A k \in 1..Len(up) : up[k] \in LineByte
      BY <1>1, LenProperties, ElementOfSeq DEF LineInv
    <3>3. SubSeq(up, 1, i - 1) \in Seq(LineByte) /\ SubSeq(up, i + 1, Len(up)) \in Seq(LineByte)
      BY <3>2, SubSeqProperties
    <3>4. up' \in Seq(LineByte)
      BY <3>1, <3>3, ConcatProperties DEF RemoveAt
    <3> QED
      BY <1>1, <2>1, <3>4 DEF LoseUp, LineInv
  <2>2. CASE Late
    BY <1>1, <2>2, LineStepOK
  <2>3. CASE LoseDown \/ Refused \/ Killed
    BY <1>1, <2>3 DEF LoseDown, Refused, Killed, LineInv
  <2>4. CASE BoardReset
    BY <2>4, PowerUpOK DEF BoardReset, LineInv
  <2> QED
    BY <2>1, <2>2, <2>3, <2>4
<1> QED
  BY <1>1, <1>2, <1>3, <1>4 DEF IInv, HostInv, LineInv

\* Every step keeps the invariant.
LEMMA Inductive ==
  ASSUME IInv, [Next]_vars
  PROVE  IInv'
<1>1. CASE Open \/ Close \/ \E j \in JobsOf(bus) : Make(j)
  BY <1>1, UserOK
<1>2. CASE Program
  BY <1>2, ProgramOK
<1>3. CASE Line
  <2>1. LineInv'
    BY <1>3, LineStepOK DEF Line, IInv, LineInv
  <2>2. port' \in Ports /\ UNCHANGED <<bus, host, faults>>
    BY <1>3, DoomedOK DEF Line, Serve, ReadBytesTimeout, IInv
  <2> QED
    BY <2>1, <2>2 DEF IInv, LineInv
<1>4. CASE LoseUp \/ LoseDown \/ Late \/ Refused \/ Killed \/ BoardReset
  BY <1>4, FaultsOK
<1>5. CASE UNCHANGED vars
  BY <1>5 DEF vars, IInv
<1> QED
  BY <1>1, <1>2, <1>3, <1>4, <1>5 DEF Next

\* The first state has the invariant.
LEMMA Initial ==
  ASSUME Init
  PROVE  IInv
<1>1. HostOK(Quiet)
  BY AsprogAssumption, EmptySeq DEF HostOK, HostFields, Quiet
<1>2. 0 \in 0..MaxFaults
  BY AsprogAssumption
<1> QED
  BY <1>1, <1>2, PowerUpOK DEF Init, IInv, Ports

\* The invariant gives the types.
LEMMA Implied ==
  ASSUME IInv
  PROVE  TypeOK
<1>1. Runs => Wanted(fw) \in Nat \ {0}
  BY WantedOK DEF IInv, Runs
<1> QED
  BY <1>1 DEF IInv, HostOK, FwOK, Counting, TypeOK, Ports

(***************************************************************************)
(* Every variable has its type: among others, the sketch never waits for   *)
(* no byte at all, and its counters never go below zero, whatever was lost *)
(* or taken for what it is not.                                            *)
(***************************************************************************)
THEOREM AsprogTypes == Spec => []TypeOK
<1>1. Init => IInv
  BY Initial
<1>2. IInv /\ [Next]_vars => IInv'
  BY Inductive
<1>3. IInv => TypeOK
  BY Implied
<1> QED
  BY <1>1, <1>2, <1>3, PTL DEF Spec
-----------------------------------------------------------------------------
(***************************************************************************)
(* The clean line.  In a good session the line never holds more bytes for  *)
(* the host than the steps it still has before it are going to take, so    *)
(* none is left when there are none.  What the sketch may still send       *)
(* follows from where its handler is and what is on its way to it; what    *)
(* the host will take, from the rest of its call.                          *)
(***************************************************************************)
\* A list of whatever it holds.
Listed(s) == s \in Seq({s[i]: i \in DOMAIN s})

Readers == {"SPI_READ", "I2C_READ", "MW_READ"}
Writers == {"SPI_WRITE", "I2C_WRITE", "MW_WRITE"}
Asked1  == {"I2C_READBYTE", "I2C_WRITEBYTE", "MW_BUSY"}

\* The length a header ends with.
Count(a) == Length(a[Len(a) - 1], a[Len(a)])

\* A chunk of n bytes from byte o + 1 on, and the data of a write from there.
Chunked(id, o, n) == Tell([i \in 1..n |-> Data(id, o + i)], <<>>)

WritingFrom(id, o, n, size) ==
  LET Sent(k)  == Chunked(id, o + (k - 1) * size, Chunk(n, size, k))
      Asked(k) == Echo("ACK")
  IN  Alternately(ChunksIn(n, size), Sent, Asked)

\* The ACK of a chunk read when n bytes are still to come.
Acking(n, e) == IF n > 0 THEN Send(<<Code("ACK")>>) ELSE Tell(<<Code("ACK")>>, e)

\* The chunks a handler takes; the Microwire one takes all at once.
SizeOf(c)  == IF c = "MW_WRITE" THEN 32 ELSE wchunk
Fits(c, n) == c = "MW_WRITE" => n <= 32

\* No byte of these is a code.
NoCodes(a) == \A i \in 1..Len(a): NoCode(a[i])

\* What follows the echo of c when the arguments are a: a read, possibly after a write, or one byte.
AsksRead(c, a, rest) ==
  c \in Readers /\ Len(a) = 3 /\ NoCodes(a) /\ \E e \in Seq(AnySym): rest = Reading(Count(a), e)

MayRead(rest) ==
  \/ rest = <<>>
  \/ \E c \in Readers, a \in Seq(AnyByte), s \in Seq(Step):
       AsksRead(c, a, s) /\ rest = Cons(Send(Cons(Code(c), a)), Cons(Echo(c), s))

AsksWrite(c, a, rest) ==
  /\ c \in Writers /\ Len(a) = HeadLen[c] /\ NoCodes(a) /\ Fits(c, Count(a))
  /\ \E id \in Nat, more \in Seq(Step):
       MayRead(more) /\ rest = WritingFrom(id, 0, Count(a), SizeOf(c)) \o more

AsksByte(c, a, rest) ==
  c \in Asked1 /\ Len(a) = (IF c = "MW_BUSY" THEN 0 ELSE 1) /\ NoCodes(a) /\ rest = <<RecvBuffer(1)>>

Asks(c, a, rest) == AsksRead(c, a, rest) \/ AsksWrite(c, a, rest) \/ AsksByte(c, a, rest)

\* A call that has not begun, the second half of one, or no call.
Told == {"I2C_START", "I2C_STOP"}

Starts(todo) ==
  \/ todo = <<>>
  \/ \E c \in Codes, a \in Seq(AnyByte), s \in Seq(Step):
       Asks(c, a, s) /\ todo = Cons(Send(Cons(Code(c), a)), Cons(Echo(c), s))
  \/ \E c \in Told, s \in Seq(AnySym): todo = <<Tell(<<Code(c)>>, s)>>

(***************************************************************************)
(* The first b bytes on the line were told, and nobody waits for what they *)
(* do; with them the sketch gets back to its loop.                         *)
(***************************************************************************)
Backlog(f, u, b) ==
  /\ \A i \in 1..b: u[i].unanswered
  /\ \/ f.at = "loop" /\ \A i \in 1..b: u[i].byte[1] \in Told
     \/ /\ f.at = "ack" /\ f.left = 0 /\ b > 0 /\ u[1].byte = Code("ACK")
        /\ \A i \in 2..b: u[i].byte[1] \in Told

(***************************************************************************)
(* With the sketch at f and u on its way there, at most k bytes are on the *)
(* way to a host that has todo before it.                                  *)
(***************************************************************************)
Begins(f, u, k, todo) == Starts(todo) /\ k = 0 /\ Backlog(f, u, Len(u))

TakesByte(f, u, k, todo) == todo = <<RecvBuffer(1)>> /\ f.at = "loop" /\ u = <<>> /\ k <= 1

Fetches(f, u, k, todo) ==
  \E n \in Nat, e \in Seq(AnySym):
    /\ n > 0 /\ f.at = "ack" /\ todo = Reading(n, e)
    /\ \/ u = <<>> /\ f.left = n - AtMost(rchunk, n) /\ k <= AtMost(rchunk, n)
       \/ (u = <<>> \/ (Len(u) = 1 /\ u[1].byte = Code("ACK"))) /\ f.left = n /\ k = 0

Acks(f, u, k, todo) ==
  \E n \in Nat, e \in Seq(AnySym):
    /\ f.at = "ack" /\ todo = Cons(Acking(n, e), Reading(n, e))
    /\ u = <<>> /\ f.left = n /\ k = 0

Feeds(f, u, k, todo) ==
  \E id \in Nat, o \in Nat, n \in Nat, more \in Seq(Step):
    /\ n > 0 /\ f.at = "data" /\ f.left = n /\ Fits(f.cmd, n)
    /\ MayRead(more) /\ todo = WritingFrom(id, o, n, SizeOf(f.cmd)) \o more
    /\ u = <<>> /\ k = 0

Bounded(f, u, k, todo) ==
  \/ Begins(f, u, k, todo) \/ TakesByte(f, u, k, todo) \/ Fetches(f, u, k, todo)
  \/ Acks(f, u, k, todo) \/ Feeds(f, u, k, todo)

(***************************************************************************)
(* While the host waits for an echo: the arguments of a function are on    *)
(* their way, behind the backlog, with or without the code itself, or some *)
(* of them are lost; or the sketch has answered, or has given up; or it    *)
(* has a chunk of data before it.                                          *)
(***************************************************************************)
Arguments(u, b, a) == Len(u) - b <= Len(a) /\ (Len(u) - b = Len(a) => \A i \in 1..Len(a): u[b + i].byte = a[i])

Request(u, b, c, a) ==
  /\ \A i \in b + 2..Len(u): NoCode(u[i].byte)
  /\ Len(u) > b => \/ NoCode(u[b + 1].byte) /\ Len(u) - b <= Len(a)
                   \/ u[b + 1].byte = Code(c) /\ Arguments(u, b + 1, a)

Unread(f, u, c, a) == \E b \in 0..Len(u): Backlog(f, u, b) /\ Request(u, b, c, a)
Heading(f, u, c, a) == f.at = "head" /\ f.cmd = c /\ Arguments(u, 0, a)

Requested(f, u, d, c, rest) ==
  d = <<>> /\ \E a \in Seq(AnyByte): Asks(c, a, rest) /\ (Unread(f, u, c, a) \/ Heading(f, u, c, a))

Responds(f, u, d, rest) ==
  u = <<>> /\ f.at # "head" /\ (d = <<>> \/ Bounded(f, u, Len(d) - 1, rest))

Refuses(f, u, d) == u = <<>> /\ f.at = "loop" /\ d = <<Code("ERROR_RECV")>>

Fed(f, u, d, c, rest) ==
  \E id \in Nat, o \in Nat, more \in Seq(Step):
    LET size == SizeOf(f.cmd)
        k == AtMost(size, f.left)
    IN  /\ c = "ACK" /\ d = <<>>
        /\ f.at = "data" /\ f.left > 0 /\ Fits(f.cmd, f.left)
        /\ Len(u) = k /\ \A i \in 1..k: u[i].unanswered
        /\ MayRead(more) /\ rest = WritingFrom(id, o, f.left - k, size) \o more

AwaitsEcho(f, u, d, todo) ==
  \E c \in Codes, rest \in Seq(Step):
    /\ todo = Cons(Echo(c), rest)
    /\ Requested(f, u, d, c, rest) \/ Responds(f, u, d, rest) \/ Refuses(f, u, d) \/ Fed(f, u, d, c, rest)

Stage(f, u, d, todo) == Bounded(f, u, Len(d), todo) \/ AwaitsEcho(f, u, d, todo)

(***************************************************************************)
(* While a session is opened a fault dooms nothing yet, and what is on the *)
(* line may be taken for a command of any kind.  But whatever the sketch   *)
(* makes of it, it sends at most one byte that could be the echo.          *)
(***************************************************************************)
Inits == {"SPI_INIT", "I2C_INIT", "MW_INIT"}
InitArguments(c) == IF c = "SPI_INIT" THEN <<Num(0)>> ELSE <<>>

AtLoop(f, u, d) == u = <<>> /\ d = <<>> /\ f.at = "loop"

Echoes(f, u, d) ==
  \/ u = <<>> /\ f.at = "loop" /\ (Len(d) <= 1 \/ (Len(d) = 2 /\ d[1] = Code("MW_BUSY")))
  \/ d = <<>> /\ f.at = "loop" /\ Len(u) <= 2 /\ (Len(u) = 2 => u[1].byte = Code("SPI_INIT"))
  \/ d = <<>> /\ f.at = "head" /\ Len(u) <= 1 /\ (Len(u) = 1 => f.cmd = "SPI_INIT")

Opens(f, u, d, todo) ==
  \/ AtLoop(f, u, d) /\ (todo = <<>> \/ \E c \in Inits: todo = Function(c, InitArguments(c)))
  \/ Echoes(f, u, d) /\ \E c \in Inits: todo = <<Echo(c)>>

InSession == port = "open" => Listed(down) /\ Stage(fw, up, down, host.todo)

InOpening ==
  port = "closed" /\ host.call.op = "Open" =>
    host.todo = SetUp(bus) \/ (Listed(down) /\ Opens(fw, up, down, host.todo))

LInv == InSession /\ InOpening

-----------------------------------------------------------------------------
(***************************************************************************)
(* Sequences.                                                              *)
(***************************************************************************)
\* Any sequence is a list of what it holds.
LEMMA ListedOK ==
  ASSUME NEW S, NEW s \in Seq(S)
  PROVE  Listed(s)
<1>1. Len(s) \in Nat /\ DOMAIN s = 1..Len(s) /\ s \in [1..Len(s) -> {s[i] : i \in DOMAIN s}]
  BY LenProperties
<1> QED
  BY <1>1, TableOK DEF Listed

\* The two together.
LEMMA ListedConcat ==
  ASSUME NEW s, NEW t, Listed(s), Listed(t)
  PROVE  Listed(s \o t) /\ Len(s \o t) = Len(s) + Len(t) /\ Len(s) \in Nat /\ Len(t) \in Nat
<1> DEFINE S == {s[i] : i \in DOMAIN s} \cup {t[i] : i \in DOMAIN t}
<1>1. s \in Seq(S) /\ t \in Seq(S)
  <2>1. \A i \in DOMAIN s : s[i] \in S
    OBVIOUS
  <2>2. \A i \in DOMAIN t : t[i] \in S
    OBVIOUS
  <2>3. Len(s) \in Nat /\ DOMAIN s = 1..Len(s) /\ s \in [1..Len(s) -> {s[i] : i \in DOMAIN s}]
    BY LenProperties DEF Listed
  <2>4. Len(t) \in Nat /\ DOMAIN t = 1..Len(t) /\ t \in [1..Len(t) -> {t[i] : i \in DOMAIN t}]
    BY LenProperties DEF Listed
  <2> HIDE DEF S
  <2>5. s \in [1..Len(s) -> S] /\ t \in [1..Len(t) -> S]
    BY <2>1, <2>2, <2>3, <2>4
  <2> QED
    BY <2>3, <2>4, <2>5, TableOK
<1> HIDE DEF S
<1> QED
  BY <1>1, ConcatProperties, ListedOK, LenProperties

\* Parts of a list.
LEMMA ListedParts ==
  ASSUME NEW s, Listed(s)
  PROVE  /\ Len(s) \in Nat /\ (Len(s) = 0 <=> s = <<>>)
         /\ s # <<>> => Listed(Tail(s)) /\ Len(Tail(s)) = Len(s) - 1
         /\ \A n \in 0..Len(s) : Listed(SubSeq(s, n + 1, Len(s))) /\ Len(SubSeq(s, n + 1, Len(s))) = Len(s) - n
         /\ \A i \in 1..Len(s) : Listed(RemoveAt(s, i)) /\ Len(RemoveAt(s, i)) = Len(s) - 1
                                 /\ \A j \in 1..Len(s) - 1 : RemoveAt(s, i)[j] = IF j < i THEN s[j] ELSE s[j + 1]
<1> DEFINE S == {s[i] : i \in DOMAIN s}
<1>1. s \in Seq(S)
  BY DEF Listed
<1> HIDE DEF S
<1>2. Len(s) \in Nat /\ \A i \in 1..Len(s) : s[i] \in S
  BY <1>1, LenProperties, ElementOfSeq
<1>3. Len(s) = 0 <=> s = <<>>
  BY <1>1, EmptySeq
<1>4. s # <<>> => Listed(Tail(s)) /\ Len(Tail(s)) = Len(s) - 1
  BY <1>1, HeadTailProperties, ListedOK
<1>5. ASSUME NEW n \in 0..Len(s)
      PROVE  Listed(SubSeq(s, n + 1, Len(s))) /\ Len(SubSeq(s, n + 1, Len(s))) = Len(s) - n
  <2>1. n + 1 \in Int /\ Len(s) \in Int /\ \A i \in n + 1 .. Len(s) : s[i] \in S
    BY <1>2
  <2>2. /\ SubSeq(s, n + 1, Len(s)) \in Seq(S)
        /\ Len(SubSeq(s, n + 1, Len(s))) = IF n + 1 <= Len(s) THEN Len(s) - (n + 1) + 1 ELSE 0
    BY <2>1, SubSeqProperties
  <2>3. Listed(SubSeq(s, n + 1, Len(s)))
    BY <2>2, ListedOK
  <2>4. Len(SubSeq(s, n + 1, Len(s))) = Len(s) - n
    <3> DEFINE k == Len(SubSeq(s, n + 1, Len(s)))
    <3>1. k = IF n + 1 <= Len(s) THEN Len(s) - (n + 1) + 1 ELSE 0
      BY <2>2
    <3> HIDE DEF k
    <3>2. k = Len(s) - n
      BY <1>2, <3>1
    <3> QED
      BY <3>2 DEF k
  <2> QED
    BY <2>3, <2>4
<1>6. ASSUME NEW i \in 1..Len(s)
      PROVE  Listed(RemoveAt(s, i)) /\ Len(RemoveAt(s, i)) = Len(s) - 1
             /\ \A j \in 1..Len(s) - 1 : RemoveAt(s, i)[j] = IF j < i THEN s[j] ELSE s[j + 1]
  <2> DEFINE p == SubSeq(s, 1, i - 1)
             q == SubSeq(s, i + 1, Len(s))
  <2>1. p \in Seq(S) /\ Len(p) = i - 1 /\ \A j \in 1..i - 1 : p[j] = s[j]
    <3>1. 1 \in Int /\ i - 1 \in Int /\ \A j \in 1 .. i - 1 : s[j] \in S
      BY <1>2
    <3>2. /\ p \in Seq(S) /\ Len(p) = IF 1 <= i - 1 THEN i - 1 - 1 + 1 ELSE 0
          /\ \A j \in 1 .. i - 1 - 1 + 1 : p[j] = s[1 + j - 1]
      BY <3>1, SubSeqProperties
    <3> HIDE DEF p
    <3> QED
      BY <1>2, <3>2
  <2>2. q \in Seq(S) /\ Len(q) = Len(s) - i /\ \A j \in 1..Len(s) - i : q[j] = s[i + j]
    <3>1. i + 1 \in Int /\ Len(s) \in Int /\ \A j \in i + 1 .. Len(s) : s[j] \in S
      BY <1>2
    <3>2. /\ q \in Seq(S) /\ Len(q) = IF i + 1 <= Len(s) THEN Len(s) - (i + 1) + 1 ELSE 0
          /\ \A j \in 1 .. Len(s) - (i + 1) + 1 : q[j] = s[i + 1 + j - 1]
      BY <3>1, SubSeqProperties
    <3> HIDE DEF q
    <3> QED
      BY <1>2, <3>2
  <2>3. RemoveAt(s, i) = p \o q
    BY DEF RemoveAt
  <2> HIDE DEF p, q
  <2>4. /\ p \o q \in Seq(S) /\ Len(p \o q) = Len(p) + Len(q)
        /\ \A j \in 1 .. Len(p) + Len(q) : (p \o q)[j] = IF j <= Len(p) THEN p[j] ELSE q[j - Len(p)]
    BY <2>1, <2>2, ConcatProperties
  <2>5. Len(p) + Len(q) = Len(s) - 1
    BY <1>2, <2>1, <2>2
  <2>6. ASSUME NEW j \in 1..Len(s) - 1
        PROVE  (p \o q)[j] = IF j < i THEN s[j] ELSE s[j + 1]
    <3>1. (p \o q)[j] = IF j <= i - 1 THEN p[j] ELSE q[j - (i - 1)]
      BY <2>1, <2>4, <2>5
    <3>2. CASE j < i
      <4>1. j \in 1..i - 1 /\ j <= i - 1
        BY <1>2, <3>2
      <4> QED
        BY <2>1, <3>1, <3>2, <4>1
    <3>3. CASE ~(j < i)
      <4>1. j - (i - 1) \in 1..Len(s) - i /\ i + (j - (i - 1)) = j + 1 /\ ~(j <= i - 1)
        BY <1>2, <3>3
      <4> QED
        BY <2>2, <3>1, <3>3, <4>1
    <3> QED
      BY <3>2, <3>3
  <2> QED
    BY <2>3, <2>4, <2>5, <2>6, ListedOK
<1> QED
  BY <1>2, <1>3, <1>4, <1>5, <1>6

\* One element before the others.
LEMMA ConsOK ==
  ASSUME NEW S, NEW x \in S, NEW s \in Seq(S)
  PROVE  /\ Cons(x, s) \in Seq(S) /\ Cons(x, s) # <<>> /\ Len(Cons(x, s)) = Len(s) + 1
         /\ Head(Cons(x, s)) = x /\ Tail(Cons(x, s)) = s
         /\ Cons(x, s)[1] = x /\ \A i \in 2..Len(s) + 1 : Cons(x, s)[i] = s[i - 1]
<1> DEFINE t == <<x>> \o s
<1>1. <<x>> \in Seq(S) /\ Len(<<x>>) = 1 /\ <<x>>[1] = x
  OBVIOUS
<1>2. Len(s) \in Nat
  BY LenProperties
<1>3. /\ t \in Seq(S) /\ Len(t) = 1 + Len(s)
      /\ \A i \in 1 .. 1 + Len(s) : t[i] = IF i <= 1 THEN <<x>>[i] ELSE s[i - 1]
  <2>1. t \in Seq(S) /\ Len(t) = Len(<<x>>) + Len(s)
        /\ \A i \in 1 .. Len(<<x>>) + Len(s) : t[i] = IF i <= Len(<<x>>) THEN <<x>>[i] ELSE s[i - Len(<<x>>)]
    BY <1>1, ConcatProperties
  <2> HIDE DEF t
  <2> QED
    BY <1>1, <2>1
<1>4. Cons(x, s) = t
  BY DEF Cons
<1> HIDE DEF t
<1>5. t[1] = x /\ \A i \in 2..Len(s) + 1 : t[i] = s[i - 1]
  BY <1>1, <1>2, <1>3
<1>6. t # <<>>
  BY <1>2, <1>3, EmptySeq
<1>7. /\ Tail(t) \in Seq(S) /\ Len(Tail(t)) = Len(t) - 1
      /\ \A i \in 1 .. Len(Tail(t)) : Tail(t)[i] = t[i + 1]
  BY <1>3, <1>6, HeadTailProperties
<1>8. Tail(t) = s
  <2>1. Len(Tail(t)) = Len(s)
    BY <1>2, <1>3, <1>7
  <2>2. \A i \in 1..Len(Tail(t)) : Tail(t)[i] = s[i]
    BY <1>2, <1>5, <1>7, <2>1
  <2> QED
    BY <1>7, <2>1, <2>2, SeqEqual
<1>9. Head(t) = x
  BY <1>5
<1> QED
  BY <1>2, <1>3, <1>4, <1>5, <1>6, <1>8, <1>9

\* Two elements before the others.
LEMMA ConsTwice ==
  ASSUME NEW S, NEW x \in S, NEW y \in S, NEW s \in Seq(S)
  PROVE  LET r == Cons(x, Cons(y, s))
         IN  /\ r \in Seq(S) /\ Len(r) = Len(s) + 2 /\ r[1] = x /\ r[2] = y
             /\ \A i \in 3..Len(s) + 2 : r[i] = s[i - 2]
<1> DEFINE t == Cons(y, s)
           r == Cons(x, t)
<1>1. Len(s) \in Nat
  BY LenProperties
<1>2. t \in Seq(S) /\ Len(t) = Len(s) + 1 /\ t[1] = y /\ \A i \in 2..Len(s) + 1 : t[i] = s[i - 1]
  BY ConsOK
<1> HIDE DEF t
<1>3. r \in Seq(S) /\ Len(r) = Len(t) + 1 /\ r[1] = x /\ \A i \in 2..Len(t) + 1 : r[i] = t[i - 1]
  <2>1. t \in Seq(S)
    BY <1>2
  <2> QED
    BY <2>1, ConsOK
<1> HIDE DEF r
<1>4. ASSUME NEW i \in 3..Len(s) + 2 PROVE r[i] = s[i - 2]
  <2>1. i \in 2..Len(t) + 1 /\ i - 1 \in 2..Len(s) + 1 /\ i - 1 - 1 = i - 2
    BY <1>1, <1>2
  <2> QED
    BY <1>2, <1>3, <2>1
<1>5. Len(r) = Len(s) + 2 /\ r[2] = y
  <2>1. 2 \in 2..Len(t) + 1 /\ 2 - 1 = 1 /\ Len(s) + 1 + 1 = Len(s) + 2
    BY <1>1, <1>2
  <2> QED
    BY <1>2, <1>3, <2>1
<1> QED
  BY <1>3, <1>4, <1>5 DEF r, t

-----------------------------------------------------------------------------
(***************************************************************************)
(* The chunks of a transfer, one after the other.                          *)
(***************************************************************************)
\* One chunk less: the first is as long as it can be.
LEMMA ChunksStep ==
  ASSUME NEW n \in Nat, NEW size \in Nat \ {0}
  PROVE  /\ ChunksIn(n, size) \in Nat
         /\ n = 0 <=> ChunksIn(n, size) = 0
         /\ n > 0 => ChunksIn(n - AtMost(size, n), size) = ChunksIn(n, size) - 1
         /\ n <= size => ChunksIn(n, size) <= 1
<1>1. ChunksIn(n, size) \in Nat
  BY ChunksOK
<1>2. ASSUME NEW a \in Nat, NEW q \in Nat, q * size <= a, a < q * size + size PROVE a \div size = q
  <2> DEFINE d == a \div size
             r == a % size
  <2>1. d \in Nat /\ r \in Nat /\ r < size /\ a = size * d + r
    BY <1>2
  <2> HIDE DEF d, r
  <2>2. ~(d < q)
    <3>1. SUFFICES ASSUME d < q PROVE FALSE
      OBVIOUS
    <3>2. size * (d + 1) <= size * q /\ size * (d + 1) = size * d + size /\ size * q = q * size
      BY <2>1, <3>1
    <3> QED
      BY <1>2, <2>1, <3>2
  <2>3. ~(d > q)
    <3>1. SUFFICES ASSUME d > q PROVE FALSE
      OBVIOUS
    <3>2. size * (q + 1) <= size * d /\ size * (q + 1) = q * size + size
      BY <2>1, <3>1
    <3> QED
      BY <1>2, <2>1, <3>2
  <2>4. d = q
    BY <2>1, <2>2, <2>3
  <2> QED
    BY <2>4 DEF d
<1>3. n = 0 => ChunksIn(n, size) = 0
  <2>1. (size - 1) \div size = 0
    <3>1. size - 1 \in Nat /\ 0 * size <= size - 1 /\ size - 1 < 0 * size + size
      OBVIOUS
    <3> QED
      BY <1>2, <3>1
  <2> QED
    BY <2>1 DEF ChunksIn
<1>4. n > 0 /\ n <= size => ChunksIn(n, size) = 1
  <2>1. SUFFICES ASSUME n > 0, n <= size PROVE ChunksIn(n, size) = 1
    OBVIOUS
  <2>2. n + size - 1 \in Nat /\ 1 * size <= n + size - 1 /\ n + size - 1 < 1 * size + size
    BY <2>1
  <2> QED
    BY <1>2, <2>2 DEF ChunksIn
<1>5. ASSUME n > size PROVE ChunksIn(n - size, size) = ChunksIn(n, size) - 1 /\ ChunksIn(n, size) > 0
  <2> DEFINE q == ChunksIn(n - size, size)
  <2>1. n - size \in Nat
    BY <1>5
  <2>2. q \in Nat
    BY <2>1, ChunksOK
  <2>3. n - size + size - 1 \in Nat /\ q = (n - size + size - 1) \div size
    BY <1>5 DEF ChunksIn
  <2> HIDE DEF q
  <2>4. q * size <= n - 1 /\ n - 1 < q * size + size
    <3> DEFINE r == (n - 1) % size
    <3>1. q = (n - 1) \div size /\ n - 1 \in Nat
      <4>1. n - size + size - 1 = n - 1
        BY <1>5
      <4> QED
        BY <2>3, <4>1
    <3>2. r \in Nat /\ r < size /\ n - 1 = size * q + r
      BY <3>1
    <3> HIDE DEF r
    <3>3. size * q = q * size
      BY <2>2
    <3>4. q * size \in Nat
      BY <2>2
    <3> QED
      BY <2>2, <3>2, <3>3, <3>4
  <2>5. n + size - 1 \in Nat /\ (q + 1) * size <= n + size - 1 /\ n + size - 1 < (q + 1) * size + size
    <3>1. (q + 1) * size = q * size + size /\ q * size \in Nat
      BY <2>2
    <3> HIDE DEF q
    <3> QED
      BY <2>4, <3>1
  <2>6. ChunksIn(n, size) = q + 1
    <3>1. q + 1 \in Nat
      BY <2>2
    <3>2. (n + size - 1) \div size = q + 1
      BY <1>2, <2>5, <3>1
    <3> QED
      BY <3>2 DEF ChunksIn
  <2> QED
    BY <2>2, <2>6 DEF q
<1>6. ASSUME n > 0 PROVE ChunksIn(n - AtMost(size, n), size) = ChunksIn(n, size) - 1 /\ ChunksIn(n, size) > 0
  <2>1. CASE n <= size
    <3>1. AtMost(size, n) = n
      BY <2>1 DEF AtMost
    <3>2. ChunksIn(0, size) = 0
      <4>1. (size - 1) \div size = 0
        <5>1. size - 1 \in Nat /\ 0 * size <= size - 1 /\ size - 1 < 0 * size + size
          OBVIOUS
        <5> QED
          BY <1>2, <5>1
      <4> QED
        BY <4>1 DEF ChunksIn
    <3> QED
      BY <1>4, <1>6, <2>1, <3>1, <3>2
  <2>2. CASE n > size
    <3>1. AtMost(size, n) = size
      BY <2>2 DEF AtMost
    <3> QED
      BY <1>5, <2>2, <3>1
  <2> QED
    BY <2>1, <2>2
<1> QED
  BY <1>1, <1>3, <1>4, <1>6

\* The later chunks are those of what is left.
LEMMA ChunkShift ==
  ASSUME NEW n \in Nat, NEW size \in Nat \ {0}, NEW k \in Nat, k > 1, k <= ChunksIn(n, size)
  PROVE  /\ AtMost(size, n) = size /\ n - size \in Nat
         /\ (k - 1) * size = size + (k - 1 - 1) * size
         /\ Chunk(n, size, k) = Chunk(n - size, size, k - 1)
<1>1. n > size
  BY ChunksStep
<1>2. (k - 1) * size = size + (k - 1 - 1) * size
  <2> DEFINE j == k - 1 - 1
  <2>1. j \in Nat /\ k - 1 = j + 1
    OBVIOUS
  <2> HIDE DEF j
  <2>2. (j + 1) * size = size + j * size
    BY <2>1
  <2> QED
    BY <2>1, <2>2 DEF j
<1>3. n - (k - 1) * size = n - size - (k - 1 - 1) * size
  <2> DEFINE a == (k - 1) * size
             b == (k - 1 - 1) * size
  <2>1. a = size + b /\ b \in Int
    BY <1>2
  <2> HIDE DEF a, b
  <2>2. n - a = n - size - b
    BY <2>1
  <2> QED
    BY <2>2 DEF a, b
<1>4. AtMost(size, n) = size
  BY <1>1 DEF AtMost
<1> QED
  BY <1>1, <1>2, <1>3, <1>4 DEF Chunk

\* The steps of a read, one by one.
LEMMA ReadingAt ==
  ASSUME NEW n \in Nat, NEW e \in Seq(AnySym)
  PROVE  /\ Reading(n, e) \in Seq(Step) /\ Len(Reading(n, e)) = 2 * ChunksIn(n, rchunk)
         /\ \A j \in 1..2 * ChunksIn(n, rchunk) :
              Reading(n, e)[j] = IF j % 2 = 1 THEN RecvBuffer(Chunk(n, rchunk, (j + 1) \div 2))
                                 ELSE IF j \div 2 < ChunksIn(n, rchunk) THEN Send(<<Code("ACK")>>)
                                 ELSE Tell(<<Code("ACK")>>, e)
<1> DEFINE m == ChunksIn(n, rchunk)
           At(j) == IF j % 2 = 1 THEN RecvBuffer(Chunk(n, rchunk, (j + 1) \div 2))
                    ELSE IF j \div 2 < m THEN Send(<<Code("ACK")>>) ELSE Tell(<<Code("ACK")>>, e)
<1>1. Reading(n, e) = [j \in 1..2 * m |-> At(j)]
  BY DEF Reading, Alternately
<1>2. Reading(n, e) \in Seq(Step) /\ 2 * m \in Nat
  <2>1. m \in Nat
    BY ChunksOK, ChunkAssumption
  <2> HIDE DEF m
  <2> QED
    BY <2>1, ReadingOK
<1> HIDE DEF m, At
<1>3. Len(Reading(n, e)) = 2 * m
  <2>1. DOMAIN Reading(n, e) = 1..2 * m
    BY <1>1
  <2> QED
    BY <1>2, <2>1, LenProperties
<1>4. \A j \in 1..2 * m : Reading(n, e)[j] = At(j)
  BY <1>1
<1> QED
  BY <1>2, <1>3, <1>4 DEF m, At

\* A read is its first chunk, the ACK of that, and the read of the rest.
LEMMA ReadingSplit ==
  ASSUME NEW n \in Nat, n > 0, NEW e \in Seq(AnySym)
  PROVE  LET k == AtMost(rchunk, n)
         IN  /\ Reading(n, e) = Cons(RecvBuffer(k), Cons(Acking(n - k, e), Reading(n - k, e)))
             /\ k \in Nat /\ k > 0 /\ k <= n /\ n - k \in Nat
             /\ Acking(n - k, e) \in Step /\ RecvBuffer(k) \in Step
<1> DEFINE k == AtMost(rchunk, n)
           m == ChunksIn(n, rchunk)
           s == Reading(n - k, e)
           r == Cons(RecvBuffer(k), Cons(Acking(n - k, e), s))
<1>1. k \in Nat /\ k > 0 /\ k <= n /\ n - k \in Nat
  BY ChunkAssumption DEF AtMost
<1>2. m \in Nat /\ m > 0 /\ ChunksIn(n - k, rchunk) = m - 1 /\ (n - k = 0 <=> m - 1 = 0)
  <2>1. m \in Nat /\ (n = 0 <=> m = 0) /\ ChunksIn(n - k, rchunk) = m - 1
    BY ChunksStep, ChunkAssumption
  <2>2. n - k = 0 <=> ChunksIn(n - k, rchunk) = 0
    BY <1>1, ChunksStep, ChunkAssumption
  <2> HIDE DEF k, m
  <2> QED
    BY <1>1, <2>1, <2>2
<1>3. Acking(n - k, e) \in Step
  <2>1. <<Code("ACK")>> \in Seq(AnyByte)
    BY BytesOK, ShortOK DEF Codes
  <2>2. Send(<<Code("ACK")>>) \in Step /\ Tell(<<Code("ACK")>>, e) \in Step
    BY <2>1, SendOK
  <2> QED
    BY <2>2 DEF Acking
<1>4. RecvBuffer(k) \in Step
  BY <1>1, WaitOK
<1>5. s \in Seq(Step) /\ Len(s) = 2 * (m - 1)
  BY <1>1, <1>2, ReadingAt
<1>6. /\ r \in Seq(Step) /\ Len(r) = 2 * m /\ r[1] = RecvBuffer(k) /\ r[2] = Acking(n - k, e)
      /\ \A i \in 3..2 * m : r[i] = s[i - 2]
  <2>1. /\ r \in Seq(Step) /\ Len(r) = Len(s) + 2 /\ r[1] = RecvBuffer(k) /\ r[2] = Acking(n - k, e)
        /\ \A i \in 3..Len(s) + 2 : r[i] = s[i - 2]
    <3> DEFINE x == RecvBuffer(k)
               y == Acking(n - k, e)
    <3>1. x \in Step /\ y \in Step /\ s \in Seq(Step)
      BY <1>3, <1>4, <1>5
    <3> HIDE DEF s, x, y
    <3>2. LET z == Cons(x, Cons(y, s))
          IN  /\ z \in Seq(Step) /\ Len(z) = Len(s) + 2 /\ z[1] = x /\ z[2] = y
              /\ \A i \in 3..Len(s) + 2 : z[i] = s[i - 2]
      BY <3>1, ConsTwice
    <3> QED
      BY <3>2 DEF x, y
  <2>2. Len(s) + 2 = 2 * m
    BY <1>2, <1>5
  <2> HIDE DEF r, s
  <2> QED
    BY <2>1, <2>2
<1>8. /\ Reading(n, e) \in Seq(Step) /\ Len(Reading(n, e)) = 2 * m
      /\ \A j \in 1..2 * m :
           Reading(n, e)[j] = IF j % 2 = 1 THEN RecvBuffer(Chunk(n, rchunk, (j + 1) \div 2))
                              ELSE IF j \div 2 < m THEN Send(<<Code("ACK")>>)
                              ELSE Tell(<<Code("ACK")>>, e)
  BY ReadingAt
<1>9. ASSUME NEW j \in 1..2 * m PROVE Reading(n, e)[j] = r[j]
  <2>1. CASE j = 1
    <3>1. Chunk(n, rchunk, 1) = k
      <4>1. (1 - 1) * rchunk = 0 /\ n - 0 = n
        BY ChunkAssumption
      <4> QED
        BY <4>1 DEF Chunk
    <3>2. (1 + 1) \div 2 = 1 /\ 1 % 2 = 1
      OBVIOUS
    <3> QED
      BY <1>6, <1>8, <2>1, <3>1, <3>2
  <2>2. CASE j = 2
    <3>1. 2 % 2 # 1 /\ 2 \div 2 = 1
      OBVIOUS
    <3>2. r[2] = Acking(n - k, e)
      BY <1>6
    <3>3. 1 < m <=> n - k > 0
      <4> HIDE DEF k, m
      <4> QED
        BY <1>1, <1>2
    <3> QED
      BY <1>8, <2>2, <3>1, <3>2, <3>3 DEF Acking
  <2>3. CASE j > 2
    <3> DEFINE i == j - 2
    <3>1. i \in 1..2 * (m - 1) /\ j \in 3..2 * m
      BY <1>2, <2>3
    <3>2. r[j] = s[i]
      BY <1>6, <3>1
    <3>3. s[i] = IF i % 2 = 1 THEN RecvBuffer(Chunk(n - k, rchunk, (i + 1) \div 2))
                 ELSE IF i \div 2 < m - 1 THEN Send(<<Code("ACK")>>)
                 ELSE Tell(<<Code("ACK")>>, e)
      BY <1>1, <1>2, <3>1, ReadingAt
    <3>4. i % 2 = j % 2 /\ i \div 2 = j \div 2 - 1 /\ (i + 1) \div 2 = (j + 1) \div 2 - 1
      BY <3>1
    <3>5. j \div 2 \in Nat /\ (i \div 2 < m - 1 <=> j \div 2 < m)
      BY <1>2, <3>1, <3>4
    <3>6. ASSUME j % 2 = 1 PROVE Chunk(n, rchunk, (j + 1) \div 2) = Chunk(n - k, rchunk, (i + 1) \div 2)
      <4> DEFINE h == (j + 1) \div 2
      <4>1. h \in Nat /\ h > 1 /\ h <= m
        BY <1>2, <3>1, <3>6
      <4>2. (i + 1) \div 2 = h - 1
        BY <3>4
      <4> HIDE DEF h
      <4>3. AtMost(rchunk, n) = rchunk /\ Chunk(n, rchunk, h) = Chunk(n - rchunk, rchunk, h - 1)
        BY <4>1, ChunkShift, ChunkAssumption
      <4> QED
        BY <4>2, <4>3 DEF h
    <3> HIDE DEF i, r, s
    <3> QED
      BY <1>8, <3>2, <3>3, <3>4, <3>5, <3>6
  <2> QED
    BY <2>1, <2>2, <2>3
<1>10. Reading(n, e) = r
  <2> HIDE DEF r
  <2> QED
    BY <1>6, <1>8, <1>9, SeqEqual
<1> QED
  BY <1>1, <1>3, <1>4, <1>10

\* Nothing to read is nothing to do.
LEMMA ReadingNone ==
  ASSUME NEW e \in Seq(AnySym)
  PROVE  Reading(0, e) = <<>>
<1>1. ChunksIn(0, rchunk) = 0
  BY ChunksStep, ChunkAssumption
<1> QED
  BY <1>1, ReadingAt, EmptySeq

\* The j-th step of a write.
WriteStep(id, o, n, size, j) ==
  IF j % 2 = 1 THEN Chunked(id, o + ((j + 1) \div 2 - 1) * size, Chunk(n, size, (j + 1) \div 2))
  ELSE Echo("ACK")

\* The steps of a write, one by one.
LEMMA WritingAt ==
  ASSUME NEW id \in Nat, NEW o \in Nat, NEW n \in Nat, NEW size \in Nat \ {0}
  PROVE  /\ WritingFrom(id, o, n, size) \in Seq(Step)
         /\ Len(WritingFrom(id, o, n, size)) = 2 * ChunksIn(n, size)
         /\ \A j \in 1..2 * ChunksIn(n, size) :
              WritingFrom(id, o, n, size)[j] = WriteStep(id, o, n, size, j)
<1> DEFINE m == ChunksIn(n, size)
           Sent(k) == Chunked(id, o + (k - 1) * size, Chunk(n, size, k))
           At(j) == IF j % 2 = 1 THEN Sent((j + 1) \div 2) ELSE Echo("ACK")
           w == WritingFrom(id, o, n, size)
<1>1. m \in Nat
  BY ChunksOK
<1>2. ASSUME NEW k \in 1..m PROVE Sent(k) \in Step
  <2> DEFINE c == Chunk(n, size, k)
             d == (k - 1) * size
             bytes == [i \in 1..c |-> Data(id, o + d + i)]
  <2>1. c \in Nat /\ d \in Nat
    BY ChunksOK
  <2> HIDE DEF c, d
  <2>2. \A i \in 1..c : o + d + i \in Nat
    BY <2>1
  <2>3. bytes \in [1..c -> AnyByte]
    BY <2>2, BytesOK
  <2>4. bytes \in Seq(AnyByte) /\ <<>> \in Seq(AnySym)
    BY <2>1, <2>3, TableOK, EmptySeq
  <2>5. Tell(bytes, <<>>) \in Step
    BY <2>4, SendOK
  <2> QED
    BY <2>5 DEF c, d, Chunked
<1>3. Echo("ACK") \in Step
  BY WaitOK DEF Codes
<1>4. w = [j \in 1..2 * m |-> At(j)]
  BY DEF WritingFrom, Alternately
<1> HIDE DEF m, Sent, w
<1>5. w \in [1..2 * m -> Step]
  <2>1. ASSUME NEW j \in 1..2 * m, j % 2 = 1 PROVE Sent((j + 1) \div 2) \in Step
    BY <1>1, <1>2, <2>1, HalfOK
  <2> QED
    BY <1>3, <1>4, <2>1
<1>6. w \in Seq(Step) /\ Len(w) = 2 * m
  BY <1>1, <1>5, TableOK
<1>7. \A j \in 1..2 * m : w[j] = At(j)
  BY <1>4
<1> QED
  BY <1>6, <1>7 DEF m, Sent, w, WriteStep

\* The steps of the data, each at its place.
LEMMA WritesAt ==
  \A id \in Nat, o \in Nat, n \in Nat, size \in Nat \ {0} :
    \A j \in 1..2 * ChunksIn(n, size) : WritingFrom(id, o, n, size)[j] = WriteStep(id, o, n, size, j)
BY WritingAt

\* The whole of the data.
LEMMA WritingAll ==
  ASSUME NEW id \in Nat, NEW n \in Nat, NEW size \in Nat \ {0}
  PROVE  Writing(id, n, size) = WritingFrom(id, 0, n, size)
<1> DEFINE m == ChunksIn(n, size)
           Sent(k) == Tell([i \in 1..Chunk(n, size, k) |-> Data(id, (k - 1) * size + i)], <<>>)
           From0(k) == Chunked(id, 0 + (k - 1) * size, Chunk(n, size, k))
<1>1. m \in Nat
  BY ChunksOK
<1>2. ASSUME NEW k \in 1..m PROVE Sent(k) = From0(k)
  <2> DEFINE d == (k - 1) * size
  <2>1. d \in Nat
    BY ChunksOK
  <2> HIDE DEF d
  <2>2. \A i \in 1..Chunk(n, size, k) : d + i = 0 + d + i
    BY <2>1
  <2>3. [i \in 1..Chunk(n, size, k) |-> Data(id, d + i)] = [i \in 1..Chunk(n, size, k) |-> Data(id, 0 + d + i)]
    BY <2>2, Zenon
  <2> QED
    BY <2>3 DEF d, Chunked
<1>3. /\ Writing(id, n, size) = [j \in 1..2 * m |-> IF j % 2 = 1 THEN Sent((j + 1) \div 2) ELSE Echo("ACK")]
      /\ WritingFrom(id, 0, n, size) =
           [j \in 1..2 * m |-> IF j % 2 = 1 THEN From0((j + 1) \div 2) ELSE Echo("ACK")]
  BY DEF Writing, WritingFrom, Alternately
<1> HIDE DEF m, Sent, From0
<1>4. ASSUME NEW j \in 1..2 * m, j % 2 = 1 PROVE Sent((j + 1) \div 2) = From0((j + 1) \div 2)
  BY <1>1, <1>2, <1>4, HalfOK
<1> QED
  BY <1>3, <1>4

\* A write is its first chunk, the wait for its ACK, and the write of the rest.
LEMMA WritingSplit ==
  ASSUME NEW id \in Nat, NEW o \in Nat, NEW n \in Nat, n > 0, NEW size \in Nat \ {0}
  PROVE  LET k == AtMost(size, n)
         IN  /\ WritingFrom(id, o, n, size) =
                  Cons(Chunked(id, o, k), Cons(Echo("ACK"), WritingFrom(id, o + k, n - k, size)))
             /\ k \in Nat /\ k > 0 /\ k <= n /\ n - k \in Nat /\ o + k \in Nat
             /\ Chunked(id, o, k) \in Step
<1> DEFINE k == AtMost(size, n)
           m == ChunksIn(n, size)
           x == Chunked(id, o, k)
           y == Echo("ACK")
           w == WritingFrom(id, o, n, size)
           s == WritingFrom(id, o + k, n - k, size)
           r == Cons(x, Cons(y, s))
<1>1. k \in Nat /\ k > 0 /\ k <= n /\ n - k \in Nat /\ o + k \in Nat
  BY DEF AtMost
<1>2. m \in Nat /\ m > 0 /\ ChunksIn(n - k, size) = m - 1
  <2>1. m \in Nat /\ (n = 0 <=> m = 0) /\ ChunksIn(n - k, size) = m - 1
    BY ChunksStep
  <2> HIDE DEF k, m
  <2> QED
    BY <1>1, <2>1
<1>3. /\ w \in Seq(Step) /\ Len(w) = 2 * m
      /\ \A j \in 1..2 * m :
           w[j] = WriteStep(id, o, n, size, j)
  <2>1. w \in Seq(Step) /\ Len(w) = 2 * m
    BY WritingAt
  <2>2. \A j \in 1..2 * m : w[j] = WriteStep(id, o, n, size, j)
    BY WritingAt
  <2> HIDE DEF w, m
  <2> QED
    BY <2>1, <2>2
<1>4. /\ s \in Seq(Step) /\ Len(s) = 2 * (m - 1)
      /\ \A j \in 1..2 * (m - 1) :
           s[j] = WriteStep(id, o + k, n - k, size, j)
  <2>1. /\ s \in Seq(Step) /\ Len(s) = 2 * ChunksIn(n - k, size)
        /\ \A j \in 1..2 * ChunksIn(n - k, size) :
             s[j] = WriteStep(id, o + k, n - k, size, j)
    <3> DEFINE a == o + k
               b == n - k
               v == WritingFrom(id, a, b, size)
    <3>1. a \in Nat /\ b \in Nat
      BY <1>1
    <3> HIDE DEF a, b
    <3>2. v \in Seq(Step) /\ Len(v) = 2 * ChunksIn(b, size)
      BY <3>1, WritingAt
    <3>3. \A j \in 1..2 * ChunksIn(b, size) : v[j] = WriteStep(id, a, b, size, j)
      BY <3>1, WritesAt
    <3> QED
      BY <3>2, <3>3 DEF a, b
  <2> HIDE DEF s, y, k
  <2> QED
    BY <1>2, <2>1
<1>5. w[1] = x
  <2>1. Chunk(n, size, 1) = k /\ (1 - 1) * size = 0
    <3>1. (1 - 1) * size = 0 /\ n - 0 = n
      OBVIOUS
    <3> QED
      BY <3>1 DEF Chunk
  <2>2. (1 + 1) \div 2 = 1 /\ 1 % 2 = 1 /\ 1 \in 1..2 * m /\ o + 0 = o
    BY <1>2
  <2> HIDE DEF w, k
  <2> QED
    BY <1>3, <2>1, <2>2 DEF WriteStep
<1>6. x \in Step /\ y \in Step
  <2>1. 1 \in 1..Len(w)
    BY <1>2, <1>3
  <2>2. y \in Step
    BY WaitOK DEF Codes
  <2> HIDE DEF w, x, y
  <2> QED
    BY <1>3, <1>5, <2>1, <2>2, ElementOfSeq
<1>7. /\ r \in Seq(Step) /\ Len(r) = 2 * m /\ r[1] = x /\ r[2] = y
      /\ \A i \in 3..2 * m : r[i] = s[i - 2]
  <2>1. /\ r \in Seq(Step) /\ Len(r) = Len(s) + 2 /\ r[1] = x /\ r[2] = y
        /\ \A i \in 3..Len(s) + 2 : r[i] = s[i - 2]
    <3>1. x \in Step /\ y \in Step /\ s \in Seq(Step)
      BY <1>4, <1>6
    <3> HIDE DEF s, x, y
    <3> QED
      BY <3>1, ConsTwice
  <2>2. Len(s) + 2 = 2 * m
    <3>1. Len(s) = 2 * (m - 1)
      BY <1>4
    <3> HIDE DEF s, m
    <3> QED
      BY <1>2, <3>1
  <2> HIDE DEF r, s
  <2> QED
    BY <2>1, <2>2
<1>8. ASSUME NEW j \in 1..2 * m PROVE w[j] = r[j]
  <2>1. CASE j = 1
    BY <1>5, <1>7, <2>1
  <2>2. CASE j = 2
    <3>1. 2 % 2 # 1
      OBVIOUS
    <3> HIDE DEF w, r
    <3> QED
      BY <1>3, <1>7, <2>2, <3>1 DEF WriteStep
  <2>3. CASE j > 2
    <3> DEFINE i == j - 2
               h == (j + 1) \div 2
               p == Chunked(id, o + (h - 1) * size, Chunk(n, size, h))
               q == Chunked(id, o + k + (h - 1 - 1) * size, Chunk(n - k, size, h - 1))
    <3>1. i \in 1..2 * (m - 1) /\ j \in 3..2 * m
      BY <1>2, <2>3
    <3>2. r[j] = s[i]
      <4> HIDE DEF r, s
      <4> QED
        BY <1>7, <3>1
    <3>3. i % 2 = j % 2 /\ (i + 1) \div 2 = h - 1 /\ h \in Nat /\ h > 1 /\ (j % 2 = 1 => h <= m)
      BY <1>2, <3>1
    <3>4. ASSUME j % 2 = 1 PROVE p = q
      <4> DEFINE d == (h - 1 - 1) * size
                 c == (h - 1) * size
                 l == Chunk(n, size, h)
      <4>1. k = size /\ c = size + d /\ l = Chunk(n - k, size, h - 1)
        <5>1. h <= m
          BY <3>3, <3>4
        <5> HIDE DEF h
        <5>2. AtMost(size, n) = size /\ c = size + d /\ l = Chunk(n - size, size, h - 1)
          BY <3>3, <5>1, ChunkShift
        <5> QED
          BY <5>2
      <4>2. d \in Nat
        BY <3>3
      <4>3. o + c = o + k + d
        <5> HIDE DEF c, d, k
        <5> QED
          BY <4>1, <4>2
      <4>4. p = Chunked(id, o + c, l) /\ q = Chunked(id, o + k + d, Chunk(n - k, size, h - 1))
        BY DEF c, d, l
      <4> HIDE DEF p, q, c, d, k, l
      <4> QED
        BY <4>1, <4>3, <4>4
    <3>5. w[j] = IF j % 2 = 1 THEN p ELSE y
      <4>1. w[j] = WriteStep(id, o, n, size, j)
        BY <1>3
      <4> HIDE DEF w
      <4> QED
        BY <4>1 DEF WriteStep
    <3>6. s[i] = IF j % 2 = 1 THEN q ELSE y
      <4>1. s[i] = WriteStep(id, o + k, n - k, size, i)
        <5> HIDE DEF i, s
        <5> QED
          BY <1>4, <3>1
      <4> HIDE DEF i, h, s, k
      <4> QED
        BY <3>3, <4>1 DEF WriteStep
    <3> HIDE DEF i, r, s, w, k, h, p, q, y
    <3> QED
      BY <3>2, <3>4, <3>5, <3>6
  <2> QED
    BY <2>1, <2>2, <2>3
<1>9. w = r
  <2> HIDE DEF r, w
  <2> QED
    BY <1>3, <1>7, <1>8, SeqEqual
<1> QED
  BY <1>1, <1>6, <1>9

\* Nothing to write is nothing to do.
LEMMA WritingNone ==
  ASSUME NEW id \in Nat, NEW o \in Nat, NEW size \in Nat \ {0}
  PROVE  WritingFrom(id, o, 0, size) = <<>>
<1>1. ChunksIn(0, size) = 0
  BY ChunksStep
<1> QED
  BY <1>1, WritingAt, EmptySeq

\* One element before two sequences.
LEMMA ConsConcat ==
  ASSUME NEW S, NEW x \in S, NEW s \in Seq(S), NEW t \in Seq(S)
  PROVE  Cons(x, s) \o t = Cons(x, s \o t)
<1>1. <<x>> \in Seq(S)
  OBVIOUS
<1> QED
  BY <1>1, ConcatAssociative DEF Cons

\* A write that has more to follow begins with a chunk of its data and the wait for its ACK.
BeginsWriting(id, o, n, size, more) ==
  \E k \in Nat, rest \in Seq(Step) :
    /\ WritingFrom(id, o, n, size) \o more = Cons(Chunked(id, o, k), Cons(Echo("ACK"), rest))
    /\ k = AtMost(size, n) /\ rest = WritingFrom(id, o + k, n - k, size) \o more
    /\ Chunked(id, o, k) \in Step /\ k > 0 /\ k <= n /\ n - k \in Nat /\ o + k \in Nat

\* And so it does.
LEMMA WritingMore ==
  ASSUME NEW id \in Nat, NEW o \in Nat, NEW n \in Nat, n > 0, NEW size \in Nat \ {0}, NEW more \in Seq(Step)
  PROVE  BeginsWriting(id, o, n, size, more)
<1> DEFINE k == AtMost(size, n)
           s == WritingFrom(id, o + k, n - k, size)
           chunk == Chunked(id, o, k)
           y == Echo("ACK")
           w == WritingFrom(id, o, n, size)
           rest == s \o more
<1>1. w = Cons(chunk, Cons(y, s)) /\ chunk \in Step
  <2>1. w = Cons(chunk, Cons(y, s))
    BY WritingSplit
  <2>2. chunk \in Step
    BY WritingSplit
  <2> QED
    BY <2>1, <2>2
<1>2. k \in Nat /\ k > 0 /\ k <= n /\ n - k \in Nat /\ o + k \in Nat
  BY WritingSplit
<1>3. k = AtMost(size, n)
  OBVIOUS
<1> HIDE DEF k
<1>4. s \in Seq(Step)
  BY <1>2, WritingAt
<1>5. y \in Step
  BY WaitOK DEF Codes
<1>6. s = WritingFrom(id, o + k, n - k, size) /\ chunk = Chunked(id, o, k) /\ y = Echo("ACK")
  OBVIOUS
<1> HIDE DEF s, chunk, y
<1>7. rest \in Seq(Step) /\ Cons(y, s) \in Seq(Step)
  BY <1>4, <1>5, ConcatProperties, ConsOK
<1>8. Cons(chunk, Cons(y, s)) \o more = Cons(chunk, Cons(y, s) \o more)
  <2> DEFINE q == Cons(y, s)
  <2>1. q \in Seq(Step) /\ chunk \in Step
    BY <1>1, <1>7
  <2> HIDE DEF q
  <2>2. Cons(chunk, q) \o more = Cons(chunk, q \o more)
    BY <2>1, ConsConcat
  <2> QED
    BY <2>2 DEF q
<1>9. Cons(y, s) \o more = Cons(y, rest)
  BY <1>4, <1>5, ConsConcat
<1>10. w \o more = Cons(chunk, Cons(y, rest)) /\ rest = s \o more /\ w = WritingFrom(id, o, n, size)
  BY <1>1, <1>8, <1>9
<1> HIDE DEF w, rest
<1>11. WritingFrom(id, o, n, size) \o more = Cons(Chunked(id, o, k), Cons(Echo("ACK"), rest))
  BY <1>6, <1>10
<1>12. rest = WritingFrom(id, o + k, n - k, size) \o more
  BY <1>6, <1>10
<1> QED
  BY <1>1, <1>2, <1>3, <1>6, <1>7, <1>11, <1>12 DEF BeginsWriting

-----------------------------------------------------------------------------
(***************************************************************************)
(* What the sketch does with what it gets, and what it sends.              *)
(***************************************************************************)
\* A byte or two, or none.
LEMMA ShortLists ==
  /\ Listed(<<>>) /\ Len(<<>>) = 0
  /\ \A x : Listed(<<x>>) /\ Len(<<x>>) = 1 /\ <<x>>[1] = x /\ <<x>> # <<>>
  /\ \A x, y : Listed(<<x, y>>) /\ Len(<<x, y>>) = 2 /\ <<x, y>>[1] = x
<1>1. Listed(<<>>) /\ Len(<<>>) = 0
  BY EmptySeq, ListedOK
<1>2. ASSUME NEW x PROVE Listed(<<x>>) /\ Len(<<x>>) = 1 /\ <<x>>[1] = x /\ <<x>> # <<>>
  <2>1. <<x>> \in Seq({x})
    BY ShortOK
  <2> QED
    BY <2>1, ListedOK
<1>3. ASSUME NEW x, NEW y PROVE Listed(<<x, y>>) /\ Len(<<x, y>>) = 2 /\ <<x, y>>[1] = x
  <2>1. <<x, y>> \in Seq({x, y})
    BY ShortOK
  <2> QED
    BY <2>1, ListedOK
<1> QED
  BY <1>1, <1>2, <1>3

\* Where the sketch is after a handler that is over.
LEMMA LoopingAt == \A p : Looping(p).at = "loop"
BY DEF Looping, PowerUp

\* Codes are no numbers, no data and nothing of the chip.
LEMMA CodesOK ==
  \A c \in Codes : ~NoCode(Code(c)) /\ Code(c)[1] = c /\ c \notin {"num", "data", "chip", "ERROR_RECV", "ERROR_NO_CMD"}
BY DEF Codes, NoCode, Code

\* A command with a header.
LEMMA ParsesHeader ==
  ASSUME NEW f, FwOK(f), NEW cmd \in DOMAIN HeadLen
  PROVE  /\ ParseCommand(f, cmd).fw.at = "head" /\ ParseCommand(f, cmd).fw.cmd = cmd
         /\ ParseCommand(f, cmd).out = <<>>
<1>1. ParseCommand(f, cmd) = Goes([f EXCEPT !.at = "head", !.cmd = cmd], <<>>)
  BY DEF ParseCommand, HeadLen
<1> DEFINE g == [f EXCEPT !.at = "head", !.cmd = cmd]
<1>2. g.at = "head" /\ g.cmd = cmd
  BY DEF FwOK, Counting, FwFields
<1> HIDE DEF g
<1>3. ParseCommand(f, cmd) = [fw |-> g, out |-> <<>>]
  BY <1>1 DEF Goes, g
<1> QED
  BY <1>2, <1>3

\* A command without, or what is taken for one.
LEMMA ParsesPlain ==
  ASSUME NEW f, FwOK(f), NEW cmd, cmd \notin DOMAIN HeadLen, NEW r, r = ParseCommand(f, cmd)
  PROVE  /\ r.fw.at = "loop" /\ Listed(r.out)
         /\ Len(r.out) <= 1 \/ (Len(r.out) = 2 /\ r.out[1] = Code("MW_BUSY"))
         /\ cmd \in Told => r.out = <<>>
         /\ cmd = "MW_BUSY" => Len(r.out) = 2
<1> DEFINE p == f.pins
<1>1. CASE cmd \in Told
  <2>1. \E q : r = Reply(q, <<>>)
    BY <1>1 DEF ParseCommand, Told, HeadLen
  <2>2. r.fw.at = "loop" /\ r.out = <<>>
    BY <2>1, LoopingAt DEF Reply, Goes
  <2> QED
    BY <1>1, <2>2, ShortLists DEF Told
<1>2. CASE cmd = "MW_BUSY"
  <2> DEFINE h == [f EXCEPT !.cmd = cmd]
             q == mwBusy(p)
  <2>1. r = OneByte(h, q)
    BY <1>2 DEF ParseCommand, HeadLen
  <2>2. h.cmd = "MW_BUSY"
    BY <1>2 DEF FwOK, Counting, FwFields
  <2> HIDE DEF h, q
  <2>3. r = Goes(Looping(q), <<Code("MW_BUSY"), Chip(Place(h.pins, q))>>)
    BY <2>1, <2>2 DEF OneByte, Reply
  <2>4. r.fw = Looping(q) /\ \E x : r.out = <<Code("MW_BUSY"), x>>
    BY <2>3 DEF Goes
  <2>5. Listed(r.out) /\ Len(r.out) = 2 /\ r.out[1] = Code("MW_BUSY")
    BY <2>4, ShortLists
  <2>6. r.fw.at = "loop"
    BY <2>4, LoopingAt
  <2> QED
    BY <1>2, <2>5, <2>6 DEF Told
<1>3. CASE cmd \notin Told /\ cmd # "MW_BUSY"
  <2>1. \E q, x : r = Reply(q, <<x>>)
    BY <1>3 DEF ParseCommand, Told
  <2>2. r.fw.at = "loop" /\ \E x : r.out = <<x>>
    BY <2>1, LoopingAt DEF Reply, Goes
  <2> QED
    BY <1>3, <2>2, ShortLists
<1> QED
  BY <1>1, <1>2, <1>3

\* A chunk read is taken off the counter; no more than it is sent.
LEMMA ReadsChunk ==
  ASSUME NEW f, Counting(f), NEW r, r = ReadChunk(f), NEW n, n = AtMost(rchunk, f.left)
  PROVE  /\ Listed(r.out)
         /\ f.left = 0 => r.fw.at = "loop" /\ r.out = <<>>
         /\ f.left > 0 => r.fw.at = "ack" /\ r.fw.left = f.left - n /\ Len(r.out) <= n
<1> DEFINE StepOf(p, i) == ReadByte(f.cmd, p, i = f.left)
           after == After(f.pins, n, StepOf)
           bytes == [i \in 1..n |-> Chip(Place(after[i - 1], after[i]))]
           g == [On(f, after[n]) EXCEPT !.left = @ - n, !.at = "ack"]
           out == IF after[n].hung THEN <<>> ELSE bytes
<1>1. n \in Nat /\ (f.left > 0 => n > 0) /\ (f.left = 0 => n = 0)
  BY ChunkAssumption DEF Counting, AtMost
<1>2. r = IF n = 0 THEN Goes(Finished(f), <<>>) ELSE Goes(g, out)
  BY DEF ReadChunk
<1>3. bytes \in Seq({bytes[i] : i \in 1..n}) /\ Len(bytes) = n
  <2> HIDE DEF after
  <2>1. bytes \in [1..n -> {bytes[i] : i \in 1..n}]
    OBVIOUS
  <2> HIDE DEF bytes
  <2> QED
    BY <1>1, <2>1, TableOK
<1>4. Listed(out) /\ Len(out) <= n
  <2> HIDE DEF bytes, after
  <2> QED
    BY <1>1, <1>3, ListedOK, ShortLists
<1> HIDE DEF out, after
<1>5. g.at = "ack" /\ g.left = f.left - n
  <2> QED
    BY DEF Counting, FwFields, On
<1>6. CASE f.left = 0
  <2>1. r = Goes(Finished(f), <<>>)
    BY <1>1, <1>2, <1>6
  <2>2. r.fw = Finished(f) /\ r.out = <<>>
    BY <2>1 DEF Goes
  <2> HIDE DEF g
  <2> QED
    BY <1>6, <2>2, LoopingAt, ShortLists DEF Finished
<1>7. CASE f.left > 0
  <2>1. r = Goes(g, out)
    BY <1>1, <1>2, <1>7
  <2>2. r.fw = g /\ r.out = out
    BY <2>1 DEF Goes
  <2> HIDE DEF g
  <2> QED
    BY <1>4, <1>5, <1>7, <2>2
<1>8. f.left \in Nat
  BY DEF Counting
<1> QED
  BY <1>6, <1>7, <1>8

\* The chunk the sketch takes is the one the host sends.
LEMMA SameChunk ==
  ASSUME NEW f, FwOK(f), Fits(f.cmd, f.left)
  PROVE  /\ ChunkToCome(f) = AtMost(SizeOf(f.cmd), f.left) /\ SizeOf(f.cmd) \in Nat \ {0}
         /\ \A n \in Nat : n <= f.left => Fits(f.cmd, n)
BY ChunkAssumption DEF FwOK, Counting, Fits, SizeOf, ChunkToCome, AtMost

\* A chunk written whole is acknowledged, unless the sketch hangs.
LEMMA WritesChunk ==
  ASSUME NEW f, FwOK(f), f.at = "data", f.left > 0, NEW bytes \in Seq(AnyByte), bytes # <<>>,
         NEW k \in Nat, Len(bytes) = k, k <= f.left, NEW r, r = Written(f, bytes)
  PROVE  \/ r.out = <<>> /\ r.fw.at = "data"
         \/ /\ r.out = <<Code("ACK")>>
            /\ \/ f.left - k = 0 /\ r.fw.at = "loop"
               \/ f.left - k > 0 /\ r.fw.at = "data" /\ r.fw.left = f.left - k /\ r.fw.cmd = f.cmd
<1> DEFINE n == ChunkToCome(f)
           StepOf(p, i) == WriteByte(f, p, i, IF i <= Len(bytes) THEN OnWire(bytes[i]) ELSE Stale)
           m == Clocked(f, n)
           q == After(f.pins, m, StepOf)[m]
           g == [On(f, q) EXCEPT !.left = @ - Len(bytes), !.bits = BitsLeft(@, n), !.at = "data"]
<1>1. r = IF g.pins.hung THEN Goes(g, <<>>) ELSE Answered(g, bytes)
  BY DEF Written
<1> HIDE DEF q, n
<1>2. g.at = "data" /\ g.left = f.left - k /\ g.cmd = f.cmd
  BY DEF FwOK, Counting, FwFields, On
<1> HIDE DEF g
<1>3. CASE g.pins.hung
  BY <1>1, <1>2, <1>3 DEF Goes
<1>4. CASE ~g.pins.hung
  <2>1. r = Goes(IF g.left = 0 THEN Finished(g) ELSE g, <<Code("ACK")>>)
    BY <1>1, <1>4 DEF Answered
  <2>2. r.out = <<Code("ACK")>> /\ r.fw = IF g.left = 0 THEN Finished(g) ELSE g
    BY <2>1 DEF Goes
  <2>3. Finished(g).at = "loop"
    BY LoopingAt DEF Finished
  <2>4. f.left - k \in Nat
    BY DEF FwOK, Counting
  <2> QED
    BY <1>2, <2>2, <2>3, <2>4
<1> QED
  BY <1>3, <1>4

\* A header without what it needs is refused.
LEMMA HeaderShort ==
  ASSUME NEW f, f.at = "head", NEW b \in Seq(AnyByte), Len(b) < HeadLen[f.cmd], NEW r, r = Headed(f, b)
  PROVE  r.fw.at = "loop" /\ r.out = <<Code("ERROR_RECV")>>
<1>1. r = Reply(f.pins, <<Code("ERROR_RECV")>>)
  BY DEF Headed
<1> QED
  BY <1>1, LoopingAt DEF Reply, Goes

\* A header of a read, with a as its arguments, has been served by r.
ReadBegun(f, a, r) ==
  \E g : /\ Counting(g) /\ g.left = Count(a)
         /\ r.fw = ReadChunk(g).fw /\ r.out = <<Code(f.cmd)>> \o ReadChunk(g).out

\* A header of a read.
LEMMA HeaderRead ==
  ASSUME NEW f, FwOK(f), f.at = "head", NEW a \in Seq(AnyByte), f.cmd \in Readers, Len(a) = 3,
         NEW r, r = Headed(f, a)
  PROVE  Count(a) \in Nat /\ ReadBegun(f, a, r)
<1> DEFINE n == Length(a[2], a[3])
<1>1. Count(a) = n /\ n \in Nat
  <2>1. a[2] \in AnyByte /\ a[3] \in AnyByte
    <3>1. \A i \in 1..Len(a) : a[i] \in AnyByte
      BY ElementOfSeq, Zenon
    <3>2. 2 \in 1..Len(a) /\ 3 \in 1..Len(a)
      OBVIOUS
    <3> QED
      BY <3>1, <3>2, Zenon
  <2> QED
    BY <2>1, NumOfNat DEF Count, Length
<1>2. PICK p, cs : r = Transfer(f, p, cs, a[2], a[3], 0)
  <2>1. ~(Len(a) < HeadLen[f.cmd])
    BY DEF HeadLen, Readers
  <2>2. CASE f.cmd = "SPI_READ"
    BY <2>1, <2>2 DEF Headed
  <2>3. CASE f.cmd = "I2C_READ"
    BY <2>1, <2>3 DEF Headed
  <2>4. CASE f.cmd = "MW_READ"
    BY <2>1, <2>4 DEF Headed
  <2> QED
    BY <2>2, <2>3, <2>4 DEF Readers
<1> DEFINE g == [On(f, p) EXCEPT !.cs = cs, !.left = n, !.bits = 0, !.at = "data"]
           s == ReadChunk(g)
<1>3. r = [s EXCEPT !.out = <<Code(f.cmd)>> \o @]
  BY <1>2 DEF Transfer, Readers
<1>4. Counting(g) /\ g.left = n
  <2> HIDE DEF n
  <2> QED
    BY <1>1 DEF FwOK, Counting, FwFields, On
<1>5. DOMAIN s = {"fw", "out"}
  BY DEF ReadChunk, Goes
<1> HIDE DEF n, g
<1>6. r.fw = s.fw /\ r.out = <<Code(f.cmd)>> \o s.out
  <2> HIDE DEF s
  <2> QED
    BY <1>3, <1>5
<1> QED
  BY <1>1, <1>4, <1>6 DEF ReadBegun

\* A header of a write.
LEMMA HeaderWrite ==
  ASSUME NEW f, FwOK(f), f.at = "head", NEW a \in Seq(AnyByte), f.cmd \in Writers, Len(a) = HeadLen[f.cmd],
         NEW r, r = Headed(f, a)
  PROVE  /\ Count(a) \in Nat /\ r.out = <<Code(f.cmd)>>
         /\ IF Count(a) = 0 THEN r.fw.at = "loop"
            ELSE r.fw.at = "data" /\ r.fw.left = Count(a) /\ r.fw.cmd = f.cmd
<1> DEFINE h == a[Len(a) - 1]
           l == a[Len(a)]
           n == Length(h, l)
<1>1. Len(a) \in Nat /\ Len(a) > 1
  BY DEF HeadLen, Writers
<1>2. Count(a) = n /\ n \in Nat
  <2>1. Len(a) - 1 \in 1..Len(a) /\ Len(a) \in 1..Len(a)
    BY <1>1
  <2>2. \A i \in 1..Len(a) : a[i] \in AnyByte
    BY ElementOfSeq, Zenon
  <2>3. h \in AnyByte /\ l \in AnyByte
    BY <2>1, <2>2, Zenon
  <2>4. Count(a) = n
    BY DEF Count
  <2> HIDE DEF h, l
  <2>5. Length(h, l) \in Nat
    BY <2>3, NumOfNat DEF Length
  <2> QED
    BY <2>4, <2>5 DEF h, l
<1>3. PICK p, cs, bits : r = Transfer(f, p, cs, h, l, bits)
  <2>1. ~(Len(a) < HeadLen[f.cmd])
    BY <1>1
  <2>2. CASE f.cmd = "SPI_WRITE"
    <3>1. Len(a) = 3 /\ 3 - 1 = 2
      BY <2>2 DEF HeadLen
    <3>2. h = a[2] /\ l = a[3]
      BY <3>1
    <3>3. Headed(f, a) = Transfer(f, Select(f.pins, "low"), NumOf(a[1]), a[2], a[3], 0)
      BY <2>1, <2>2 DEF Headed
    <3> QED
      BY <3>2, <3>3
  <2>3. CASE f.cmd = "I2C_WRITE"
    <3>1. Len(a) = 4 /\ 4 - 1 = 3
      BY <2>3 DEF HeadLen
    <3>2. h = a[3] /\ l = a[4]
      BY <3>1
    <3>3. Headed(f, a) = Transfer(f, i2c_address(i2c_start(f.pins), "W"), NumOf(a[2]), a[3], a[4], 0)
      BY <2>1, <2>3 DEF Headed
    <3> QED
      BY <3>2, <3>3
  <2>4. CASE f.cmd = "MW_WRITE"
    <3>1. Len(a) = 4 /\ 4 - 1 = 3
      BY <2>4 DEF HeadLen
    <3>2. h = a[3] /\ l = a[4]
      BY <3>1
    <3>3. Headed(f, a) = Transfer(f, Select(f.pins, "high"), NumOf(a[1]), a[3], a[4], NumOf(a[2]))
      BY <2>1, <2>4 DEF Headed
    <3> HIDE DEF h, l
    <3>4. r = Transfer(f, Select(f.pins, "high"), NumOf(a[1]), h, l, NumOf(a[2]))
      BY <3>2, <3>3
    <3> QED
      BY <3>4, Zenon
  <2> QED
    BY <2>2, <2>3, <2>4 DEF Writers
<1> DEFINE g == [On(f, p) EXCEPT !.cs = cs, !.left = n, !.bits = bits, !.at = "data"]
           s == Goes(IF g.left = 0 THEN Finished(g) ELSE g, <<>>)
<1>4. r = [s EXCEPT !.out = <<Code(f.cmd)>> \o @]
  <2>1. f.cmd \notin {"SPI_READ", "I2C_READ", "MW_READ"}
    BY DEF Writers
  <2> QED
    BY <1>3, <2>1, Zenon DEF Transfer
<1>5. g.at = "data" /\ g.left = n /\ g.cmd = f.cmd
  <2> HIDE DEF n
  <2> QED
    BY DEF FwOK, Counting, FwFields, On
<1> HIDE DEF n, g
<1>6. DOMAIN s = {"fw", "out"} /\ s.out = <<>> /\ s.fw = IF n = 0 THEN Finished(g) ELSE g
  BY <1>5 DEF Goes
<1>7. r.fw = s.fw /\ r.out = <<Code(f.cmd)>> \o <<>>
  <2> HIDE DEF s
  <2> QED
    BY <1>4, <1>6
<1>8. <<Code(f.cmd)>> \o <<>> = <<Code(f.cmd)>>
  <2>1. <<Code(f.cmd)>> \in Seq({Code(f.cmd)})
    BY ShortOK
  <2> QED
    BY <2>1, ConcatEmptySeq
<1>9. Finished(g).at = "loop"
  BY LoopingAt DEF Finished
<1> HIDE DEF s
<1> QED
  BY <1>2, <1>5, <1>6, <1>7, <1>8, <1>9

\* A header of a function that brings one byte.
LEMMA HeaderByte ==
  ASSUME NEW f, f.at = "head", NEW a \in Seq(AnyByte), f.cmd \in {"I2C_READBYTE", "I2C_WRITEBYTE"}, Len(a) = 1,
         NEW r, r = Headed(f, a)
  PROVE  r.fw.at = "loop" /\ Listed(r.out) /\ Len(r.out) = 2
<1>1. ~(Len(a) < HeadLen[f.cmd])
  BY DEF HeadLen
<1>2. PICK q : r = OneByte(f, q)
  <2>1. CASE f.cmd = "I2C_READBYTE"
    BY <1>1, <2>1 DEF Headed
  <2>2. CASE f.cmd = "I2C_WRITEBYTE"
    BY <1>1, <2>2 DEF Headed
  <2> QED
    BY <2>1, <2>2
<1>3. r = [fw |-> Looping(q), out |-> <<Code(f.cmd), Chip(Place(f.pins, q))>>]
  BY <1>2 DEF OneByte, Reply, Goes
<1>4. r.fw = Looping(q) /\ \E x, y : r.out = <<x, y>>
  BY <1>3
<1>5. Listed(r.out) /\ Len(r.out) = 2
  BY <1>4, ShortLists
<1> QED
  BY <1>4, <1>5, LoopingAt

\* With nothing on its way a sketch in its loop has no backlog.
LEMMA NoBacklog ==
  ASSUME NEW f, f.at = "loop"
  PROVE  Backlog(f, <<>>, Len(<<>>))
BY ShortLists DEF Backlog

\* The second half of a call begins as a call does.
LEMMA MayReadStarts ==
  ASSUME NEW rest, MayRead(rest)
  PROVE  Starts(rest)
<1>1. Readers \subseteq Codes
  BY DEF Readers, Codes
<1> QED
  BY <1>1 DEF MayRead, Starts, Asks

(***************************************************************************)
(* Whatever a function asks for, with its arguments whole the sketch sends *)
(* the echo and no more than the host then waits for.                      *)
(***************************************************************************)
LEMMA HeaderWhole ==
  ASSUME NEW f, FwOK(f), f.at = "head", NEW a \in Seq(AnyByte), NEW rest, Asks(f.cmd, a, rest), f.cmd # "MW_BUSY",
         NEW r, r = Headed(f, a)
  PROVE  /\ Listed(r.out) /\ Len(r.out) \in Nat /\ Len(r.out) > 0
         /\ r.fw.at # "head" /\ Bounded(r.fw, <<>>, Len(r.out) - 1, rest)
<1>1. CASE AsksRead(f.cmd, a, rest)
  <2>1. PICK e \in Seq(AnySym) : rest = Reading(Count(a), e)
    BY <1>1 DEF AsksRead
  <2>2. Count(a) \in Nat
    BY <1>1, HeaderRead DEF AsksRead
  <2>3. PICK g : /\ Counting(g) /\ g.left = Count(a)
                 /\ r.fw = ReadChunk(g).fw /\ r.out = <<Code(f.cmd)>> \o ReadChunk(g).out
    <3>1. f.cmd \in Readers /\ Len(a) = 3
      BY <1>1 DEF AsksRead
    <3>2. ReadBegun(f, a, r)
      BY <3>1, HeaderRead
    <3> QED
      BY <3>2 DEF ReadBegun
  <2> DEFINE s == ReadChunk(g)
             k == AtMost(rchunk, Count(a))
             n == Count(a)
  <2>4. /\ Listed(s.out)
        /\ n = 0 => s.fw.at = "loop" /\ s.out = <<>>
        /\ n > 0 => s.fw.at = "ack" /\ s.fw.left = n - k /\ Len(s.out) <= k
    BY <2>3, ReadsChunk
  <2>5. k \in Nat
    BY <2>2, ChunkAssumption DEF AtMost
  <2> HIDE DEF s, n, k
  <2>6. Listed(r.out) /\ Len(r.out) = Len(s.out) + 1 /\ Len(s.out) \in Nat
    <3>1. Listed(<<Code(f.cmd)>>) /\ Len(<<Code(f.cmd)>>) = 1
      BY ShortLists
    <3>2. /\ Listed(<<Code(f.cmd)>> \o s.out)
          /\ Len(<<Code(f.cmd)>> \o s.out) = Len(<<Code(f.cmd)>>) + Len(s.out) /\ Len(s.out) \in Nat
      BY <2>4, <3>1, ListedConcat
    <3> QED
      BY <2>3, <3>1, <3>2 DEF s
  <2>7. Len(r.out) - 1 = Len(s.out)
    BY <2>6
  <2>8. CASE n = 0
    <3>1. rest = <<>> /\ r.fw.at = "loop" /\ Len(s.out) = 0
      BY <2>1, <2>3, <2>4, <2>8, ReadingNone, ShortLists DEF s, n
    <3>2. Begins(r.fw, <<>>, Len(r.out) - 1, rest)
      BY <2>7, <3>1, NoBacklog DEF Begins, Starts
    <3> QED
      BY <2>6, <3>1, <3>2 DEF Bounded
  <2>9. CASE n > 0
    <3>1. r.fw.at = "ack" /\ r.fw.left = n - k /\ Len(s.out) <= k
      BY <2>3, <2>4, <2>9 DEF s
    <3>2. Fetches(r.fw, <<>>, Len(r.out) - 1, rest)
      BY <2>1, <2>2, <2>7, <2>9, <3>1 DEF Fetches, n, k
    <3> QED
      BY <2>6, <3>1, <3>2 DEF Bounded
  <2> QED
    BY <2>2, <2>8, <2>9 DEF n
<1>2. CASE AsksWrite(f.cmd, a, rest)
  <2> DEFINE n == Count(a)
             size == SizeOf(f.cmd)
  <2>1. PICK id \in Nat, more \in Seq(Step) : MayRead(more) /\ rest = WritingFrom(id, 0, n, size) \o more
    BY <1>2 DEF AsksWrite
  <2>2. /\ n \in Nat /\ r.out = <<Code(f.cmd)>> /\ Fits(f.cmd, n)
        /\ IF n = 0 THEN r.fw.at = "loop" ELSE r.fw.at = "data" /\ r.fw.left = n /\ r.fw.cmd = f.cmd
    BY <1>2, HeaderWrite DEF AsksWrite
  <2>3. Listed(r.out) /\ Len(r.out) = 1 /\ 1 - 1 = 0
    BY <2>2, ShortLists
  <2>4. size \in Nat \ {0}
    BY ChunkAssumption DEF SizeOf
  <2>5. CASE n = 0
    <3>1. WritingFrom(id, 0, n, size) = <<>>
      <4> HIDE DEF size
      <4> QED
        BY <2>4, <2>5, WritingNone
    <3>2. rest = more
      BY <2>1, <3>1, ConcatEmptySeq
    <3>3. Begins(r.fw, <<>>, Len(r.out) - 1, rest)
      BY <2>1, <2>2, <2>3, <2>5, <3>2, NoBacklog, MayReadStarts DEF Begins
    <3> QED
      BY <2>2, <2>3, <2>5, <3>3 DEF Bounded
  <2>6. CASE n > 0
    <3>1. r.fw.at = "data" /\ r.fw.left = n /\ r.fw.cmd = f.cmd
      BY <2>2, <2>6
    <3>2. Feeds(r.fw, <<>>, Len(r.out) - 1, rest)
      <4> HIDE DEF n
      <4>1. 0 \in Nat /\ Len(r.out) - 1 = 0
        BY <2>3
      <4> QED
        BY <2>1, <2>2, <2>6, <3>1, <4>1 DEF Feeds, size
    <3> QED
      BY <2>3, <3>1, <3>2 DEF Bounded
  <2> QED
    BY <2>2, <2>5, <2>6
<1>3. CASE AsksByte(f.cmd, a, rest)
  <2>1. f.cmd \in {"I2C_READBYTE", "I2C_WRITEBYTE"} /\ Len(a) = 1 /\ rest = <<RecvBuffer(1)>>
    BY <1>3 DEF AsksByte, Asked1
  <2>2. r.fw.at = "loop" /\ Listed(r.out) /\ Len(r.out) = 2
    BY <2>1, HeaderByte
  <2>3. TakesByte(r.fw, <<>>, Len(r.out) - 1, rest)
    BY <2>1, <2>2 DEF TakesByte
  <2> QED
    BY <2>2, <2>3 DEF Bounded
<1> QED
  BY <1>1, <1>2, <1>3 DEF Asks

-----------------------------------------------------------------------------
(***************************************************************************)
(* The calls, as they begin.                                               *)
(***************************************************************************)
\* Steps one after another.
LEMMA StepsConcat ==
  \A p \in Seq(Step), q \in Seq(Step), s \in Seq(Step) : (p \o q) \o s = p \o (q \o s)
<1> TAKE p \in Seq(Step), q \in Seq(Step), s \in Seq(Step)
<1> QED
  BY ConcatAssociative

\* A function and what follows it, one step after the other.
LEMMA FunctionThen ==
  ASSUME NEW c \in Codes, NEW a \in Seq(AnyByte), NEW rest \in Seq(Step)
  PROVE  /\ Function(c, a) \o rest = Cons(Send(Cons(Code(c), a)), Cons(Echo(c), rest))
         /\ Function(c, a) = Cons(Send(Cons(Code(c), a)), Cons(Echo(c), <<>>))
<1> DEFINE x == Send(<<Code(c)>> \o a)
           y == Echo(c)
<1>1. x \in Step /\ y \in Step
  <2>1. <<Code(c)>> \in Seq(AnyByte) /\ <<>> \in Seq(AnySym)
    BY BytesOK, ShortOK, EmptySeq
  <2>2. <<Code(c)>> \o a \in Seq(AnyByte)
    BY <2>1, ConcatProperties
  <2> QED
    BY <2>1, <2>2, SendOK, WaitOK
<1>2. Function(c, a) = <<x, y>> /\ x = Send(Cons(Code(c), a))
  BY DEF Function, Cons
<1> HIDE DEF x, y
<1>3. <<x>> \in Seq(Step) /\ <<y>> \in Seq(Step) /\ <<>> \in Seq(Step)
  BY <1>1, ShortOK, EmptySeq
<1>4. <<x>> \o <<y>> = <<x, y>>
  <2>1. /\ <<x>> \o <<y>> \in Seq(Step) /\ Len(<<x>> \o <<y>>) = Len(<<x>>) + Len(<<y>>)
        /\ \A i \in 1 .. Len(<<x>>) + Len(<<y>>) :
             (<<x>> \o <<y>>)[i] = IF i <= Len(<<x>>) THEN <<x>>[i] ELSE <<y>>[i - Len(<<x>>)]
    BY <1>3, ConcatProperties
  <2>2. Len(<<x>>) = 1 /\ Len(<<y>>) = 1 /\ <<x>>[1] = x /\ <<y>>[1] = y
    OBVIOUS
  <2>3. /\ Len(<<x>> \o <<y>>) = 2 /\ (<<x>> \o <<y>>)[1] = x /\ (<<x>> \o <<y>>)[2] = y
    BY <2>1, <2>2
  <2>4. <<x, y>> \in Seq(Step) /\ Len(<<x, y>>) = 2 /\ <<x, y>>[1] = x /\ <<x, y>>[2] = y
    BY <1>1, ShortOK
  <2>5. \A i \in 1..Len(<<x, y>>) : (<<x>> \o <<y>>)[i] = <<x, y>>[i]
    BY <2>3, <2>4
  <2> QED
    BY <2>1, <2>3, <2>4, <2>5, SeqEqual
<1>5. <<x, y>> \o rest = <<x>> \o (<<y>> \o rest)
  <2>1. (<<x>> \o <<y>>) \o rest = <<x>> \o (<<y>> \o rest)
    BY <1>3, StepsConcat
  <2> QED
    BY <1>4, <2>1
<1>6. <<y>> \o <<>> = <<y>>
  BY <1>3, ConcatEmptySeq
<1> QED
  BY <1>2, <1>4, <1>5, <1>6 DEF Cons, y

\* The length at the end of the arguments is the one that was sent.
LEMMA CountOK ==
  ASSUME NEW n \in Nat, NEW h \in Seq(AnyByte)
  PROVE  /\ h \o HiLo(n) \in Seq(AnyByte) /\ Len(h \o HiLo(n)) = Len(h) + 2 /\ Count(h \o HiLo(n)) = n
         /\ NoCodes(h) => NoCodes(h \o HiLo(n))
<1> DEFINE a == n \div 256
           b == n % 256
           t == HiLo(n)
           s == h \o t
<1>1. a \in Nat /\ b \in Nat /\ 256 * a + b = n
  OBVIOUS
<1> HIDE DEF a, b
<1>2. t = <<Num(a), Num(b)>>
  BY DEF HiLo, a, b
<1>3. Num(a) \in AnyByte /\ Num(b) \in AnyByte
  BY <1>1, BytesOK
<1>4. t \in Seq(AnyByte) /\ Len(t) = 2 /\ t[1] = Num(a) /\ t[2] = Num(b)
  <2>1. t \in Seq(AnyByte)
    BY <1>2, <1>3, ShortOK
  <2> QED
    BY <1>2, <2>1
<1>5. Len(h) \in Nat
  BY LenProperties
<1> HIDE DEF t
<1>6. /\ s \in Seq(AnyByte) /\ Len(s) = Len(h) + 2
      /\ \A i \in 1 .. Len(h) + 2 : s[i] = IF i <= Len(h) THEN h[i] ELSE t[i - Len(h)]
  <2>1. /\ s \in Seq(AnyByte) /\ Len(s) = Len(h) + Len(t)
        /\ \A i \in 1 .. Len(h) + Len(t) : s[i] = IF i <= Len(h) THEN h[i] ELSE t[i - Len(h)]
    BY <1>4, ConcatProperties
  <2> HIDE DEF s
  <2> QED
    BY <1>4, <2>1
<1> HIDE DEF s
<1>7. s[Len(s) - 1] = t[1] /\ s[Len(s)] = t[2]
  BY <1>5, <1>6
<1>8. NumOf(Num(a)) = a /\ NumOf(Num(b)) = b
  BY DEF NumOf, Num
<1>9. Count(s) = n
  BY <1>1, <1>4, <1>7, <1>8 DEF Count, Length
<1>10. ASSUME NoCodes(h) PROVE NoCodes(s)
  <2>1. NoCode(t[1]) /\ NoCode(t[2])
    BY <1>4 DEF NoCode, Num
  <2>2. ASSUME NEW i \in 1..Len(s) PROVE NoCode(s[i])
    <3>1. CASE i <= Len(h)
      BY <1>5, <1>6, <1>10, <3>1 DEF NoCodes
    <3>2. CASE i = Len(h) + 1
      BY <1>5, <1>6, <2>1, <3>2
    <3>3. CASE i = Len(h) + 2
      BY <1>5, <1>6, <2>1, <3>3
    <3> QED
      BY <1>5, <1>6, <3>1, <3>2, <3>3
  <2> QED
    BY <2>2 DEF NoCodes
<1> QED
  BY <1>6, <1>9, <1>10 DEF s, t

\* What a function asks for, it begins with.
LEMMA AsksStarts ==
  ASSUME NEW c \in Codes, NEW a \in Seq(AnyByte), NEW rest \in Seq(Step), Asks(c, a, rest)
  PROVE  Starts(Function(c, a) \o rest)
BY FunctionThen DEF Starts

\* A read.
LEMMA ReadAsks ==
  ASSUME NEW c \in Readers, NEW x \in Nat, NEW n \in Nat, NEW e \in Seq(AnySym)
  PROVE  LET a == <<Num(x)>> \o HiLo(n)
         IN  AsksRead(c, a, Reading(n, e)) /\ a \in Seq(AnyByte) /\ Reading(n, e) \in Seq(Step)
<1> DEFINE h == <<Num(x)>>
<1>1. h \in Seq(AnyByte) /\ Len(h) = 1 /\ NoCodes(h)
  BY BytesOK, ShortOK DEF NoCodes, NoCode, Num
<1> HIDE DEF h
<1>2. h \o HiLo(n) \in Seq(AnyByte) /\ Len(h \o HiLo(n)) = 3 /\ Count(h \o HiLo(n)) = n
      /\ NoCodes(h \o HiLo(n))
  <2>1. h \o HiLo(n) \in Seq(AnyByte) /\ Len(h \o HiLo(n)) = Len(h) + 2 /\ Count(h \o HiLo(n)) = n
        /\ NoCodes(h \o HiLo(n))
    BY <1>1, CountOK
  <2> QED
    BY <1>1, <2>1
<1>3. Reading(n, e) \in Seq(Step)
  BY ReadingOK
<1>4. AsksRead(c, h \o HiLo(n), Reading(n, e))
  BY <1>2 DEF AsksRead
<1> QED
  BY <1>2, <1>3, <1>4 DEF h

\* A write, perhaps with a read after it.
LEMMA WriteAsks ==
  ASSUME NEW c \in Writers, NEW h \in Seq(AnyByte), Len(h) = HeadLen[c] - 2, NoCodes(h), NEW n \in Nat, Fits(c, n),
         NEW id \in Nat, NEW more \in Seq(Step), MayRead(more)
  PROVE  LET a == h \o HiLo(n)
             rest == Writing(id, n, SizeOf(c)) \o more
         IN  AsksWrite(c, a, rest) /\ a \in Seq(AnyByte) /\ rest \in Seq(Step)
<1> DEFINE a == h \o HiLo(n)
           size == SizeOf(c)
           rest == Writing(id, n, size) \o more
<1>1. a \in Seq(AnyByte) /\ Len(a) = Len(h) + 2 /\ Count(a) = n /\ NoCodes(a)
  BY CountOK
<1>2. Len(a) = HeadLen[c]
  BY <1>1 DEF Writers, HeadLen
<1>3. size \in Nat \ {0}
  BY ChunkAssumption DEF SizeOf
<1> HIDE DEF a, size
<1>4. Writing(id, n, size) = WritingFrom(id, 0, n, size) /\ Writing(id, n, size) \in Seq(Step)
  BY <1>3, WritingAll, WritingOK
<1>5. rest \in Seq(Step)
  BY <1>4, ConcatProperties
<1>6. AsksWrite(c, a, rest)
  BY <1>1, <1>2, <1>4 DEF AsksWrite, size
<1> QED
  BY <1>1, <1>5, <1>6 DEF a, size

\* A read alone may be the second half of a call.
LEMMA ReadMayBe ==
  ASSUME NEW c \in Readers, NEW x \in Nat, NEW n \in Nat, NEW e \in Seq(AnySym)
  PROVE  LET s == Function(c, <<Num(x)>> \o HiLo(n)) \o Reading(n, e)
         IN  MayRead(s) /\ s \in Seq(Step)
<1> DEFINE a == <<Num(x)>> \o HiLo(n)
           r == Reading(n, e)
<1>1. AsksRead(c, a, r) /\ a \in Seq(AnyByte) /\ r \in Seq(Step)
  BY ReadAsks
<1> HIDE DEF a, r
<1>2. c \in Codes
  BY DEF Readers, Codes
<1>3. Function(c, a) \o r = Cons(Send(Cons(Code(c), a)), Cons(Echo(c), r))
  BY <1>1, <1>2, FunctionThen
<1>4. Function(c, a) \o r \in Seq(Step)
  BY <1>1, <1>2, FunctionOK, ConcatProperties
<1>5. MayRead(Function(c, a) \o r)
  BY <1>1, <1>3 DEF MayRead
<1> QED
  BY <1>4, <1>5 DEF a, r

\* A write, as a whole call or the first half of one.
LEMMA WriteStarts ==
  ASSUME NEW c \in Writers, NEW h \in Seq(AnyByte), Len(h) = HeadLen[c] - 2, NoCodes(h), NEW n \in Nat, Fits(c, n),
         NEW id \in Nat, NEW more \in Seq(Step), MayRead(more)
  PROVE  Starts((Function(c, h \o HiLo(n)) \o Writing(id, n, SizeOf(c))) \o more)
<1> DEFINE a == h \o HiLo(n)
           w == Writing(id, n, SizeOf(c))
<1>1. AsksWrite(c, a, w \o more) /\ a \in Seq(AnyByte) /\ w \o more \in Seq(Step)
  BY WriteAsks
<1>2. c \in Codes
  BY DEF Writers, Codes
<1>3. w \in Seq(Step)
  <2>1. SizeOf(c) \in Nat \ {0}
    BY ChunkAssumption DEF SizeOf
  <2> QED
    BY <2>1, WritingOK
<1> HIDE DEF a, w
<1>4. Starts(Function(c, a) \o (w \o more))
  BY <1>1, <1>2, AsksStarts DEF Asks
<1>5. Function(c, a) \in Seq(Step)
  BY <1>1, <1>2, FunctionOK
<1>6. (Function(c, a) \o w) \o more = Function(c, a) \o (w \o more)
  BY <1>3, <1>5, StepsConcat
<1> QED
  BY <1>4, <1>6 DEF a, w

\* A write and no more.
LEMMA WriteAlone ==
  ASSUME NEW c \in Writers, NEW h \in Seq(AnyByte), Len(h) = HeadLen[c] - 2, NoCodes(h), NEW n \in Nat, Fits(c, n),
         NEW id \in Nat
  PROVE  Starts(Function(c, h \o HiLo(n)) \o Writing(id, n, SizeOf(c)))
<1> DEFINE f == Function(c, h \o HiLo(n)) \o Writing(id, n, SizeOf(c))
<1>1. <<>> \in Seq(Step) /\ MayRead(<<>>)
  BY EmptySeq DEF MayRead
<1>2. Starts(f \o <<>>)
  BY <1>1, WriteStarts
<1>3. f \in Seq(Step)
  <2>1. h \o HiLo(n) \in Seq(AnyByte) /\ c \in Codes /\ SizeOf(c) \in Nat \ {0}
    BY CountOK, ChunkAssumption DEF Writers, Codes, SizeOf
  <2>2. Function(c, h \o HiLo(n)) \in Seq(Step) /\ Writing(id, n, SizeOf(c)) \in Seq(Step)
    BY <2>1, FunctionOK, WritingOK
  <2> QED
    BY <2>2, ConcatProperties
<1> HIDE DEF f
<1>4. f \o <<>> = f
  BY <1>3, ConcatEmptySeq
<1> QED
  BY <1>2, <1>4 DEF f

\* A read alone.
LEMMA ReadStarts ==
  ASSUME NEW c \in Readers, NEW x \in Nat, NEW n \in Nat, NEW e \in Seq(AnySym)
  PROVE  Starts(Function(c, <<Num(x)>> \o HiLo(n)) \o Reading(n, e))
BY ReadMayBe, MayReadStarts

\* One byte.
LEMMA ByteStarts ==
  ASSUME NEW c \in Asked1, NEW a \in Seq(AnyByte), NoCodes(a), Len(a) = (IF c = "MW_BUSY" THEN 0 ELSE 1)
  PROVE  Starts(Function(c, a) \o <<RecvBuffer(1)>>)
<1> DEFINE r == <<RecvBuffer(1)>>
<1>1. c \in Codes /\ r \in Seq(Step)
  BY WaitOK, ShortOK DEF Asked1, Codes
<1>2. Asks(c, a, r)
  BY DEF Asks, AsksByte
<1> HIDE DEF r
<1>3. Starts(Function(c, a) \o r)
  BY <1>1, <1>2, AsksStarts
<1> QED
  BY <1>3 DEF r

\* Every call begins as one.
LEMMA ScriptStarts ==
  ASSUME NEW b \in {"spi", "i2c", "mw"}, NEW c \in JobType(b)
  PROVE  Starts(Script(c))
<1>1. <<>> \in Seq(AnySym) /\ <<>> \in Seq(Step) /\ <<>> \in Seq(AnyByte) /\ Len(<<>>) = 0
  BY EmptySeq
<1>2. \A cs : EndIf(cs) \in Seq(AnySym)
  <2>1. Sym("end") \in AnySym
    BY DEF Sym, AnySym
  <2> QED
    BY <1>1, <2>1, ShortOK DEF EndIf
<1>3. ASSUME NEW x \in Nat PROVE <<Num(x)>> \in Seq(AnyByte) /\ Len(<<Num(x)>>) = 1 /\ NoCodes(<<Num(x)>>)
  BY BytesOK, ShortOK DEF NoCodes, NoCode, Num
<1>4. CASE b = "spi"
  <2>1. c.op \in {"SPIRead", "SPIWrite"} /\ c.cs \in Nat /\ c.n \in Nat /\ c.id \in Nat
    BY <1>4, SpiJob
  <2>2. CASE c.op = "SPIRead"
    <3>1. Script(c) = Function("SPI_READ", <<Num(c.cs)>> \o HiLo(c.n)) \o Reading(c.n, EndIf(c.cs))
      BY <2>2 DEF Script
    <3>2. "SPI_READ" \in Readers
      BY DEF Readers
    <3> QED
      BY <1>2, <2>1, <3>1, <3>2, ReadStarts
  <2>3. CASE c.op = "SPIWrite"
    <3> DEFINE h == <<Num(c.cs)>>
    <3>1. Script(c) = Function("SPI_WRITE", h \o HiLo(c.n)) \o Writing(c.id, c.n, SizeOf("SPI_WRITE"))
      BY <2>3 DEF Script, SizeOf
    <3>2. "SPI_WRITE" \in Writers /\ HeadLen["SPI_WRITE"] - 2 = 1 /\ Fits("SPI_WRITE", c.n)
      BY DEF Writers, HeadLen, Fits
    <3>3. h \in Seq(AnyByte) /\ Len(h) = 1 /\ NoCodes(h)
      BY <1>3, <2>1
    <3> HIDE DEF h
    <3> QED
      BY <2>1, <3>1, <3>2, <3>3, WriteAlone
  <2> QED
    BY <2>1, <2>2, <2>3
<1>5. CASE b = "i2c"
  <2>1. /\ c.op \in {"I2CReadWrite", "I2CStart", "I2CStop", "I2CWriteByte", "I2CReadByte"}
        /\ c.id \in Nat
        /\ c.op = "I2CReadWrite" => c.w \in Nat /\ c.r \in Nat
    BY <1>5, I2CJob
  <2>2. CASE c.op = "I2CReadWrite"
    <3> DEFINE h == <<Num(0), Num(IF c.r > 0 THEN 0 ELSE 1)>>
               second == IF c.r = 0 THEN <<>> ELSE Function("I2C_READ", <<Num(0)>> \o HiLo(c.r)) \o Reading(c.r, <<>>)
               first == IF c.w = 0 THEN <<>>
                        ELSE Function("I2C_WRITE", h \o HiLo(c.w)) \o Writing(c.id, c.w, SizeOf("I2C_WRITE"))
    <3>1. Script(c) = first \o second
      BY <2>2 DEF Script, SizeOf
    <3>2. MayRead(second) /\ second \in Seq(Step)
      <4>1. CASE c.r = 0
        BY <1>1, <4>1 DEF MayRead
      <4>2. CASE c.r # 0
        <5>1. "I2C_READ" \in Readers /\ 0 \in Nat
          BY DEF Readers
        <5>2. /\ MayRead(Function("I2C_READ", <<Num(0)>> \o HiLo(c.r)) \o Reading(c.r, <<>>))
              /\ Function("I2C_READ", <<Num(0)>> \o HiLo(c.r)) \o Reading(c.r, <<>>) \in Seq(Step)
          BY <1>1, <2>1, <2>2, <5>1, ReadMayBe
        <5> QED
          BY <4>2, <5>2
      <4> QED
        BY <4>1, <4>2
    <3>3. "I2C_WRITE" \in Writers /\ HeadLen["I2C_WRITE"] - 2 = 2 /\ Fits("I2C_WRITE", c.w)
      BY DEF Writers, HeadLen, Fits
    <3>4. h \in Seq(AnyByte) /\ Len(h) = 2 /\ NoCodes(h)
      <4> DEFINE x == IF c.r > 0 THEN 0 ELSE 1
      <4>1. x \in Nat /\ 0 \in Nat
        OBVIOUS
      <4> HIDE DEF x
      <4>2. Num(x) \in AnyByte /\ Num(0) \in AnyByte
        BY <4>1, BytesOK
      <4>3. <<Num(0), Num(x)>> \in Seq(AnyByte) /\ Len(<<Num(0), Num(x)>>) = 2 /\ NoCodes(<<Num(0), Num(x)>>)
        BY <4>2, ShortOK DEF NoCodes, NoCode, Num
      <4> QED
        BY <4>3 DEF x
    <3> HIDE DEF second, h
    <3>5. CASE c.w = 0
      <4>1. first \o second = second
        BY <3>2, <3>5, ConcatEmptySeq
      <4> QED
        BY <3>1, <3>2, <4>1, MayReadStarts
    <3>6. CASE c.w # 0
      <4>1. first = Function("I2C_WRITE", h \o HiLo(c.w)) \o Writing(c.id, c.w, SizeOf("I2C_WRITE"))
        BY <3>6
      <4> HIDE DEF first
      <4>2. Starts((Function("I2C_WRITE", h \o HiLo(c.w)) \o Writing(c.id, c.w, SizeOf("I2C_WRITE"))) \o second)
        BY <2>1, <2>2, <3>2, <3>3, <3>4, WriteStarts
      <4> QED
        BY <3>1, <4>1, <4>2
    <3> QED
      BY <3>5, <3>6
  <2>3. CASE c.op \in {"I2CStart", "I2CStop"}
    <3>1. Sym("S") \in AnySym /\ Sym("P") \in AnySym
      BY DEF Sym, AnySym
    <3>2. <<Sym("S")>> \in Seq(AnySym) /\ <<Sym("P")>> \in Seq(AnySym)
      BY <3>1, ShortOK
    <3>3. CASE c.op = "I2CStart"
      <4>1. Script(c) = <<Tell(<<Code("I2C_START")>>, <<Sym("S")>>)>>
        BY <3>3 DEF Script
      <4> QED
        BY <3>2, <4>1 DEF Starts, Told
    <3>4. CASE c.op = "I2CStop"
      <4>1. Script(c) = <<Tell(<<Code("I2C_STOP")>>, <<Sym("P")>>)>>
        BY <3>4 DEF Script
      <4> QED
        BY <3>2, <4>1 DEF Starts, Told
    <3> QED
      BY <2>3, <3>3, <3>4
  <2>4. CASE c.op = "I2CReadByte"
    <3> DEFINE x == IF c.ack = "ack" THEN 1 ELSE 0
    <3>1. x \in Nat
      OBVIOUS
    <3>2. Script(c) = Function("I2C_READBYTE", <<Num(x)>>) \o <<RecvBuffer(1)>>
      BY <2>4 DEF Script
    <3> HIDE DEF x
    <3>3. <<Num(x)>> \in Seq(AnyByte) /\ Len(<<Num(x)>>) = 1 /\ NoCodes(<<Num(x)>>)
      BY <1>3, <3>1
    <3>4. "I2C_READBYTE" \in Asked1
      BY DEF Asked1
    <3> DEFINE a == <<Num(x)>>
    <3> HIDE DEF a
    <3>5. Starts(Function("I2C_READBYTE", a) \o <<RecvBuffer(1)>>)
      BY <3>3, <3>4, ByteStarts DEF a
    <3> QED
      BY <3>2, <3>5 DEF a
  <2>5. CASE c.op = "I2CWriteByte"
    <3> DEFINE a == <<Data(c.id, 1)>>
    <3>1. Script(c) = Function("I2C_WRITEBYTE", a) \o <<RecvBuffer(1)>>
      BY <2>5 DEF Script
    <3>2. a \in Seq(AnyByte) /\ Len(a) = 1 /\ NoCodes(a)
      BY <2>1, BytesOK, ShortOK DEF NoCodes, NoCode, Data
    <3>3. "I2C_WRITEBYTE" \in Asked1
      BY DEF Asked1
    <3> HIDE DEF a
    <3>4. Starts(Function("I2C_WRITEBYTE", a) \o <<RecvBuffer(1)>>)
      BY <3>2, <3>3, ByteStarts
    <3> QED
      BY <3>1, <3>4
  <2> QED
    BY <2>1, <2>2, <2>3, <2>4, <2>5
<1>6. CASE b = "mw"
  <2>1. /\ c.op \in {"MWWrite", "MWRead", "MWIsBusy"}
        /\ c.id \in Nat
        /\ c.op = "MWWrite" => c.cs \in Nat /\ c.bits \in Nat /\ c.bits < 256
        /\ c.op = "MWRead" => c.cs \in Nat /\ c.n \in Nat
    BY <1>6, MWJob
  <2>2. CASE c.op = "MWRead"
    <3>1. Script(c) = Function("MW_READ", <<Num(c.cs)>> \o HiLo(c.n)) \o Reading(c.n, EndIf(c.cs))
      BY <2>2 DEF Script
    <3>2. "MW_READ" \in Readers
      BY DEF Readers
    <3> QED
      BY <1>2, <2>1, <2>2, <3>1, <3>2, ReadStarts
  <2>3. CASE c.op = "MWWrite"
    <3> DEFINE n == ByteNum(c.bits)
               h == <<Num(c.cs), Num(c.bits)>>
    <3>1. Script(c) = Function("MW_WRITE", h \o HiLo(n)) \o Writing(c.id, n, SizeOf("MW_WRITE"))
      BY <2>3 DEF Script, SizeOf
    <3>2. n \in Nat /\ n <= 32
      <4>1. \A k \in Nat : k < 256 => (k + 7) \div 8 \in Nat /\ (k + 7) \div 8 <= 32
        OBVIOUS
      <4> QED
        BY <2>1, <2>3, <4>1 DEF ByteNum
    <3> HIDE DEF n
    <3>3. "MW_WRITE" \in Writers /\ HeadLen["MW_WRITE"] - 2 = 2 /\ Fits("MW_WRITE", n)
      BY <3>2 DEF Writers, HeadLen, Fits
    <3>4. h \in Seq(AnyByte) /\ Len(h) = 2 /\ NoCodes(h)
      <4>1. Num(c.cs) \in AnyByte /\ Num(c.bits) \in AnyByte
        BY <2>1, <2>3, BytesOK
      <4> QED
        BY <4>1, ShortOK DEF NoCodes, NoCode, Num
    <3> HIDE DEF h
    <3> QED
      BY <2>1, <3>1, <3>2, <3>3, <3>4, WriteAlone
  <2>4. CASE c.op = "MWIsBusy"
    <3>1. Script(c) = Function("MW_BUSY", <<>>) \o <<RecvBuffer(1)>>
      BY <2>4 DEF Script
    <3>2. "MW_BUSY" \in Asked1
      BY DEF Asked1
    <3> DEFINE a == <<>>
    <3>3. a \in Seq(AnyByte) /\ Len(a) = 0 /\ NoCodes(a)
      BY <1>1 DEF NoCodes
    <3> HIDE DEF a
    <3>4. Starts(Function("MW_BUSY", a) \o <<RecvBuffer(1)>>)
      BY <3>2, <3>3, ByteStarts
    <3> QED
      BY <3>1, <3>4 DEF a
  <2> QED
    BY <2>1, <2>2, <2>3, <2>4
<1> QED
  BY <1>4, <1>5, <1>6

\* A session is set up by the init of its bus.
LEMMA SetUpInits ==
  ASSUME NEW b \in {"spi", "i2c", "mw"}
  PROVE  \E c \in Inits : /\ SetUp(b) = Cons(Connect, Function(c, InitArguments(c)))
                          /\ Function(c, InitArguments(c)) \in Seq(Step)
<1>1. \A c \in Inits : c \in Codes /\ InitArguments(c) \in Seq(AnyByte)
  BY EmptySeq, BytesOK, ShortOK DEF Inits, Codes, InitArguments
<1>2. \A c \in Inits : Function(c, InitArguments(c)) \in Seq(Step)
  BY <1>1, FunctionOK
<1>3. \E c \in Inits : SetUp(b) = Cons(Connect, Function(c, InitArguments(c)))
  BY DEF SetUp, Cons, Inits, InitArguments
<1> QED
  BY <1>2, <1>3

-----------------------------------------------------------------------------
(***************************************************************************)
(* The sketch takes what it waits for.                                     *)
(***************************************************************************)
\* The first byte is taken, or the first n.
LEMMA TakeFirst ==
  ASSUME NEW u \in Seq(LineByte), NEW n \in Nat, n <= Len(u), NEW v, v = SubSeq(u, n + 1, Len(u))
  PROVE  v \in Seq(LineByte) /\ Len(v) = Len(u) - n /\ \A i \in 1..Len(u) - n : v[i] = u[n + i]
<1>1. Len(u) \in Nat /\ \A i \in 1..Len(u) : u[i] \in LineByte
  BY LenProperties, ElementOfSeq
<1>2. n + 1 \in Int /\ Len(u) \in Int /\ \A i \in n + 1 .. Len(u) : u[i] \in LineByte
  BY <1>1
<1>3. /\ v \in Seq(LineByte) /\ Len(v) = IF n + 1 <= Len(u) THEN Len(u) - (n + 1) + 1 ELSE 0
      /\ \A i \in 1 .. Len(u) - (n + 1) + 1 : v[i] = u[n + 1 + i - 1]
  BY <1>2, SubSeqProperties
<1> QED
  BY <1>1, <1>3

\* The bytes taken.
FirstBytes(u, n) == [i \in 1..n |-> u[i].byte]

\* They are so many bytes of the line.
LEMMA BytesTaken ==
  ASSUME NEW u \in Seq(LineByte), NEW n \in Nat, n <= Len(u), NEW bytes, bytes = FirstBytes(u, n)
  PROVE  bytes \in Seq(AnyByte) /\ Len(bytes) = n /\ \A i \in 1..n : bytes[i] = u[i].byte
<1>1. Len(u) \in Nat /\ \A i \in 1..Len(u) : u[i] \in LineByte
  BY LenProperties, ElementOfSeq
<1>2. bytes = [i \in 1..n |-> u[i].byte]
  BY DEF FirstBytes
<1>3. bytes \in [1..n -> AnyByte]
  BY <1>1, <1>2 DEF LineByte
<1> QED
  BY <1>2, <1>3, TableOK

\* One byte is taken.
LEMMA TakeOne ==
  ASSUME NEW u \in Seq(LineByte), Len(u) > 0, NEW v, v = SubSeq(u, 2, Len(u))
  PROVE  v \in Seq(LineByte) /\ Len(v) = Len(u) - 1 /\ \A i \in 1..Len(u) - 1 : v[i] = u[1 + i]
<1>1. Len(u) \in Nat /\ 1 \in Nat /\ 1 <= Len(u) /\ 1 + 1 = 2
  BY LenProperties
<1>2. v = SubSeq(u, 1 + 1, Len(u))
  BY <1>1
<1>3. v \in Seq(LineByte) /\ Len(v) = Len(u) - 1
  BY <1>1, <1>2, TakeFirst
<1>4. \A i \in 1..Len(u) - 1 : v[i] = u[1 + i]
  BY <1>1, <1>2, TakeFirst
<1> QED
  BY <1>3, <1>4

\* And this is the byte.
LEMMA ByteTaken ==
  ASSUME NEW u \in Seq(LineByte), Len(u) > 0, NEW bytes, bytes = FirstBytes(u, 1)
  PROVE  bytes \in Seq(AnyByte) /\ Len(bytes) = 1 /\ bytes[1] = u[1].byte
<1>1. Len(u) \in Nat /\ 1 \in Nat /\ 1 \in 1..1 /\ u[1] \in LineByte
  BY LenProperties, ElementOfSeq
<1>2. bytes = [i \in 1..1 |-> u[i].byte] /\ bytes \in [1..1 -> AnyByte]
  BY <1>1 DEF LineByte, FirstBytes
<1>3. bytes \in Seq(AnyByte) /\ Len(bytes) = 1
  BY <1>1, <1>2, TableOK
<1> QED
  BY <1>1, <1>2, <1>3

\* A told command is no number.
LEMMA ToldOK == \A c \in Told : c \notin {"num", "data", "chip"} /\ c \notin DOMAIN HeadLen /\ c # "MW_BUSY"
BY DEF Told, HeadLen

\* Less of the backlog: nothing is sent, and the sketch is back in its loop.
LEMMA ServesBacklog ==
  ASSUME NEW f, FwOK(f), NEW u \in Seq(LineByte), NEW b \in 1..Len(u), Backlog(f, u, b),
         NEW stray, NEW r, r = Received(f, FirstBytes(u, 1), stray), NEW v, v = SubSeq(u, 2, Len(u)),
         NEW j, j = b - 1
  PROVE  r.out = <<>> /\ r.fw.at = "loop" /\ Backlog(r.fw, v, j)
<1> DEFINE bytes == FirstBytes(u, 1)
<1>1. Len(u) \in Nat /\ 1 <= Len(u) /\ b \in Nat
  BY LenProperties
<1>2. bytes \in Seq(AnyByte) /\ Len(bytes) = 1 /\ bytes[1] = u[1].byte
  BY <1>1, ByteTaken
<1> HIDE DEF bytes
<1>3. \A i \in 1..Len(u) - 1 : v[i] = u[1 + i]
  BY <1>1, TakeOne
<1>4. r.out = <<>> /\ r.fw.at = "loop"
  <2>1. CASE f.at = "loop"
    <3>1. bytes[1][1] \in Told
      BY <1>1, <1>2, <2>1 DEF Backlog
    <3>2. ~NoCode(bytes[1])
      BY <3>1, ToldOK DEF NoCode
    <3>3. r = ParseCommand(f, bytes[1][1])
      BY <2>1, <3>2 DEF Received, bytes
    <3> QED
      BY <3>1, <3>3, ToldOK, ParsesPlain
  <2>2. CASE f.at = "ack"
    <3>1. f.left = 0 /\ u[1].byte = Code("ACK")
      BY <2>2 DEF Backlog
    <3>2. bytes = <<Code("ACK")>>
      <4>1. \A i \in 1..Len(bytes) : bytes[i] = <<Code("ACK")>>[i]
        BY <1>2, <3>1
      <4>2. <<Code("ACK")>> \in Seq(AnyByte) /\ Len(<<Code("ACK")>>) = 1
        BY BytesOK, ShortOK DEF Codes
      <4> QED
        BY <1>2, <4>1, <4>2, SeqEqual
    <3>3. r = ReadChunk(f)
      BY <2>2, <3>2 DEF Received, Acknowledged, bytes
    <3>4. Counting(f)
      BY DEF FwOK
    <3> QED
      BY <3>1, <3>3, <3>4, ReadsChunk
  <2> QED
    BY <2>1, <2>2 DEF Backlog
<1>5. \A i \in 1..b - 1 : v[i].unanswered
  <2>1. ASSUME NEW i \in 1..b - 1 PROVE v[i].unanswered
    <3>1. i \in 1..Len(u) - 1 /\ 1 + i \in 1..b
      BY <1>1
    <3> QED
      BY <1>3, <3>1 DEF Backlog
  <2> QED
    BY <2>1
<1>6. \A i \in 1..b - 1 : v[i].byte[1] \in Told
  <2>1. ASSUME NEW i \in 1..b - 1 PROVE v[i].byte[1] \in Told
    <3>1. i \in 1..Len(u) - 1 /\ 1 + i \in 2..b /\ 1 + i \in 1..b
      BY <1>1
    <3> QED
      BY <1>3, <3>1 DEF Backlog
  <2> QED
    BY <2>1
<1> QED
  BY <1>4, <1>5, <1>6 DEF Backlog

\* The request behind it is one place nearer.
LEMMA RequestNearer ==
  ASSUME NEW u \in Seq(LineByte), NEW b \in 1..Len(u), NEW c, NEW a \in Seq(AnyByte), Request(u, b, c, a),
         NEW v, v = SubSeq(u, 2, Len(u))
  PROVE  b - 1 \in 0..Len(v) /\ Request(v, b - 1, c, a)
<1>1. Len(u) \in Nat /\ 1 <= Len(u) /\ b \in Nat /\ Len(a) \in Nat
  BY LenProperties
<1>2. Len(v) = Len(u) - 1 /\ \A i \in 1..Len(u) - 1 : v[i] = u[1 + i]
  <2>1. Len(u) > 0
    BY <1>1
  <2>2. v \in Seq(LineByte) /\ Len(v) = Len(u) - 1 /\ \A i \in 1..Len(u) - 1 : v[i] = u[1 + i]
    BY <2>1, TakeOne, Zenon
  <2> QED
    BY <2>2
<1>3. b - 1 \in 0..Len(v)
  BY <1>1, <1>2
<1>4. \A i \in b - 1 + 2..Len(v) : NoCode(v[i].byte)
  <2>1. ASSUME NEW i \in b - 1 + 2..Len(v) PROVE NoCode(v[i].byte)
    <3>1. i \in 1..Len(u) - 1 /\ 1 + i \in b + 2..Len(u)
      BY <1>1, <1>2
    <3> QED
      BY <1>2, <3>1 DEF Request
  <2> QED
    BY <2>1
<1>5. ASSUME Len(v) > b - 1
      PROVE  \/ NoCode(v[b - 1 + 1].byte) /\ Len(v) - (b - 1) <= Len(a)
             \/ v[b - 1 + 1].byte = Code(c) /\ Arguments(v, b - 1 + 1, a)
  <2>1. Len(u) > b /\ v[b - 1 + 1] = u[b + 1] /\ Len(v) - (b - 1) = Len(u) - b
    <3>1. b - 1 + 1 \in 1..Len(u) - 1 /\ 1 + (b - 1 + 1) = b + 1 /\ Len(u) > b /\ Len(u) - 1 - (b - 1) = Len(u) - b
      BY <1>1, <1>2, <1>5
    <3> QED
      BY <1>2, <3>1
  <2>2. CASE NoCode(u[b + 1].byte) /\ Len(u) - b <= Len(a)
    BY <2>1, <2>2
  <2>3. CASE u[b + 1].byte = Code(c) /\ Arguments(u, b + 1, a)
    <3>1. Len(v) - (b - 1 + 1) = Len(u) - (b + 1)
      BY <1>1, <1>2
    <3>2. ASSUME Len(u) - (b + 1) = Len(a), NEW i \in 1..Len(a) PROVE v[b - 1 + 1 + i].byte = a[i]
      <4>1. b - 1 + 1 + i \in 1..Len(u) - 1 /\ 1 + (b - 1 + 1 + i) = b + 1 + i
        BY <1>1, <3>2
      <4>2. v[b - 1 + 1 + i] = u[b + 1 + i]
        BY <1>2, <4>1
      <4> QED
        BY <2>3, <3>2, <4>2 DEF Arguments
    <3>3. Arguments(v, b - 1 + 1, a)
      BY <2>3, <3>1, <3>2 DEF Arguments
    <3> QED
      BY <2>1, <2>3, <3>3
  <2> QED
    BY <2>1, <2>2, <2>3 DEF Request
<1> QED
  BY <1>3, <1>4, <1>5 DEF Request

\* The sketch at f takes what it waits for from u, does r and leaves v.
Takes(f, u, r, v) ==
  /\ Len(u) >= Wanted(f)
  /\ \E stray : r = Received(f, FirstBytes(u, Wanted(f)), stray)
  /\ v = SubSeq(u, Wanted(f) + 1, Len(u))

\* In the loop and at an acknowledge that is one byte.
LEMMA TakesOne ==
  ASSUME NEW f, f.at \in {"loop", "ack"}, NEW u \in Seq(LineByte), NEW r, NEW v, Takes(f, u, r, v)
  PROVE  /\ Len(u) > 0 /\ v = SubSeq(u, 2, Len(u))
         /\ \E stray : r = Received(f, FirstBytes(u, 1), stray)
<1>1. Wanted(f) = 1
  BY DEF Wanted
<1>2. Len(u) \in Nat
  BY LenProperties
<1>3. Len(u) >= 1 /\ v = SubSeq(u, 1 + 1, Len(u)) /\ \E stray : r = Received(f, FirstBytes(u, 1), stray)
  BY <1>1 DEF Takes
<1> QED
  BY <1>2, <1>3

\* Nothing is taken from an empty line.
LEMMA TakesSome ==
  ASSUME NEW f, FwOK(f), ~f.pins.hung, NEW u, NEW r, NEW v, Takes(f, u, r, v)
  PROVE  u # <<>>
<1>1. Wanted(f) \in Nat \ {0}
  BY WantedOK
<1>2. Len(<<>>) = 0
  BY EmptySeq
<1> QED
  BY <1>1, <1>2 DEF Takes

\* Nothing is added to what is on the line.
LEMMA AddsNothing ==
  ASSUME NEW d, Listed(d)
  PROVE  d \o <<>> = d /\ <<>> \o d = d
BY ConcatEmptySeq DEF Listed

\* Before a call, or the second half of one, only the backlog gets shorter.
LEMMA ServesBegins ==
  ASSUME NEW f, FwOK(f), ~f.pins.hung, NEW u \in Seq(LineByte), NEW r, NEW v, Takes(f, u, r, v),
         NEW k, NEW todo, Begins(f, u, k, todo)
  PROVE  r.out = <<>> /\ Begins(r.fw, v, k, todo)
<1>1. f.at \in {"loop", "ack"} /\ Backlog(f, u, Len(u))
  BY DEF Begins, Backlog
<1>2. Len(u) > 0 /\ v = SubSeq(u, 2, Len(u))
  BY <1>1, TakesOne
<1>3. PICK stray : r = Received(f, FirstBytes(u, 1), stray)
  BY <1>1, TakesOne
<1>4. Len(u) \in 1..Len(u)
  BY <1>2, LenProperties
<1>5. Len(v) = Len(u) - 1
  BY <1>2, TakeOne
<1> DEFINE b == Len(u)
           j == b - 1
<1>6. b \in 1..Len(u) /\ Backlog(f, u, b) /\ j = b - 1
  BY <1>1, <1>4
<1> HIDE DEF b, j
<1>7. r.out = <<>> /\ r.fw.at = "loop" /\ Backlog(r.fw, v, j)
  <2>1. r.out = <<>>
    BY <1>2, <1>3, <1>6, ServesBacklog
  <2>2. r.fw.at = "loop"
    BY <1>2, <1>3, <1>6, ServesBacklog
  <2>3. Backlog(r.fw, v, j)
    BY <1>2, <1>3, <1>6, ServesBacklog
  <2> QED
    BY <2>1, <2>2, <2>3
<1> QED
  BY <1>5, <1>7 DEF Begins, b, j

\* The ACK of a chunk fetched is taken: the next chunk comes.
LEMMA ServesFetches ==
  ASSUME NEW f, FwOK(f), ~f.pins.hung, NEW u \in Seq(LineByte), NEW r, NEW v, Takes(f, u, r, v),
         NEW k, NEW todo, Fetches(f, u, k, todo)
  PROVE  k = 0 /\ Listed(r.out) /\ Fetches(r.fw, v, Len(r.out), todo)
<1>1. PICK n \in Nat, e \in Seq(AnySym) :
        /\ n > 0 /\ f.at = "ack" /\ todo = Reading(n, e)
        /\ \/ u = <<>> /\ f.left = n - AtMost(rchunk, n) /\ k <= AtMost(rchunk, n)
           \/ (u = <<>> \/ (Len(u) = 1 /\ u[1].byte = Code("ACK"))) /\ f.left = n /\ k = 0
  BY DEF Fetches
<1>2. u # <<>>
  BY TakesSome
<1>3. Len(u) = 1 /\ u[1].byte = Code("ACK") /\ f.left = n /\ k = 0
  BY <1>1, <1>2
<1>4. Len(u) > 0 /\ v = SubSeq(u, 2, Len(u)) /\ f.at \in {"loop", "ack"}
  BY <1>1, TakesOne
<1>5. PICK stray : r = Received(f, FirstBytes(u, 1), stray)
  BY <1>4, TakesOne
<1> DEFINE bytes == FirstBytes(u, 1)
<1>6. bytes \in Seq(AnyByte) /\ Len(bytes) = 1 /\ bytes[1] = u[1].byte
  BY <1>4, ByteTaken
<1>7. bytes = <<Code("ACK")>>
  <2> HIDE DEF bytes
  <2>1. \A i \in 1..Len(bytes) : bytes[i] = <<Code("ACK")>>[i]
    BY <1>3, <1>6
  <2>2. <<Code("ACK")>> \in Seq(AnyByte) /\ Len(<<Code("ACK")>>) = 1
    BY BytesOK, ShortOK DEF Codes
  <2> QED
    BY <1>6, <2>1, <2>2, SeqEqual
<1> HIDE DEF bytes
<1>8. r = ReadChunk(f)
  BY <1>1, <1>5, <1>7 DEF bytes, Received, Acknowledged
<1>9. Counting(f)
  BY DEF FwOK
<1> DEFINE m == AtMost(rchunk, f.left)
<1>10. Listed(r.out) /\ r.fw.at = "ack" /\ r.fw.left = f.left - m /\ Len(r.out) <= m
  BY <1>1, <1>3, <1>8, <1>9, ReadsChunk
<1>11. v = <<>>
  <2>1. Len(v) = 0 /\ v \in Seq(LineByte)
    <3>1. v \in Seq(LineByte) /\ Len(v) = Len(u) - 1
      BY <1>4, TakeOne
    <3> QED
      BY <1>3, <3>1
  <2> QED
    BY <2>1, EmptySeq
<1> QED
  BY <1>1, <1>3, <1>10, <1>11 DEF Fetches

\* A chunk of data is taken: it is acknowledged, or the sketch hangs.
LEMMA ServesFed ==
  ASSUME NEW f, FwOK(f), ~f.pins.hung, NEW u \in Seq(LineByte), NEW r, NEW v, Takes(f, u, r, v),
         NEW d, NEW c, NEW rest, Fed(f, u, d, c, rest)
  PROVE  Listed(r.out) /\ Responds(r.fw, v, r.out, rest)
<1> DEFINE size == SizeOf(f.cmd)
           k == AtMost(size, f.left)
<1>1. PICK id \in Nat, o \in Nat, more \in Seq(Step) :
        /\ f.at = "data" /\ f.left > 0 /\ Fits(f.cmd, f.left)
        /\ Len(u) = k
        /\ MayRead(more) /\ rest = WritingFrom(id, o, f.left - k, size) \o more
  BY DEF Fed
<1>2. /\ Wanted(f) = k /\ size \in Nat \ {0} /\ f.left \in Nat
      /\ \A n \in Nat : n <= f.left => Fits(f.cmd, n)
  <2>1. Wanted(f) = ChunkToCome(f)
    BY <1>1 DEF Wanted
  <2>2. ChunkToCome(f) = k /\ size \in Nat \ {0} /\ \A n \in Nat : n <= f.left => Fits(f.cmd, n)
    BY <1>1, SameChunk
  <2> QED
    BY <2>1, <2>2 DEF FwOK, Counting
<1>3. k \in Nat /\ k > 0 /\ k <= f.left /\ f.left - k \in Nat
  <2> HIDE DEF size
  <2> QED
    BY <1>1, <1>2 DEF AtMost
<1> HIDE DEF k, size
<1>4. PICK stray : r = Received(f, FirstBytes(u, k), stray)
  BY <1>2 DEF Takes
<1> DEFINE bytes == FirstBytes(u, k)
<1>5. bytes \in Seq(AnyByte) /\ Len(bytes) = k
  BY <1>1, <1>3, BytesTaken
<1>6. r = Written(f, bytes)
  BY <1>1, <1>4 DEF Received
<1> HIDE DEF bytes
<1>7. bytes # <<>>
  BY <1>3, <1>5, EmptySeq
<1>8. \/ r.out = <<>> /\ r.fw.at = "data"
      \/ /\ r.out = <<Code("ACK")>>
         /\ \/ f.left - k = 0 /\ r.fw.at = "loop"
            \/ f.left - k > 0 /\ r.fw.at = "data" /\ r.fw.left = f.left - k /\ r.fw.cmd = f.cmd
  BY <1>1, <1>3, <1>5, <1>6, <1>7, WritesChunk
<1>9. v = <<>>
  <2>1. v = SubSeq(u, k + 1, Len(u)) /\ k <= Len(u)
    BY <1>1, <1>2, <1>3 DEF Takes
  <2>2. v \in Seq(LineByte) /\ Len(v) = Len(u) - k
    BY <1>3, <2>1, TakeFirst
  <2>3. Len(v) = 0
    BY <1>1, <1>3, <2>2
  <2> QED
    BY <2>2, <2>3, EmptySeq
<1>10. CASE r.out = <<>> /\ r.fw.at = "data"
  BY <1>9, <1>10, ShortLists DEF Responds
<1>11. CASE r.out = <<Code("ACK")>> /\ f.left - k = 0 /\ r.fw.at = "loop"
  <2>1. Listed(r.out) /\ Len(r.out) - 1 = 0
    BY <1>11, ShortLists
  <2>2. rest = more
    <3>1. WritingFrom(id, o, 0, size) = <<>>
      BY <1>2, WritingNone
    <3> QED
      BY <1>1, <1>11, <3>1, ConcatEmptySeq
  <2>3. Begins(r.fw, <<>>, 0, rest)
    BY <1>1, <1>11, <2>2, NoBacklog, MayReadStarts DEF Begins
  <2> QED
    BY <1>9, <1>11, <2>1, <2>3 DEF Responds, Bounded
<1>12. CASE /\ r.out = <<Code("ACK")>>
            /\ f.left - k > 0 /\ r.fw.at = "data" /\ r.fw.left = f.left - k /\ r.fw.cmd = f.cmd
  <2>1. Listed(r.out) /\ Len(r.out) - 1 = 0
    BY <1>12, ShortLists
  <2>2. Feeds(r.fw, <<>>, 0, rest)
    <3> DEFINE n == f.left - k
    <3>1. n \in Nat /\ n > 0 /\ Fits(r.fw.cmd, n) /\ r.fw.left = n /\ r.fw.at = "data"
      BY <1>2, <1>3, <1>12
    <3>2. rest = WritingFrom(id, o, n, SizeOf(r.fw.cmd)) \o more
      BY <1>1, <1>12 DEF size
    <3> HIDE DEF n
    <3> QED
      BY <1>1, <3>1, <3>2 DEF Feeds
  <2> QED
    BY <1>9, <1>12, <2>1, <2>2 DEF Responds, Bounded
<1> QED
  BY <1>8, <1>10, <1>11, <1>12

\* Whoever asks is a function, and its header is as long as its arguments.
LEMMA AsksWhat ==
  ASSUME NEW c, NEW a, NEW rest, Asks(c, a, rest)
  PROVE  /\ c \in Codes \ {"ACK"} /\ (c = "MW_BUSY" \/ c \in DOMAIN HeadLen)
         /\ c \in DOMAIN HeadLen => Len(a) = HeadLen[c] /\ c # "MW_BUSY"
         /\ c = "MW_BUSY" => Len(a) = 0 /\ rest = <<RecvBuffer(1)>>
         /\ NoCodes(a)
<1>1. CASE AsksRead(c, a, rest)
  BY <1>1 DEF AsksRead, Readers, Codes, HeadLen
<1>2. CASE AsksWrite(c, a, rest)
  BY <1>2 DEF AsksWrite, Writers, Codes, HeadLen
<1>3. CASE AsksByte(c, a, rest)
  BY <1>3 DEF AsksByte, Asked1, Codes, HeadLen
<1> QED
  BY <1>1, <1>2, <1>3 DEF Asks

\* The code of the function itself is taken from the line.
LEMMA ServesCode ==
  ASSUME NEW f, FwOK(f), f.at = "loop", NEW u \in Seq(LineByte), NEW r, NEW v, Takes(f, u, r, v),
         NEW c, NEW a \in Seq(AnyByte), NEW rest, Asks(c, a, rest), Request(u, 0, c, a), ~NoCode(u[1].byte)
  PROVE  Listed(r.out) /\ ((Heading(r.fw, v, c, a) /\ r.out = <<>>) \/ Responds(r.fw, v, r.out, rest))
<1>1. Len(u) \in Nat /\ Len(u) > 0 /\ v = SubSeq(u, 2, Len(u)) /\ Len(a) \in Nat
  BY TakesOne, LenProperties
<1>2. PICK stray : r = Received(f, FirstBytes(u, 1), stray)
  BY TakesOne
<1> DEFINE bytes == FirstBytes(u, 1)
<1>3. bytes[1] = u[1].byte
  BY <1>1, ByteTaken
<1> HIDE DEF bytes
<1>4. u[1].byte = Code(c) /\ Arguments(u, 1, a)
  <2>1. 0 + 1 = 1
    OBVIOUS
  <2> QED
    BY <1>1, <2>1 DEF Request
<1>5. /\ c \in Codes /\ (c = "MW_BUSY" \/ c \in DOMAIN HeadLen) /\ (c \in DOMAIN HeadLen => c # "MW_BUSY")
      /\ c = "MW_BUSY" => Len(a) = 0 /\ rest = <<RecvBuffer(1)>>
  BY AsksWhat
<1>6. ~NoCode(Code(c)) /\ Code(c)[1] = c
  BY <1>5, CodesOK
<1>7. r = ParseCommand(f, c)
  BY <1>2, <1>3, <1>4, <1>6 DEF Received, bytes
<1>8. Len(v) = Len(u) - 1 /\ v \in Seq(LineByte)
  <2>1. v \in Seq(LineByte) /\ Len(v) = Len(u) - 1
    BY <1>1, TakeOne
  <2> QED
    BY <2>1
<1>9. CASE c \in DOMAIN HeadLen
  <2>1. r.fw.at = "head" /\ r.fw.cmd = c /\ r.out = <<>>
    BY <1>7, <1>9, ParsesHeader
  <2>2. Len(v) - 0 <= Len(a)
    BY <1>1, <1>4, <1>8 DEF Arguments
  <2>3. ASSUME Len(v) - 0 = Len(a), NEW i \in 1..Len(a) PROVE v[0 + i].byte = a[i]
    <3>1. i \in 1..Len(u) - 1 /\ 0 + i = i /\ Len(u) - 1 = Len(a)
      BY <1>1, <1>8, <2>3
    <3>2. \A j \in 1..Len(u) - 1 : v[j] = u[1 + j]
      BY <1>1, TakeOne
    <3>3. v[i] = u[1 + i]
      BY <3>1, <3>2
    <3> QED
      BY <1>4, <3>1, <3>3 DEF Arguments
  <2>4. Heading(r.fw, v, c, a)
    BY <2>1, <2>2, <2>3 DEF Heading, Arguments
  <2> QED
    BY <2>1, <2>4, ShortLists
<1>10. CASE c = "MW_BUSY"
  <2>1. c \notin DOMAIN HeadLen
    BY <1>5, <1>10
  <2>2. r.fw.at = "loop" /\ Listed(r.out)
    BY <1>7, <2>1, ParsesPlain
  <2>3. Len(r.out) = 2
    BY <1>7, <1>10, <2>1, ParsesPlain
  <2>4. Len(v) = 0
    BY <1>1, <1>4, <1>5, <1>8, <1>10 DEF Arguments
  <2>5. v = <<>>
    BY <1>8, <2>4, EmptySeq
  <2>6. TakesByte(r.fw, v, Len(r.out) - 1, rest)
    BY <1>5, <1>10, <2>2, <2>3, <2>5 DEF TakesByte
  <2> QED
    BY <2>2, <2>5, <2>6 DEF Responds, Bounded
<1> QED
  BY <1>5, <1>9, <1>10

\* The arguments are whole: the sketch has its header.
LEMMA ServesHeading ==
  ASSUME NEW f, FwOK(f), ~f.pins.hung, NEW u \in Seq(LineByte), NEW r, NEW v, Takes(f, u, r, v),
         NEW c, NEW a \in Seq(AnyByte), NEW rest, Asks(c, a, rest), Heading(f, u, c, a)
  PROVE  Listed(r.out) /\ Responds(r.fw, v, r.out, rest)
<1>1. f.at = "head" /\ f.cmd = c /\ Arguments(u, 0, a)
  BY DEF Heading
<1>2. c \in DOMAIN HeadLen /\ c # "MW_BUSY" /\ Len(a) = HeadLen[c]
  <2>1. c \in DOMAIN HeadLen
    BY <1>1 DEF FwOK
  <2> QED
    BY <2>1, AsksWhat
<1>3. Wanted(f) = Len(a) /\ Len(a) \in Nat /\ Len(u) \in Nat
  BY <1>1, <1>2, LenProperties DEF Wanted
<1> DEFINE n == Len(a)
<1>4. Len(u) = n /\ \A i \in 1..n : u[i].byte = a[i]
  <2>1. Len(u) - 0 <= n /\ Len(u) >= n
    BY <1>1, <1>3 DEF Arguments, Takes
  <2>2. Len(u) = n
    BY <1>3, <2>1
  <2>3. \A i \in 1..n : u[0 + i].byte = a[i]
    BY <1>1, <1>3, <2>2 DEF Arguments
  <2>4. \A i \in 1..n : 0 + i = i
    OBVIOUS
  <2> QED
    BY <2>2, <2>3, <2>4
<1>5. n \in Nat /\ n <= Len(u) /\ Wanted(f) = n
  BY <1>3, <1>4
<1> HIDE DEF n
<1>6. PICK stray : r = Received(f, FirstBytes(u, n), stray)
  BY <1>5 DEF Takes
<1> DEFINE bytes == FirstBytes(u, n)
<1>7. bytes \in Seq(AnyByte) /\ Len(bytes) = n /\ \A i \in 1..n : bytes[i] = u[i].byte
  <2>1. bytes \in Seq(AnyByte)
    BY <1>5, BytesTaken
  <2>2. Len(bytes) = n
    BY <1>5, BytesTaken
  <2>3. \A i \in 1..n : bytes[i] = u[i].byte
    BY <1>5, BytesTaken
  <2> QED
    BY <2>1, <2>2, <2>3
<1> HIDE DEF bytes
<1>8. bytes = a
  <2>1. \A i \in 1..Len(bytes) : bytes[i] = a[i]
    BY <1>4, <1>7
  <2>2. Len(bytes) = Len(a)
    BY <1>7 DEF n
  <2> QED
    BY <1>7, <2>1, <2>2, SeqEqual
<1>9. r = Headed(f, a)
  BY <1>1, <1>6, <1>8 DEF Received, bytes
<1>10. v = <<>>
  <2>1. v = SubSeq(u, n + 1, Len(u))
    BY <1>5 DEF Takes
  <2>2. v \in Seq(LineByte)
    BY <1>5, <2>1, TakeFirst
  <2>3. Len(v) = Len(u) - n
    BY <1>5, <2>1, TakeFirst
  <2>4. Len(v) = 0
    BY <1>4, <1>5, <2>3
  <2> QED
    BY <2>2, <2>4, EmptySeq
<1>11. Asks(f.cmd, a, rest) /\ f.cmd # "MW_BUSY"
  BY <1>1, <1>2
<1>12. Listed(r.out)
  BY <1>1, <1>9, <1>11, HeaderWhole
<1>13. r.fw.at # "head"
  BY <1>1, <1>9, <1>11, HeaderWhole
<1>14. Bounded(r.fw, <<>>, Len(r.out) - 1, rest)
  BY <1>1, <1>9, <1>11, HeaderWhole
<1> QED
  BY <1>10, <1>12, <1>13, <1>14 DEF Responds

\* Whatever the sketch takes, the host is still not going to get more than it waits for.
LEMMA ServesStage ==
  ASSUME NEW f, FwOK(f), ~f.pins.hung, NEW u \in Seq(LineByte), NEW r, NEW v, Takes(f, u, r, v),
         f.at = "loop" => ~NoCode(u[1].byte), NEW d, Listed(d), NEW todo, Stage(f, u, d, todo)
  PROVE  Listed(d \o r.out) /\ Stage(r.fw, v, d \o r.out, todo)
<1>1. u # <<>>
  BY TakesSome
<1>2. d \o <<>> = d /\ Listed(<<>>) /\ Len(<<>>) = 0
  BY AddsNothing, ShortLists
<1>3. Len(d) \in Nat /\ (Len(d) = 0 <=> d = <<>>)
  BY ListedParts
<1>4. ASSUME d = <<>>, Listed(r.out) PROVE d \o r.out = r.out
  BY <1>4, AddsNothing
<1>5. CASE Begins(f, u, Len(d), todo)
  <2> DEFINE k == Len(d)
  <2>1. r.out = <<>>
    BY <1>5, ServesBegins
  <2>2. Begins(r.fw, v, k, todo)
    BY <1>5, ServesBegins
  <2> QED
    BY <1>2, <2>1, <2>2 DEF Stage, Bounded
<1>6. CASE Fetches(f, u, Len(d), todo)
  <2> DEFINE k == Len(d)
  <2>1. k = 0 /\ Listed(r.out)
    BY <1>6, ServesFetches
  <2>2. Fetches(r.fw, v, Len(r.out), todo)
    BY <1>6, ServesFetches
  <2> QED
    BY <1>3, <1>4, <2>1, <2>2 DEF Stage, Bounded
<1>7. ~TakesByte(f, u, Len(d), todo) /\ ~Acks(f, u, Len(d), todo) /\ ~Feeds(f, u, Len(d), todo)
  BY <1>1 DEF TakesByte, Acks, Feeds
<1>8. CASE AwaitsEcho(f, u, d, todo)
  <2>1. PICK c \in Codes, rest \in Seq(Step) :
          /\ todo = Cons(Echo(c), rest)
          /\ Requested(f, u, d, c, rest) \/ Responds(f, u, d, rest) \/ Refuses(f, u, d) \/ Fed(f, u, d, c, rest)
    BY <1>8 DEF AwaitsEcho
  <2>2. ~Responds(f, u, d, rest) /\ ~Refuses(f, u, d)
    BY <1>1 DEF Responds, Refuses
  <2>3. CASE Fed(f, u, d, c, rest)
    <3>1. Listed(r.out)
      BY <2>3, ServesFed
    <3>2. Responds(r.fw, v, r.out, rest)
      BY <2>3, ServesFed
    <3>3. d = <<>>
      BY <2>3 DEF Fed
    <3> QED
      BY <1>4, <2>1, <3>1, <3>2, <3>3 DEF Stage, AwaitsEcho
  <2>4. CASE Requested(f, u, d, c, rest)
    <3>1. PICK a \in Seq(AnyByte) : Asks(c, a, rest) /\ (Unread(f, u, c, a) \/ Heading(f, u, c, a))
      BY <2>4 DEF Requested
    <3>2. d = <<>>
      BY <2>4 DEF Requested
    <3>3. CASE Heading(f, u, c, a)
      <4>1. Listed(r.out)
        BY <3>1, <3>3, ServesHeading
      <4>2. Responds(r.fw, v, r.out, rest)
        BY <3>1, <3>3, ServesHeading
      <4> QED
        BY <1>4, <2>1, <3>2, <4>1, <4>2 DEF Stage, AwaitsEcho
    <3>4. CASE Unread(f, u, c, a)
      <4>1. PICK b \in 0..Len(u) : Backlog(f, u, b) /\ Request(u, b, c, a)
        BY <3>4 DEF Unread
      <4>2. CASE b = 0
        <5>1. f.at = "loop" /\ Request(u, 0, c, a)
          BY <4>1, <4>2 DEF Backlog
        <5>2. Listed(r.out)
          BY <3>1, <5>1, ServesCode
        <5>3. (Heading(r.fw, v, c, a) /\ r.out = <<>>) \/ Responds(r.fw, v, r.out, rest)
          BY <3>1, <5>1, ServesCode
        <5>4. CASE Responds(r.fw, v, r.out, rest)
          BY <1>4, <2>1, <3>2, <5>2, <5>4 DEF Stage, AwaitsEcho
        <5>5. CASE Heading(r.fw, v, c, a) /\ r.out = <<>>
          <6>1. d \o r.out = <<>>
            BY <1>2, <3>2, <5>5
          <6>2. Requested(r.fw, v, <<>>, c, rest)
            BY <3>1, <5>5 DEF Requested
          <6> QED
            BY <1>2, <2>1, <6>1, <6>2 DEF Stage, AwaitsEcho
        <5> QED
          BY <5>3, <5>4, <5>5
      <4>3. CASE b > 0
        <5>1. f.at \in {"loop", "ack"} /\ b \in 1..Len(u)
          BY <4>1, <4>3 DEF Backlog
        <5>2. Len(u) > 0 /\ v = SubSeq(u, 2, Len(u))
          BY <5>1, TakesOne
        <5>3. PICK stray : r = Received(f, FirstBytes(u, 1), stray)
          BY <5>1, TakesOne
        <5> DEFINE j == b - 1
        <5>4. j = b - 1
          OBVIOUS
        <5>5. j \in 0..Len(v) /\ Request(v, j, c, a)
          BY <4>1, <5>1, <5>2, RequestNearer
        <5> HIDE DEF j
        <5>6. r.out = <<>>
          BY <4>1, <5>1, <5>2, <5>3, <5>4, ServesBacklog
        <5>7. Backlog(r.fw, v, j)
          BY <4>1, <5>1, <5>2, <5>3, <5>4, ServesBacklog
        <5>8. Unread(r.fw, v, c, a)
          BY <5>5, <5>7 DEF Unread
        <5>9. Requested(r.fw, v, <<>>, c, rest)
          BY <3>1, <5>8 DEF Requested
        <5>10. d \o r.out = <<>>
          BY <1>2, <3>2, <5>6
        <5> QED
          BY <1>2, <2>1, <5>9, <5>10 DEF Stage, AwaitsEcho
      <4> QED
        BY <4>1, <4>2, <4>3
    <3> QED
      BY <3>1, <3>3, <3>4
  <2> QED
    BY <2>1, <2>2, <2>3, <2>4
<1> QED
  BY <1>5, <1>6, <1>7, <1>8 DEF Stage, Bounded

-----------------------------------------------------------------------------
(***************************************************************************)
(* The sketch waits in vain, and bytes are lost.                           *)
(***************************************************************************)
\* A sketch at a header has been asked for something.
LEMMA AtHead ==
  ASSUME NEW f, f.at = "head", NEW u, NEW d, NEW todo, Stage(f, u, d, todo)
  PROVE  /\ d = <<>>
         /\ \E c \in Codes, rest \in Seq(Step) : /\ todo = Cons(Echo(c), rest)
                                                 /\ Requested(f, u, d, c, rest)
<1>1. ~Bounded(f, u, Len(d), todo)
  BY DEF Bounded, Begins, Backlog, TakesByte, Fetches, Acks, Feeds
<1>2. PICK c \in Codes, rest \in Seq(Step) :
        /\ todo = Cons(Echo(c), rest)
        /\ Requested(f, u, d, c, rest) \/ Responds(f, u, d, rest) \/ Refuses(f, u, d) \/ Fed(f, u, d, c, rest)
  BY <1>1 DEF Stage, AwaitsEcho
<1>3. ~Responds(f, u, d, rest) /\ ~Refuses(f, u, d) /\ ~Fed(f, u, d, c, rest)
  BY DEF Responds, Refuses, Fed
<1> QED
  BY <1>2, <1>3 DEF Requested

\* A header that does not get its arguments is refused.
LEMMA RefusesHeader ==
  ASSUME NEW f, f.at = "head", NEW u \in Seq(LineByte), Len(u) < HeadLen[f.cmd], NEW d, NEW todo,
         Stage(f, u, d, todo), NEW r, r = Headed(f, FirstBytes(u, Len(u)))
  PROVE  Listed(d \o r.out) /\ Stage(r.fw, <<>>, d \o r.out, todo)
<1>1. d = <<>>
  BY AtHead
<1>2. PICK c \in Codes, rest \in Seq(Step) : todo = Cons(Echo(c), rest)
  BY AtHead
<1> DEFINE n == Len(u)
           bytes == FirstBytes(u, n)
<1>3. n \in Nat /\ n <= Len(u)
  BY LenProperties
<1>4. Len(u) = n
  OBVIOUS
<1> HIDE DEF n
<1>5. bytes \in Seq(AnyByte)
  BY <1>3, BytesTaken
<1>6. Len(bytes) = n
  BY <1>3, BytesTaken
<1> HIDE DEF bytes
<1>7. r = Headed(f, bytes) /\ Len(bytes) < HeadLen[f.cmd]
  BY <1>4, <1>6 DEF bytes
<1>8. r.fw.at = "loop" /\ r.out = <<Code("ERROR_RECV")>>
  BY <1>5, <1>7, HeaderShort
<1>9. d \o r.out = r.out /\ Listed(r.out)
  BY <1>1, <1>8, ShortLists, AddsNothing
<1>10. Refuses(r.fw, <<>>, r.out)
  BY <1>8 DEF Refuses
<1> QED
  BY <1>2, <1>9, <1>10 DEF Stage, AwaitsEcho

\* One byte less on its way to the sketch.
LEMMA OneLost ==
  ASSUME NEW u \in Seq(LineByte), NEW i \in 1..Len(u), NEW v, v = RemoveAt(u, i)
  PROVE  /\ Listed(v) /\ Len(v) = Len(u) - 1 /\ Len(u) \in Nat /\ Len(u) > 0
<1>1. Listed(u) /\ Len(u) \in Nat
  BY ListedOK, LenProperties
<1>2. \A k \in 1..Len(u) : Listed(RemoveAt(u, k)) /\ Len(RemoveAt(u, k)) = Len(u) - 1
  BY <1>1, ListedParts
<1> QED
  BY <1>1, <1>2

\* Those behind it move up.
LEMMA OthersMoveUp ==
  ASSUME NEW u \in Seq(LineByte), NEW i \in 1..Len(u), NEW v, v = RemoveAt(u, i), NEW j \in 1..Len(u) - 1
  PROVE  v[j] = IF j < i THEN u[j] ELSE u[j + 1]
<1>1. Listed(u)
  BY ListedOK
<1>2. \A k \in 1..Len(u) : \A l \in 1..Len(u) - 1 : RemoveAt(u, k)[l] = IF l < k THEN u[l] ELSE u[l + 1]
  BY <1>1, ListedParts
<1> QED
  BY <1>2

\* What is left of a request is behind the backlog still.
LEMMA RequestLost ==
  ASSUME NEW f, NEW u \in Seq(LineByte), NEW i \in 1..Len(u), ~u[i].unanswered, NEW v, v = RemoveAt(u, i),
         NEW c, NEW a \in Seq(AnyByte), Unread(f, u, c, a)
  PROVE  Unread(f, v, c, a)
<1>1. PICK b \in 0..Len(u) : Backlog(f, u, b) /\ Request(u, b, c, a)
  BY DEF Unread
<1>2. Len(v) = Len(u) - 1 /\ Len(u) \in Nat /\ Len(u) > 0 /\ Len(a) \in Nat /\ b \in Nat /\ i \in Nat
  BY OneLost, LenProperties
<1>3. ASSUME NEW j \in 1..Len(u) - 1 PROVE v[j] = IF j < i THEN u[j] ELSE u[j + 1]
  BY OthersMoveUp
<1>4. b < i /\ b <= Len(v)
  BY <1>1, <1>2 DEF Backlog
<1>5. \A j \in 1..b : v[j] = u[j]
  <2>1. ASSUME NEW j \in 1..b PROVE v[j] = u[j]
    <3>1. j \in 1..Len(u) - 1 /\ j < i
      BY <1>2, <1>4
    <3> QED
      BY <1>3, <3>1
  <2> QED
    BY <2>1
<1>6. Backlog(f, v, b)
  <2>1. \A j \in 1..b : v[j].unanswered
    BY <1>1, <1>5 DEF Backlog
  <2>2. CASE f.at = "loop" /\ \A j \in 1..b : u[j].byte[1] \in Told
    BY <1>5, <2>1, <2>2 DEF Backlog
  <2>3. CASE f.at = "ack" /\ f.left = 0 /\ b > 0 /\ u[1].byte = Code("ACK") /\ \A j \in 2..b : u[j].byte[1] \in Told
    <3>1. 1 \in 1..b /\ \A j \in 2..b : j \in 1..b
      BY <1>2, <2>3
    <3> QED
      BY <1>5, <2>1, <2>3, <3>1 DEF Backlog
  <2> QED
    BY <1>1, <2>2, <2>3 DEF Backlog
<1>7. \A j \in b + 2..Len(v) : NoCode(v[j].byte)
  <2>1. ASSUME NEW j \in b + 2..Len(v) PROVE NoCode(v[j].byte)
    <3>1. j \in 1..Len(u) - 1 /\ j \in b + 2..Len(u) /\ j + 1 \in b + 2..Len(u)
      BY <1>2
    <3> QED
      BY <1>1, <1>3, <3>1 DEF Request
  <2> QED
    BY <2>1
<1>8. ASSUME Len(v) > b
      PROVE  \/ NoCode(v[b + 1].byte) /\ Len(v) - b <= Len(a)
             \/ v[b + 1].byte = Code(c) /\ Arguments(v, b + 1, a)
  <2>1. b + 1 \in 1..Len(u) - 1 /\ b + 1 + 1 = b + 2 /\ b + 2 \in b + 2..Len(u) /\ Len(u) > b
    BY <1>2, <1>8
  <2>3. Len(v) - b <= Len(a)
    BY <1>1, <1>2, <2>1 DEF Request, Arguments
  <2>4. CASE i = b + 1
    <3>1. v[b + 1] = u[b + 2]
      BY <1>2, <1>3, <2>1, <2>4
    <3>2. NoCode(u[b + 2].byte)
      BY <1>1, <2>1 DEF Request
    <3> QED
      BY <2>3, <3>1, <3>2
  <2>5. CASE i # b + 1
    <3>1. b + 1 < i
      BY <1>2, <1>4, <2>5
    <3>2. v[b + 1] = u[b + 1]
      BY <1>3, <2>1, <3>1
    <3>3. CASE NoCode(u[b + 1].byte)
      BY <2>3, <3>2, <3>3
    <3>4. CASE ~NoCode(u[b + 1].byte)
      <4>1. u[b + 1].byte = Code(c) /\ Arguments(u, b + 1, a)
        BY <1>1, <2>1, <3>4 DEF Request
      <4>2. Len(v) - (b + 1) < Len(a)
        BY <1>2, <4>1 DEF Arguments
      <4>3. Arguments(v, b + 1, a)
        BY <1>2, <4>2 DEF Arguments
      <4> QED
        BY <3>2, <4>1, <4>3
    <3> QED
      BY <3>3, <3>4
  <2> QED
    BY <2>4, <2>5
<1>9. Request(v, b, c, a)
  BY <1>7, <1>8 DEF Request
<1>10. b \in 0..Len(v)
  BY <1>2, <1>4
<1> QED
  BY <1>6, <1>9, <1>10 DEF Unread

\* A byte lost that the call will miss.
LEMMA LosesUp ==
  ASSUME NEW f, NEW u \in Seq(LineByte), NEW i \in 1..Len(u), ~u[i].unanswered, NEW v, v = RemoveAt(u, i),
         NEW d, NEW todo, Stage(f, u, d, todo)
  PROVE  Stage(f, v, d, todo)
<1>1. /\ Listed(v) /\ Len(v) = Len(u) - 1 /\ Len(u) \in Nat /\ Len(u) > 0
  BY OneLost
<1>2. u # <<>>
  BY <1>1, EmptySeq
<1>3. CASE Bounded(f, u, Len(d), todo)
  <2>1. ~Begins(f, u, Len(d), todo)
    BY DEF Begins, Backlog
  <2>2. ~TakesByte(f, u, Len(d), todo) /\ ~Acks(f, u, Len(d), todo) /\ ~Feeds(f, u, Len(d), todo)
    BY <1>2 DEF TakesByte, Acks, Feeds
  <2>3. PICK n \in Nat, e \in Seq(AnySym) :
          /\ n > 0 /\ f.at = "ack" /\ todo = Reading(n, e)
          /\ Len(u) = 1 /\ f.left = n /\ Len(d) = 0
    BY <1>2, <1>3, <2>1, <2>2 DEF Bounded, Fetches
  <2>4. Len(v) = 0
    BY <1>1, <2>3
  <2>5. v = <<>>
    BY <1>1, <2>4, ListedParts
  <2>6. Fetches(f, v, Len(d), todo)
    BY <2>3, <2>5 DEF Fetches
  <2> QED
    BY <2>6 DEF Stage, Bounded
<1>4. CASE AwaitsEcho(f, u, d, todo)
  <2>1. PICK c \in Codes, rest \in Seq(Step) :
          /\ todo = Cons(Echo(c), rest)
          /\ Requested(f, u, d, c, rest) \/ Responds(f, u, d, rest) \/ Refuses(f, u, d) \/ Fed(f, u, d, c, rest)
    BY <1>4 DEF AwaitsEcho
  <2>2. ~Responds(f, u, d, rest) /\ ~Refuses(f, u, d) /\ ~Fed(f, u, d, c, rest)
    BY <1>2 DEF Responds, Refuses, Fed
  <2>3. PICK a \in Seq(AnyByte) : Asks(c, a, rest) /\ (Unread(f, u, c, a) \/ Heading(f, u, c, a))
    BY <2>1, <2>2 DEF Requested
  <2>4. d = <<>>
    BY <2>1, <2>2 DEF Requested
  <2>5. ASSUME Unread(f, u, c, a) PROVE Unread(f, v, c, a)
    BY <2>5, RequestLost
  <2>6. ASSUME Heading(f, u, c, a) PROVE Heading(f, v, c, a)
    <3>1. Len(a) \in Nat
      BY LenProperties
    <3>2. Len(v) - 0 < Len(a)
      BY <1>1, <2>6, <3>1 DEF Heading, Arguments
    <3> QED
      BY <1>1, <2>6, <3>1, <3>2 DEF Heading, Arguments
  <2>7. Unread(f, v, c, a) \/ Heading(f, v, c, a)
    BY <2>3, <2>5, <2>6
  <2> QED
    BY <2>1, <2>3, <2>4, <2>7 DEF Stage, AwaitsEcho, Requested
<1> QED
  BY <1>3, <1>4 DEF Stage

\* Fewer bytes on the way to the host are no more than it waits for.
LEMMA BoundedFewer ==
  ASSUME NEW f, NEW u, NEW k \in Nat, NEW todo, Bounded(f, u, k, todo), NEW j \in Nat, j <= k
  PROVE  Bounded(f, u, j, todo)
<1>1. CASE Begins(f, u, k, todo)
  BY <1>1 DEF Begins, Bounded
<1>2. CASE TakesByte(f, u, k, todo)
  BY <1>2 DEF TakesByte, Bounded
<1>3. CASE Fetches(f, u, k, todo)
  <2>1. PICK n \in Nat, e \in Seq(AnySym) :
          /\ n > 0 /\ f.at = "ack" /\ todo = Reading(n, e)
          /\ \/ u = <<>> /\ f.left = n - AtMost(rchunk, n) /\ k <= AtMost(rchunk, n)
             \/ (u = <<>> \/ (Len(u) = 1 /\ u[1].byte = Code("ACK"))) /\ f.left = n /\ k = 0
    BY <1>3 DEF Fetches
  <2>2. AtMost(rchunk, n) \in Nat
    BY ChunkAssumption DEF AtMost
  <2>3. k <= AtMost(rchunk, n) => j <= AtMost(rchunk, n)
    BY <2>2
  <2>4. k = 0 => j = 0
    OBVIOUS
  <2>5. Fetches(f, u, j, todo)
    BY <2>1, <2>3, <2>4 DEF Fetches
  <2> QED
    BY <2>5 DEF Bounded
<1>4. CASE Acks(f, u, k, todo)
  <2>1. k = 0
    BY <1>4 DEF Acks
  <2>2. j = k
    BY <2>1
  <2> QED
    BY <2>2
<1>5. CASE Feeds(f, u, k, todo)
  <2>1. k = 0
    BY <1>5 DEF Feeds
  <2>2. j = k
    BY <2>1
  <2> QED
    BY <2>2
<1> QED
  BY <1>1, <1>2, <1>3, <1>4, <1>5 DEF Bounded

\* An answer lost.
LEMMA LosesDown ==
  ASSUME NEW f, NEW u, NEW d, Listed(d), NEW todo, Stage(f, u, d, todo), NEW i \in 1..Len(d),
         NEW g, g = RemoveAt(d, i)
  PROVE  Listed(g) /\ Stage(f, u, g, todo)
<1>1. Len(d) \in Nat /\ Len(d) > 0 /\ d # <<>>
  BY ListedParts
<1>2. Listed(g) /\ Len(g) = Len(d) - 1
  <2>1. \A k \in 1..Len(d) : Listed(RemoveAt(d, k)) /\ Len(RemoveAt(d, k)) = Len(d) - 1
    BY ListedParts
  <2> QED
    BY <2>1
<1>3. Len(g) \in Nat /\ Len(g) <= Len(d) /\ (Len(g) = 0 <=> g = <<>>)
  <2>1. Len(g) = 0 <=> g = <<>>
    BY <1>2, ListedParts
  <2> QED
    BY <1>1, <1>2, <2>1
<1>4. CASE Bounded(f, u, Len(d), todo)
  <2>1. Bounded(f, u, Len(g), todo)
    BY <1>1, <1>3, <1>4, BoundedFewer
  <2> QED
    BY <1>2, <2>1 DEF Stage
<1>5. CASE AwaitsEcho(f, u, d, todo)
  <2>1. PICK c \in Codes, rest \in Seq(Step) :
          /\ todo = Cons(Echo(c), rest)
          /\ Requested(f, u, d, c, rest) \/ Responds(f, u, d, rest) \/ Refuses(f, u, d) \/ Fed(f, u, d, c, rest)
    BY <1>5 DEF AwaitsEcho
  <2>2. ~Requested(f, u, d, c, rest) /\ ~Fed(f, u, d, c, rest)
    BY <1>1 DEF Requested, Fed
  <2>3. Responds(f, u, g, rest)
    <3>1. CASE Responds(f, u, d, rest)
      <4>1. CASE g = <<>>
        BY <3>1, <4>1 DEF Responds
      <4>2. CASE g # <<>>
        <5> DEFINE k == Len(d) - 1
                   j == Len(g) - 1
        <5>1. k \in Nat /\ j \in Nat /\ j <= k
          BY <1>1, <1>2, <1>3, <4>2
        <5>2. Bounded(f, u, k, rest)
          BY <1>1, <3>1 DEF Responds
        <5> HIDE DEF k, j
        <5>3. Bounded(f, u, j, rest)
          BY <5>1, <5>2, BoundedFewer
        <5> QED
          BY <3>1, <5>3 DEF Responds, j
      <4> QED
        BY <4>1, <4>2
    <3>2. CASE Refuses(f, u, d)
      <4>1. Len(d) = 1
        BY <3>2, ShortLists DEF Refuses
      <4>2. g = <<>>
        BY <1>2, <1>3, <4>1
      <4> QED
        BY <3>2, <4>2 DEF Refuses, Responds
    <3> QED
      BY <2>1, <2>2, <3>1, <3>2
  <2> QED
    BY <1>2, <2>1, <2>3 DEF Stage, AwaitsEcho
<1> QED
  BY <1>4, <1>5 DEF Stage

-----------------------------------------------------------------------------
(***************************************************************************)
(* The host goes on with its call.                                         *)
(***************************************************************************)
\* The first step of a call and the rest.
LEMMA Unconses ==
  ASSUME NEW x \in Step, NEW s \in Seq(Step), NEW todo, todo = Cons(x, s)
  PROVE  todo # <<>> /\ Head(todo) = x /\ Tail(todo) = s
<1>1. Cons(x, s) # <<>>
  BY ConsOK
<1>2. Head(Cons(x, s)) = x
  BY ConsOK
<1>3. Tail(Cons(x, s)) = s
  BY ConsOK
<1> QED
  BY <1>1, <1>2, <1>3

\* What a step does.
LEMMA Doing ==
  /\ \A b : Send(b).do = "send"
  /\ \A b, s : Tell(b, s).do = "send"
  /\ \A n, e : Acking(n, e).do = "send"
  /\ \A id, o, n : Chunked(id, o, n).do = "send"
  /\ \A c : Echo(c).do = "echo" /\ Echo(c).code = c
  /\ \A n : RecvBuffer(n).do = "recv" /\ RecvBuffer(n).n = n
<1>1. \A b : Send(b).do = "send"
  BY DEF Send
<1>2. \A b, s : Tell(b, s).do = "send"
  BY DEF Tell
<1>3. \A n, e : Acking(n, e).do = "send"
  BY <1>1, <1>2 DEF Acking
<1>4. \A id, o, n : Chunked(id, o, n).do = "send"
  BY <1>2 DEF Chunked
<1>5. \A c : Echo(c).do = "echo" /\ Echo(c).code = c
  BY DEF Echo
<1>6. \A n : RecvBuffer(n).do = "recv" /\ RecvBuffer(n).n = n
  BY DEF RecvBuffer
<1> QED
  BY <1>1, <1>2, <1>3, <1>4, <1>5, <1>6

\* The bytes of a step are those it was made of.
LEMMA SentOK ==
  ASSUME NEW bytes \in Seq(AnyByte), NEW s
  PROVE  /\ Len(Send(bytes).bytes) = Len(bytes) /\ Len(Tell(bytes, s).bytes) = Len(bytes)
         /\ \A i \in 1..Len(bytes) : Send(bytes).bytes[i].byte = bytes[i]
         /\ \A i \in 1..Len(bytes) : Tell(bytes, s).bytes[i].byte = bytes[i]
         /\ \A i \in 1..Len(bytes) : Tell(bytes, s).bytes[i].unanswered
<1>1. Len(bytes) \in Nat /\ DOMAIN bytes = 1..Len(bytes)
  BY LenProperties
<1>2. Send(bytes).bytes = [i \in 1..Len(bytes) |-> [byte |-> bytes[i], unanswered |-> FALSE, symbols |-> <<>>]]
  BY <1>1 DEF Send
<1>3. Tell(bytes, s).bytes = [i \in 1..Len(bytes) |-> [byte |-> bytes[i], unanswered |-> TRUE, symbols |-> s]]
  BY <1>1 DEF Tell
<1>4. Len(Send(bytes).bytes) = Len(bytes)
  <2> DEFINE w == Send(bytes).bytes
  <2>1. w \in [1..Len(bytes) -> {w[i] : i \in 1..Len(bytes)}]
    BY <1>2
  <2> HIDE DEF w
  <2>2. Len(w) = Len(bytes)
    BY <1>1, <2>1, TableOK
  <2> QED
    BY <2>2 DEF w
<1>5. Len(Tell(bytes, s).bytes) = Len(bytes)
  <2> DEFINE w == Tell(bytes, s).bytes
  <2>1. w \in [1..Len(bytes) -> {w[i] : i \in 1..Len(bytes)}]
    BY <1>3
  <2> HIDE DEF w
  <2>2. Len(w) = Len(bytes)
    BY <1>1, <2>1, TableOK
  <2> QED
    BY <2>2 DEF w
<1>6. \A i \in 1..Len(bytes) : Send(bytes).bytes[i].byte = bytes[i]
  BY <1>2
<1>7. \A i \in 1..Len(bytes) : Tell(bytes, s).bytes[i].byte = bytes[i]
  BY <1>3
<1>8. \A i \in 1..Len(bytes) : Tell(bytes, s).bytes[i].unanswered
  BY <1>3
<1> QED
  BY <1>4, <1>5, <1>6, <1>7, <1>8

\* A backlog is its bytes.
LEMMA BacklogKept ==
  ASSUME NEW f, NEW u, NEW b \in Nat, Backlog(f, u, b), NEW v, \A j \in 1..b : v[j] = u[j]
  PROVE  Backlog(f, v, b)
<1>1. \A j \in 1..b : v[j].unanswered
  BY DEF Backlog
<1>2. CASE f.at = "loop" /\ \A j \in 1..b : u[j].byte[1] \in Told
  BY <1>1, <1>2 DEF Backlog
<1>3. CASE f.at = "ack" /\ f.left = 0 /\ b > 0 /\ u[1].byte = Code("ACK") /\ \A j \in 2..b : u[j].byte[1] \in Told
  <2>1. 1 \in 1..b /\ \A j \in 2..b : j \in 1..b
    BY <1>3
  <2> QED
    BY <1>1, <1>3, <2>1 DEF Backlog
<1> QED
  BY <1>2, <1>3 DEF Backlog

\* Bytes behind those on the line.
LEMMA Behind ==
  ASSUME NEW u \in Seq(LineByte), NEW w \in Seq(LineByte), NEW v, v = u \o w
  PROVE  /\ Len(v) = Len(u) + Len(w) /\ Len(u) \in Nat /\ Len(w) \in Nat
         /\ \A i \in 1..Len(u) : v[i] = u[i]
         /\ \A i \in 1..Len(w) : v[Len(u) + i] = w[i]
<1>1. Len(u) \in Nat /\ Len(w) \in Nat
  BY LenProperties
<1>2. /\ Len(v) = Len(u) + Len(w)
      /\ \A i \in 1 .. Len(u) + Len(w) : v[i] = IF i <= Len(u) THEN u[i] ELSE w[i - Len(u)]
  BY ConcatProperties
<1>3. \A i \in 1..Len(u) : v[i] = u[i]
  BY <1>1, <1>2
<1>4. ASSUME NEW i \in 1..Len(w) PROVE v[Len(u) + i] = w[i]
  <2>1. Len(u) + i \in 1 .. Len(u) + Len(w) /\ ~(Len(u) + i <= Len(u)) /\ Len(u) + i - Len(u) = i
    BY <1>1
  <2> QED
    BY <1>2, <2>1
<1> QED
  BY <1>1, <1>2, <1>3, <1>4

\* A function is sent behind the backlog.
LEMMA SendsFunction ==
  ASSUME NEW f, NEW u \in Seq(LineByte), Backlog(f, u, Len(u)), NEW c \in Codes, NEW a \in Seq(AnyByte), NoCodes(a),
         NEW v, v = u \o Send(Cons(Code(c), a)).bytes
  PROVE  Unread(f, v, c, a)
<1> DEFINE x == Code(c)
           t == Cons(x, a)
           w == Send(t).bytes
           b == Len(u)
           m == Len(a)
<1>1. x \in AnyByte
  BY BytesOK
<1> HIDE DEF x
<1>2. t \in Seq(AnyByte) /\ Len(t) = m + 1 /\ t[1] = x /\ \A i \in 2..m + 1 : t[i] = a[i - 1]
  BY <1>1, ConsOK
<1>3. m \in Nat /\ b \in Nat
  BY LenProperties
<1> HIDE DEF t
<1>4. w \in Seq(LineByte)
  <2>1. <<>> \in Seq(AnySym)
    BY EmptySeq
  <2>2. Send(t) \in Step
    BY <1>2, <2>1, SendOK
  <2> QED
    BY <2>2, Doing DEF Step
<1>5. Len(w) = Len(t) /\ \A i \in 1..Len(t) : w[i].byte = t[i]
  BY <1>2, SentOK
<1>6. v = u \o w
  BY DEF w, t, x
<1> HIDE DEF w, b, m
<1>7. Len(v) = b + (m + 1)
  <2>1. Len(v) = Len(u) + Len(w)
    BY <1>4, <1>6, Behind
  <2>2. Len(v) = b + Len(w)
    BY <2>1 DEF b
  <2>3. Len(w) = m + 1
    BY <1>2, <1>5
  <2> QED
    BY <2>2, <2>3
<1>8. \A i \in 1..b : v[i] = u[i]
  BY <1>4, <1>6, Behind DEF b
<1>9. \A i \in 1..Len(w) : v[b + i] = w[i]
  BY <1>4, <1>6, Behind DEF b
<1>10. Backlog(f, v, b)
  <2>1. Backlog(f, u, b)
    BY DEF b
  <2> QED
    BY <1>3, <1>8, <2>1, BacklogKept
<1>11. v[b + 1].byte = x
  <2>1. 1 \in 1..Len(w) /\ 1 \in 1..Len(t)
    BY <1>2, <1>3, <1>5
  <2>2. v[b + 1] = w[1]
    BY <1>9, <2>1
  <2>3. w[1].byte = t[1]
    BY <1>5, <2>1
  <2> QED
    BY <1>2, <2>2, <2>3
<1>12. ASSUME NEW i \in 1..m PROVE v[b + 1 + i].byte = a[i]
  <2>1. 1 + i \in 1..Len(w) /\ 1 + i \in 1..Len(t) /\ 1 + i \in 2..m + 1 /\ 1 + i - 1 = i /\ b + (1 + i) = b + 1 + i
    BY <1>2, <1>3, <1>5
  <2> DEFINE k == 1 + i
  <2>2. k \in 1..Len(w) /\ k \in 1..Len(t) /\ k \in 2..m + 1 /\ k - 1 = i /\ b + k = b + 1 + i
    BY <2>1
  <2> HIDE DEF k
  <2>3. v[b + k] = w[k]
    BY <1>9, <2>2
  <2>4. w[k].byte = t[k]
    BY <1>5, <2>2
  <2>5. t[k] = a[k - 1]
    BY <1>2, <2>2
  <2> QED
    BY <2>2, <2>3, <2>4, <2>5
<1>13. ASSUME NEW j \in b + 2..Len(v) PROVE NoCode(v[j].byte)
  <2> DEFINE i == j - b - 1
  <2>1. i \in 1..m /\ b + 1 + i = j
    BY <1>3, <1>7
  <2> HIDE DEF i
  <2>2. v[j].byte = a[i]
    BY <1>12, <2>1
  <2>3. NoCode(a[i])
    BY <2>1 DEF NoCodes, m
  <2> QED
    BY <2>2, <2>3
<1>14. Arguments(v, b + 1, a)
  <2>1. Len(v) - (b + 1) = m
    BY <1>3, <1>7
  <2> QED
    BY <1>3, <1>12, <2>1 DEF Arguments, m
<1>15. Request(v, b, c, a)
  BY <1>11, <1>13, <1>14 DEF Request, x
<1>16. b \in 0..Len(v)
  BY <1>3, <1>7
<1> QED
  BY <1>10, <1>15, <1>16 DEF Unread

\* How many bytes that makes.
LEMMA LenBehind ==
  \A u \in Seq(LineByte), w \in Seq(LineByte) : Len(u \o w) = Len(u) + Len(w)
<1> TAKE u \in Seq(LineByte), w \in Seq(LineByte)
<1> QED
  BY Behind

\* Where the new ones are.
LEMMA PlaceBehind ==
  \A u \in Seq(LineByte), w \in Seq(LineByte) : \A i \in 1..Len(w) : (u \o w)[Len(u) + i] = w[i]
<1> TAKE u \in Seq(LineByte), w \in Seq(LineByte)
<1> QED
  BY Behind

\* A byte that is only told, behind the backlog, joins it.
LEMMA JoinsBacklog ==
  ASSUME NEW f, NEW u \in Seq(LineByte), NEW c, NEW w \in Seq(LineByte),
         Len(w) = 1, w[1].byte = Code(c), w[1].unanswered, NEW v, v = u \o w,
         \/ Backlog(f, u, Len(u)) /\ c \in Told
         \/ u = <<>> /\ f.at = "ack" /\ f.left = 0 /\ c = "ACK"
  PROVE  Backlog(f, v, Len(v))
<1> DEFINE b == Len(u)
<1>1. /\ Len(v) = b + Len(w) /\ \A i \in 1..b : v[i] = u[i]
      /\ \A i \in 1..Len(w) : v[b + i] = w[i]
  <2> DEFINE x == u \o w
  <2>1. v = x
    OBVIOUS
  <2>2. Len(x) = b + Len(w)
    BY LenBehind
  <2>3. \A i \in 1..b : x[i] = u[i]
    BY Behind
  <2>4. \A i \in 1..Len(w) : x[b + i] = w[i]
    BY PlaceBehind
  <2> HIDE DEF x, b
  <2> QED
    BY <2>1, <2>2, <2>3, <2>4
<1>3. Len(w) = 1 /\ w[1].byte = Code(c) /\ w[1].unanswered
  OBVIOUS
<1> HIDE DEF b
<1>5. b \in Nat
  BY LenProperties DEF b
<1>6. Len(v) = b + 1
  BY <1>1, <1>3
<1>7. \A i \in 1..b : v[i] = u[i]
  BY <1>1
<1>8. \A i \in 1..Len(w) : v[b + i] = w[i]
  BY <1>1
<1>9. v[b + 1] = w[1]
  <2>1. 1 \in 1..Len(w)
    BY <1>3
  <2> QED
    BY <1>8, <2>1
<1>10. Code(c)[1] = c
  BY DEF Code
<1>11. CASE Backlog(f, u, b) /\ c \in Told
  <2>1. ASSUME NEW i \in 1..b + 1 PROVE v[i].unanswered
    <3>1. i \in 1..b \/ i = b + 1
      BY <1>5
    <3>2. CASE i \in 1..b
      BY <1>7, <1>11, <3>2 DEF Backlog
    <3>3. CASE i = b + 1
      BY <1>3, <1>9, <3>3
    <3> QED
      BY <3>1, <3>2, <3>3
  <2>2. CASE f.at = "loop" /\ \A i \in 1..b : u[i].byte[1] \in Told
    <3>1. ASSUME NEW i \in 1..b + 1 PROVE v[i].byte[1] \in Told
      <4>1. i \in 1..b \/ i = b + 1
        BY <1>5
      <4>2. CASE i \in 1..b
        BY <1>7, <2>2, <4>2
      <4>3. CASE i = b + 1
        BY <1>3, <1>9, <1>10, <1>11, <4>3
      <4> QED
        BY <4>1, <4>2, <4>3
    <3> QED
      BY <1>6, <2>1, <2>2, <3>1 DEF Backlog
  <2>3. CASE f.at = "ack" /\ f.left = 0 /\ b > 0 /\ u[1].byte = Code("ACK") /\ \A i \in 2..b : u[i].byte[1] \in Told
    <3>1. \A i \in 2..b + 1 : v[i].byte[1] \in Told
      <4>1. ASSUME NEW i \in 2..b + 1 PROVE v[i].byte[1] \in Told
        <5>1. CASE i \in 2..b
          <6>1. i \in 1..b
            BY <5>1
          <6> QED
            BY <1>7, <2>3, <5>1, <6>1
        <5>2. CASE i = b + 1
          BY <1>3, <1>9, <1>10, <1>11, <5>2
        <5>3. i \in 2..b \/ i = b + 1
          BY <1>5
        <5> QED
          BY <5>1, <5>2, <5>3
      <4> QED
        BY <4>1
    <3>2. v[1].byte = Code("ACK") /\ b + 1 > 0
      <4>1. 1 \in 1..b
        BY <1>5, <2>3
      <4>2. v[1] = u[1]
        BY <1>7, <4>1
      <4>3. b + 1 > 0
        BY <1>5
      <4> QED
        BY <2>3, <4>2, <4>3
    <3> QED
      BY <1>6, <2>1, <2>3, <3>1, <3>2 DEF Backlog
  <2> QED
    BY <1>11, <2>2, <2>3 DEF Backlog
<1>12. CASE u = <<>> /\ f.at = "ack" /\ f.left = 0 /\ c = "ACK"
  <2>1. b = 0
    <3>1. u = <<>>
      BY <1>12
    <3>2. Len(<<>>) = 0
      BY EmptySeq
    <3> QED
      BY <3>1, <3>2 DEF b
  <2>2. Len(v) = 1 /\ v[1].byte = Code("ACK") /\ v[1].unanswered
    BY <1>3, <1>6, <1>9, <1>12, <2>1
  <2>3. 1 .. Len(v) = {1} /\ 2 .. Len(v) = {} /\ Len(v) > 0
    BY <2>2
  <2>4. \A i \in 1 .. Len(v) : v[i].unanswered
    BY <2>2, <2>3
  <2>5. \A i \in 2 .. Len(v) : v[i].byte[1] \in Told
    BY <2>3
  <2> QED
    BY <1>12, <2>2, <2>3, <2>4, <2>5 DEF Backlog
<1> QED
  BY <1>11, <1>12 DEF b

\* A command that is only told joins the backlog.
LEMMA SendsTold ==
  ASSUME NEW f, NEW u \in Seq(LineByte), NEW c, NEW s \in Seq(AnySym), Code(c) \in AnyByte,
         NEW v, v = u \o Tell(<<Code(c)>>, s).bytes,
         \/ Backlog(f, u, Len(u)) /\ c \in Told
         \/ u = <<>> /\ f.at = "ack" /\ f.left = 0 /\ c = "ACK"
  PROVE  Backlog(f, v, Len(v))
<1> DEFINE t == <<Code(c)>>
           w == Tell(t, s).bytes
<1>1. t \in Seq(AnyByte) /\ Len(t) = 1 /\ t[1] = Code(c)
  BY ShortOK
<1> HIDE DEF t
<1>2. w \in Seq(LineByte)
  <2>1. Tell(t, s) \in Step
    BY <1>1, SendOK
  <2> QED
    BY <2>1, Doing DEF Step
<1>3. Len(w) = 1 /\ w[1].byte = Code(c) /\ w[1].unanswered
  <2>1. 1 \in 1..Len(t)
    BY <1>1
  <2>2. Len(w) = Len(t)
    BY <1>1, SentOK
  <2>3. \A i \in 1..Len(t) : w[i].byte = t[i]
    BY <1>1, SentOK
  <2>4. \A i \in 1..Len(t) : w[i].unanswered
    BY <1>1, SentOK
  <2> QED
    BY <1>1, <2>1, <2>2, <2>3, <2>4
<1>4. v = u \o w
  BY DEF w, t
<1> HIDE DEF w
<1> QED
  BY <1>2, <1>3, <1>4, JoinsBacklog

\* What the host does first, whatever it is about.
LEMMA FirstStep ==
  ASSUME NEW f, NEW u, NEW k, NEW d, NEW todo
  PROVE  /\ Starts(todo) => todo = <<>> \/ (todo # <<>> /\ Head(todo).do = "send")
         /\ TakesByte(f, u, k, todo) => todo # <<>> /\ Head(todo).do = "recv"
         /\ Fetches(f, u, k, todo) => todo # <<>> /\ Head(todo).do = "recv"
         /\ Acks(f, u, k, todo) => todo # <<>> /\ Head(todo).do = "send"
         /\ Feeds(f, u, k, todo) => todo # <<>> /\ Head(todo).do = "send"
         /\ AwaitsEcho(f, u, d, todo) => todo # <<>> /\ Head(todo).do = "echo"
<1>1. ASSUME Starts(todo), todo # <<>> PROVE Head(todo).do = "send"
  <2>1. CASE \E c \in Codes, a \in Seq(AnyByte), s \in Seq(Step) :
               Asks(c, a, s) /\ todo = Cons(Send(Cons(Code(c), a)), Cons(Echo(c), s))
    <3>1. PICK c \in Codes, a \in Seq(AnyByte), s \in Seq(Step) : todo = Cons(Send(Cons(Code(c), a)), Cons(Echo(c), s))
      BY <2>1
    <3> DEFINE t == Cons(Code(c), a)
               x == Send(t)
               y == Cons(Echo(c), s)
    <3>2. t \in Seq(AnyByte)
      BY BytesOK, ConsOK
    <3> HIDE DEF t
    <3>3. x \in Step
      <4>1. <<>> \in Seq(AnySym)
        BY EmptySeq
      <4> QED
        BY <3>2, <4>1, SendOK
    <3>4. y \in Seq(Step)
      BY WaitOK, ConsOK
    <3>5. x.do = "send"
      BY Doing
    <3>6. todo = Cons(x, y)
      BY <3>1 DEF t
    <3> HIDE DEF x, y
    <3> QED
      BY <3>3, <3>4, <3>5, <3>6, Unconses
  <2>2. CASE \E c \in Told, s \in Seq(AnySym) : todo = <<Tell(<<Code(c)>>, s)>>
    <3>1. PICK c, s : todo = <<Tell(<<Code(c)>>, s)>>
      BY <2>2
    <3> QED
      BY <3>1, Doing
  <2> QED
    BY <1>1, <2>1, <2>2 DEF Starts
<1>2. ASSUME TakesByte(f, u, k, todo) PROVE todo # <<>> /\ Head(todo).do = "recv"
  <2>1. todo = <<RecvBuffer(1)>>
    BY <1>2 DEF TakesByte
  <2>2. Head(todo) = RecvBuffer(1)
    BY <2>1
  <2> QED
    BY <2>1, <2>2, Doing, ShortLists
<1>3. ASSUME Fetches(f, u, k, todo) PROVE todo # <<>> /\ Head(todo).do = "recv"
  <2>1. PICK n \in Nat, e \in Seq(AnySym) : n > 0 /\ todo = Reading(n, e)
    BY <1>3 DEF Fetches
  <2> DEFINE j == AtMost(rchunk, n)
             x == RecvBuffer(j)
             z == Acking(n - j, e)
             y == Cons(z, Reading(n - j, e))
  <2>2. todo = Cons(x, y) /\ n - j \in Nat /\ z \in Step /\ x \in Step
    BY <2>1, ReadingSplit
  <2>3. x.do = "recv"
    BY Doing
  <2> HIDE DEF x, j, z
  <2>4. y \in Seq(Step)
    BY <2>2, ReadingAt, ConsOK
  <2> HIDE DEF y
  <2> QED
    BY <2>2, <2>3, <2>4, Unconses
<1>4. ASSUME Acks(f, u, k, todo) PROVE todo # <<>> /\ Head(todo).do = "send"
  <2>1. PICK n \in Nat, e \in Seq(AnySym) : todo = Cons(Acking(n, e), Reading(n, e))
    BY <1>4 DEF Acks
  <2> DEFINE x == Acking(n, e)
             y == Reading(n, e)
  <2>2. x \in Step
    <3>1. Code("ACK") \in AnyByte
      BY BytesOK DEF Codes
    <3>2. <<Code("ACK")>> \in Seq(AnyByte)
      BY <3>1, ShortOK
    <3>3. Send(<<Code("ACK")>>) \in Step /\ Tell(<<Code("ACK")>>, e) \in Step
      BY <3>2, SendOK
    <3> QED
      BY <3>3 DEF Acking
  <2>3. y \in Seq(Step)
    BY ReadingAt
  <2>4. x.do = "send"
    BY Doing
  <2>5. todo = Cons(x, y)
    BY <2>1
  <2> HIDE DEF x, y
  <2> QED
    BY <2>2, <2>3, <2>4, <2>5, Unconses
<1>5. ASSUME Feeds(f, u, k, todo) PROVE todo # <<>> /\ Head(todo).do = "send"
  <2> DEFINE size == SizeOf(f.cmd)
  <2>1. PICK id \in Nat, o \in Nat, n \in Nat, more \in Seq(Step) :
          n > 0 /\ todo = WritingFrom(id, o, n, size) \o more
    BY <1>5 DEF Feeds
  <2>2. size \in Nat \ {0}
    BY ChunkAssumption DEF SizeOf
  <2> HIDE DEF size
  <2>3. PICK j \in Nat, rest \in Seq(Step) :
          /\ WritingFrom(id, o, n, size) \o more = Cons(Chunked(id, o, j), Cons(Echo("ACK"), rest))
          /\ j = AtMost(size, n) /\ rest = WritingFrom(id, o + j, n - j, size) \o more
          /\ Chunked(id, o, j) \in Step /\ j > 0 /\ j <= n /\ n - j \in Nat /\ o + j \in Nat
    <3>1. BeginsWriting(id, o, n, size, more)
      BY <2>1, <2>2, WritingMore
    <3> QED
      BY <3>1 DEF BeginsWriting
  <2> DEFINE x == Chunked(id, o, j)
             y == Cons(Echo("ACK"), rest)
  <2>4. x.do = "send"
    BY Doing
  <2>5. todo = Cons(x, y) /\ x \in Step
    BY <2>1, <2>3
  <2> HIDE DEF x
  <2>6. y \in Seq(Step)
    BY WaitOK, ConsOK DEF Codes
  <2> HIDE DEF y
  <2> QED
    BY <2>4, <2>5, <2>6, Unconses
<1>6. ASSUME AwaitsEcho(f, u, d, todo) PROVE todo # <<>> /\ Head(todo).do = "echo"
  <2>1. PICK c \in Codes, rest \in Seq(Step) : todo = Cons(Echo(c), rest)
    BY <1>6 DEF AwaitsEcho
  <2> DEFINE x == Echo(c)
  <2>2. x \in Step /\ x.do = "echo" /\ todo = Cons(x, rest)
    BY <2>1, WaitOK, Doing
  <2> HIDE DEF x
  <2> QED
    BY <2>2, Unconses
<1> QED
  BY <1>1, <1>2, <1>3, <1>4, <1>5, <1>6

\* The ACK of a chunk that is not the last.
LEMMA AcksMore ==
  ASSUME NEW f, NEW u, NEW k, NEW todo, Acks(f, u, k, todo), f.left > 0, NEW d, k = Len(d)
  PROVE  Stage(f, <<>> \o Head(todo).bytes, d, Tail(todo))
<1>1. PICK n \in Nat, e \in Seq(AnySym) :
        /\ f.at = "ack" /\ todo = Cons(Acking(n, e), Reading(n, e))
        /\ u = <<>> /\ f.left = n /\ k = 0
  BY DEF Acks
<1> DEFINE t == <<Code("ACK")>>
           x == Send(t)
           y == Reading(n, e)
<1>2. n > 0 /\ Acking(n, e) = x
  BY <1>1 DEF Acking
<1>3. t \in Seq(AnyByte) /\ Len(t) = 1 /\ t[1] = Code("ACK")
  <2>1. Code("ACK") \in AnyByte
    BY BytesOK DEF Codes
  <2> QED
    BY <2>1, ShortOK
<1> HIDE DEF t
<1>4. x \in Step
  <2>1. <<>> \in Seq(AnySym)
    BY EmptySeq
  <2> QED
    BY <1>3, <2>1, SendOK
<1>5. y \in Seq(Step)
  BY ReadingAt
<1>6. x.bytes \in Seq(LineByte)
  BY <1>4, Doing DEF Step
<1>7. Len(x.bytes) = 1 /\ x.bytes[1].byte = Code("ACK")
  <2>1. Len(x.bytes) = Len(t)
    BY <1>3, SentOK
  <2>2. \A i \in 1..Len(t) : x.bytes[i].byte = t[i]
    BY <1>3, SentOK
  <2>3. 1 \in 1..Len(t)
    BY <1>3
  <2> QED
    BY <1>3, <2>1, <2>2, <2>3
<1>8. todo = Cons(x, y)
  BY <1>1, <1>2
<1>9. y = Reading(n, e)
  OBVIOUS
<1> HIDE DEF x, y
<1>10. Head(todo) = x /\ Tail(todo) = y
  BY <1>4, <1>5, <1>8, Unconses
<1>11. <<>> \o x.bytes = x.bytes
  BY <1>6, ListedOK, AddsNothing
<1>12. Fetches(f, x.bytes, Len(d), y)
  BY <1>1, <1>2, <1>7, <1>9 DEF Fetches
<1> QED
  BY <1>10, <1>11, <1>12 DEF Stage, Bounded

\* The ACK of the last one is told, and ends the call or this half of it.
LEMMA AcksLast ==
  ASSUME NEW f, NEW u, NEW k, NEW todo, Acks(f, u, k, todo), f.left = 0, NEW d, k = Len(d)
  PROVE  Stage(f, <<>> \o Head(todo).bytes, d, Tail(todo))
<1>1. PICK n \in Nat, e \in Seq(AnySym) :
        /\ f.at = "ack" /\ todo = Cons(Acking(n, e), Reading(n, e))
        /\ u = <<>> /\ f.left = n /\ k = 0
  BY DEF Acks
<1> DEFINE x == Tell(<<Code("ACK")>>, e)
           v == <<>> \o x.bytes
<1>2. n = 0 /\ Acking(n, e) = x
  BY <1>1 DEF Acking
<1>3. Reading(n, e) = <<>>
  BY <1>2, ReadingNone
<1>4. Code("ACK") \in AnyByte
  BY BytesOK DEF Codes
<1>5. x \in Step
  <2>1. <<Code("ACK")>> \in Seq(AnyByte)
    BY <1>4, ShortOK
  <2> QED
    BY <2>1, SendOK
<1>6. Backlog(f, v, Len(v))
  <2>1. <<>> \in Seq(LineByte)
    BY EmptySeq
  <2>2. f.at = "ack" /\ f.left = 0
    BY <1>1
  <2>3. v = <<>> \o Tell(<<Code("ACK")>>, e).bytes
    OBVIOUS
  <2> HIDE DEF v, x
  <2> QED
    BY <1>4, <2>1, <2>2, <2>3, SendsTold
<1>7. todo = Cons(x, <<>>)
  BY <1>1, <1>2, <1>3
<1> HIDE DEF x
<1>8. Head(todo) = x /\ Tail(todo) = <<>>
  <2>1. <<>> \in Seq(Step)
    BY EmptySeq
  <2> QED
    BY <1>5, <1>7, <2>1, Unconses
<1>9. Begins(f, v, Len(d), <<>>)
  BY <1>1, <1>6 DEF Begins, Starts
<1> QED
  BY <1>8, <1>9 DEF Stage, Bounded

\* The next chunk of data.
LEMMA SendsChunk ==
  ASSUME NEW f, FwOK(f), NEW u, NEW k, NEW todo, Feeds(f, u, k, todo), NEW d, d = <<>>
  PROVE  Stage(f, <<>> \o Head(todo).bytes, d, Tail(todo))
<1> DEFINE size == SizeOf(f.cmd)
<1>1. PICK id \in Nat, o \in Nat, n \in Nat, more \in Seq(Step) :
        /\ n > 0 /\ f.at = "data" /\ f.left = n /\ Fits(f.cmd, n)
        /\ MayRead(more) /\ todo = WritingFrom(id, o, n, SizeOf(f.cmd)) \o more
        /\ u = <<>> /\ k = 0
  BY DEF Feeds
<1>2. size \in Nat \ {0} /\ todo = WritingFrom(id, o, n, size) \o more
  BY <1>1, ChunkAssumption DEF SizeOf
<1>3. size = SizeOf(f.cmd)
  OBVIOUS
<1> HIDE DEF size
<1>4. PICK j \in Nat, rest \in Seq(Step) :
        /\ WritingFrom(id, o, n, size) \o more = Cons(Chunked(id, o, j), Cons(Echo("ACK"), rest))
        /\ j = AtMost(size, n) /\ rest = WritingFrom(id, o + j, n - j, size) \o more
        /\ Chunked(id, o, j) \in Step /\ j > 0 /\ j <= n /\ n - j \in Nat /\ o + j \in Nat
  <2>1. BeginsWriting(id, o, n, size, more)
    BY <1>1, <1>2, WritingMore
  <2> QED
    BY <2>1 DEF BeginsWriting
<1> DEFINE t == [i \in 1..j |-> Data(id, o + i)]
           x == Chunked(id, o, j)
           y == Cons(Echo("ACK"), rest)
           v == x.bytes
<1>5. t \in Seq(AnyByte) /\ Len(t) = j
  <2>1. \A i \in 1..j : Data(id, o + i) \in AnyByte
    <3>1. \A i \in 1..j : o + i \in Nat
      OBVIOUS
    <3> QED
      BY <3>1, BytesOK
  <2>2. t \in [1..j -> AnyByte]
    BY <2>1
  <2> HIDE DEF t
  <2> QED
    BY <2>2, TableOK
<1>6. x = Tell(t, <<>>)
  BY DEF Chunked
<1> HIDE DEF t
<1>7. Len(v) = j /\ \A i \in 1..j : v[i].unanswered
  <2>1. Len(v) = Len(t)
    BY <1>5, <1>6, SentOK
  <2>2. \A i \in 1..Len(t) : v[i].unanswered
    BY <1>5, <1>6, SentOK
  <2> QED
    BY <1>5, <2>1, <2>2
<1>8. v \in Seq(LineByte)
  BY <1>4, Doing DEF Step
<1>9. y \in Seq(Step)
  BY WaitOK, ConsOK DEF Codes
<1>10. todo = Cons(x, y) /\ x \in Step /\ y = Cons(Echo("ACK"), rest)
  BY <1>2, <1>4
<1> HIDE DEF x, y
<1>11. Head(todo) = x /\ Tail(todo) = y
  BY <1>9, <1>10, Unconses
<1>12. <<>> \o v = v
  BY <1>8, ListedOK, AddsNothing
<1> HIDE DEF v
<1>13. Fed(f, v, d, "ACK", rest)
  <2>1. AtMost(SizeOf(f.cmd), f.left) = j /\ rest = WritingFrom(id, o + j, f.left - j, SizeOf(f.cmd)) \o more
    BY <1>1, <1>3, <1>4
  <2>2. o + j \in Nat
    BY <1>4
  <2> QED
    BY <1>1, <1>7, <2>1, <2>2 DEF Fed
<1>14. "ACK" \in Codes
  BY DEF Codes
<1>15. AwaitsEcho(f, v, d, y)
  BY <1>10, <1>13, <1>14 DEF AwaitsEcho
<1> QED
  BY <1>11, <1>12, <1>15 DEF Stage, v

\* A call, or its second half, begins.
LEMMA SendsFirst ==
  ASSUME NEW f, NEW u \in Seq(LineByte), NEW todo, todo # <<>>, NEW d, d = <<>>, Begins(f, u, Len(d), todo),
         NEW v, v = u \o Head(todo).bytes
  PROVE  Stage(f, v, d, Tail(todo))
<1>1. Backlog(f, u, Len(u)) /\ Starts(todo)
  BY DEF Begins
<1>2. CASE \E c \in Codes, a \in Seq(AnyByte), s \in Seq(Step) :
             Asks(c, a, s) /\ todo = Cons(Send(Cons(Code(c), a)), Cons(Echo(c), s))
  <2>1. PICK c \in Codes, a \in Seq(AnyByte), s \in Seq(Step) :
          Asks(c, a, s) /\ todo = Cons(Send(Cons(Code(c), a)), Cons(Echo(c), s))
    BY <1>2
  <2> DEFINE t == Cons(Code(c), a)
             x == Send(t)
             y == Cons(Echo(c), s)
  <2>2. t \in Seq(AnyByte)
    BY BytesOK, ConsOK
  <2>3. NoCodes(a)
    BY <2>1, AsksWhat
  <2>4. todo = Cons(x, y) /\ x = Send(Cons(Code(c), a)) /\ y = Cons(Echo(c), s)
    BY <2>1
  <2> HIDE DEF t
  <2>5. x \in Step
    <3>1. <<>> \in Seq(AnySym)
      BY EmptySeq
    <3> QED
      BY <2>2, <3>1, SendOK
  <2>6. y \in Seq(Step)
    BY WaitOK, ConsOK
  <2> HIDE DEF x, y
  <2>7. Head(todo) = x /\ Tail(todo) = y
    BY <2>4, <2>5, <2>6, Unconses
  <2>8. Unread(f, v, c, a)
    <3>1. v = u \o Send(Cons(Code(c), a)).bytes
      BY <2>4, <2>7
    <3> QED
      BY <1>1, <2>3, <3>1, SendsFunction
  <2>9. Requested(f, v, d, c, s)
    BY <2>1, <2>8 DEF Requested
  <2>10. AwaitsEcho(f, v, d, y)
    BY <2>4, <2>9 DEF AwaitsEcho
  <2> QED
    BY <2>7, <2>10 DEF Stage
<1>3. CASE \E c \in Told, s \in Seq(AnySym) : todo = <<Tell(<<Code(c)>>, s)>>
  <2>1. PICK c \in Told, s \in Seq(AnySym) : todo = <<Tell(<<Code(c)>>, s)>>
    BY <1>3
  <2>2. Code(c) \in AnyByte
    BY BytesOK DEF Told, Codes
  <2> DEFINE x == Tell(<<Code(c)>>, s)
  <2>3. todo = <<x>> /\ x = Tell(<<Code(c)>>, s)
    BY <2>1
  <2> HIDE DEF x
  <2>4. Head(todo) = x /\ Tail(todo) = <<>>
    BY <2>3
  <2>5. v = u \o Tell(<<Code(c)>>, s).bytes
    BY <2>3, <2>4
  <2>6. Backlog(f, v, Len(v))
    BY <1>1, <2>2, <2>5, SendsTold
  <2>7. Begins(f, v, Len(d), <<>>)
    BY <2>6, EmptySeq DEF Begins, Starts
  <2> QED
    BY <2>4, <2>7 DEF Stage, Bounded
<1> QED
  BY <1>1, <1>2, <1>3 DEF Starts

\* What the host sends is of the call under way.
LEMMA SendsOn ==
  ASSUME NEW f, FwOK(f), NEW u \in Seq(LineByte), NEW d, Listed(d), NEW todo, Stage(f, u, d, todo),
         todo # <<>>, Head(todo).do = "send", NEW v, v = u \o Head(todo).bytes
  PROVE  Stage(f, v, d, Tail(todo))
<1>1. CASE Begins(f, u, Len(d), todo)
  <2>1. d = <<>>
    BY <1>1, ListedParts DEF Begins
  <2> QED
    BY <1>1, <2>1, SendsFirst
<1>2. CASE TakesByte(f, u, Len(d), todo)
  BY <1>2, FirstStep
<1>3. CASE Fetches(f, u, Len(d), todo)
  BY <1>3, FirstStep
<1>4. CASE Acks(f, u, Len(d), todo)
  <2>1. u = <<>> /\ f.left \in Nat
    BY <1>4 DEF Acks
  <2>2. CASE f.left > 0
    BY <1>4, <2>1, <2>2, AcksMore
  <2>3. CASE f.left = 0
    BY <1>4, <2>1, <2>3, AcksLast
  <2>4. f.left > 0 \/ f.left = 0
    BY <2>1
  <2> QED
    BY <2>2, <2>3, <2>4
<1>5. CASE Feeds(f, u, Len(d), todo)
  <2>1. u = <<>> /\ d = <<>>
    BY <1>5, ListedParts DEF Feeds
  <2> QED
    BY <1>5, <2>1, SendsChunk
<1>6. CASE AwaitsEcho(f, u, d, todo)
  BY <1>6, FirstStep
<1> QED
  BY <1>1, <1>2, <1>3, <1>4, <1>5, <1>6 DEF Stage, Bounded

\* The echo waited for is taken.
LEMMA EchoTaken ==
  ASSUME NEW f, NEW u, NEW d, Listed(d), d # <<>>, NEW todo, Stage(f, u, d, todo),
         todo # <<>>, Head(todo).do = "echo", TRUE \in Accepts(Head(d), Head(todo).code)
  PROVE  Stage(f, u, Tail(d), Tail(todo))
<1>1. ASSUME Bounded(f, u, Len(d), todo) PROVE FALSE
  <2>1. CASE Begins(f, u, Len(d), todo)
    BY <2>1, FirstStep DEF Begins
  <2>2. CASE TakesByte(f, u, Len(d), todo)
    BY <2>2, FirstStep
  <2>3. CASE Fetches(f, u, Len(d), todo)
    BY <2>3, FirstStep
  <2>4. CASE Acks(f, u, Len(d), todo)
    BY <2>4, FirstStep
  <2>5. CASE Feeds(f, u, Len(d), todo)
    BY <2>5, FirstStep
  <2> QED
    BY <1>1, <2>1, <2>2, <2>3, <2>4, <2>5 DEF Bounded
<1>2. PICK c \in Codes, rest \in Seq(Step) :
        /\ todo = Cons(Echo(c), rest)
        /\ Requested(f, u, d, c, rest) \/ Responds(f, u, d, rest) \/ Refuses(f, u, d) \/ Fed(f, u, d, c, rest)
  BY <1>1 DEF Stage, AwaitsEcho
<1>3. Head(todo) = Echo(c) /\ Tail(todo) = rest
  <2> DEFINE x == Echo(c)
  <2>1. x \in Step /\ todo = Cons(x, rest)
    BY <1>2, WaitOK
  <2> HIDE DEF x
  <2>2. Head(todo) = x /\ Tail(todo) = rest
    BY <2>1, Unconses
  <2> QED
    BY <2>2 DEF x
<1>4. ~Requested(f, u, d, c, rest)
  BY DEF Requested
<1>5. ~Fed(f, u, d, c, rest)
  BY DEF Fed
<1>6. ~Refuses(f, u, d)
  <2>1. SUFFICES ASSUME Refuses(f, u, d) PROVE FALSE
    OBVIOUS
  <2>2. Head(d) = Code("ERROR_RECV")
    BY <2>1 DEF Refuses
  <2>3. Code("ERROR_RECV")[1] = "ERROR_RECV"
    BY DEF Code
  <2>4. TRUE \in Accepts(Code("ERROR_RECV"), c)
    BY <1>3, <2>2, Doing
  <2>5. TRUE \in {Code("ERROR_RECV") = Code(c)}
    BY <2>3, <2>4 DEF Accepts
  <2>6. Code("ERROR_RECV") = Code(c)
    BY <2>5
  <2>7. Code(c)[1] = c /\ c # "ERROR_RECV"
    BY CodesOK
  <2> QED
    BY <2>3, <2>6, <2>7
<1>7. Bounded(f, u, Len(d) - 1, rest)
  BY <1>2, <1>4, <1>5, <1>6 DEF Responds
<1>8. Len(Tail(d)) = Len(d) - 1
  BY ListedParts
<1> QED
  BY <1>3, <1>7, <1>8 DEF Stage

\* The bytes waited for are taken.
LEMMA RecvTaken ==
  ASSUME NEW f, NEW u, NEW d, Listed(d), NEW todo, Stage(f, u, d, todo),
         todo # <<>>, Head(todo).do = "recv", NEW n, n = Head(todo).n, Len(d) >= n, NEW g, g = SubSeq(d, n + 1, Len(d))
  PROVE  Listed(g) /\ Stage(f, u, g, Tail(todo))
<1>1. Len(d) \in Nat
  BY ListedParts
<1>2. ASSUME Begins(f, u, Len(d), todo) PROVE FALSE
  BY <1>2, FirstStep DEF Begins
<1>3. ASSUME Acks(f, u, Len(d), todo) PROVE FALSE
  BY <1>3, FirstStep
<1>4. ASSUME Feeds(f, u, Len(d), todo) PROVE FALSE
  BY <1>4, FirstStep
<1>5. ASSUME AwaitsEcho(f, u, d, todo) PROVE FALSE
  BY <1>5, FirstStep
<1>6. ASSUME n \in Nat, n = Len(d) PROVE Listed(g) /\ Len(g) = 0 /\ g = <<>>
  <2>1. n \in 0..Len(d) /\ Len(d) - n = 0
    BY <1>1, <1>6
  <2>2. Listed(g)
    BY <2>1, ListedParts
  <2>3. Len(g) = Len(d) - n
    BY <2>1, ListedParts
  <2> QED
    BY <2>1, <2>2, <2>3, ListedParts
<1>7. CASE TakesByte(f, u, Len(d), todo)
  <2>1. todo = <<RecvBuffer(1)>> /\ f.at = "loop" /\ u = <<>> /\ Len(d) <= 1
    BY <1>7 DEF TakesByte
  <2>2. Head(todo) = RecvBuffer(1) /\ Tail(todo) = <<>>
    BY <2>1
  <2>3. n = 1
    BY <2>2, Doing
  <2>4. n \in Nat /\ n = Len(d)
    BY <1>1, <2>1, <2>3
  <2>5. Listed(g) /\ Len(g) = 0
    BY <1>6, <2>4
  <2>6. Backlog(f, u, Len(u))
    BY <2>1, NoBacklog
  <2>7. Begins(f, u, Len(g), <<>>)
    BY <2>5, <2>6 DEF Begins, Starts
  <2> QED
    BY <2>2, <2>5, <2>7 DEF Stage, Bounded
<1>8. CASE Fetches(f, u, Len(d), todo)
  <2>1. PICK m \in Nat, e \in Seq(AnySym) :
          /\ m > 0 /\ f.at = "ack" /\ todo = Reading(m, e)
          /\ \/ u = <<>> /\ f.left = m - AtMost(rchunk, m) /\ Len(d) <= AtMost(rchunk, m)
             \/ (u = <<>> \/ (Len(u) = 1 /\ u[1].byte = Code("ACK"))) /\ f.left = m /\ Len(d) = 0
    BY <1>8 DEF Fetches
  <2> DEFINE k == AtMost(rchunk, m)
             x == RecvBuffer(k)
             z == Acking(m - k, e)
             s == Reading(m - k, e)
             y == Cons(z, s)
  <2>2. todo = Cons(x, y) /\ k \in Nat /\ k > 0 /\ k <= m /\ m - k \in Nat /\ z \in Step /\ x \in Step
    BY <2>1, ReadingSplit
  <2>3. x.n = k
    BY Doing
  <2>4. y = Cons(Acking(m - k, e), Reading(m - k, e)) /\ k = AtMost(rchunk, m)
    OBVIOUS
  <2> HIDE DEF x, z, k
  <2>5. y \in Seq(Step)
    BY <2>2, ReadingAt, ConsOK
  <2> HIDE DEF s, y
  <2>6. Head(todo) = x /\ Tail(todo) = y
    BY <2>2, <2>5, Unconses
  <2>7. n = k
    BY <2>3, <2>6
  <2>8. u = <<>> /\ f.left = m - k /\ Len(d) = k
    BY <1>1, <2>1, <2>2, <2>4, <2>7
  <2>9. Listed(g) /\ Len(g) = 0
    BY <1>6, <2>2, <2>7, <2>8
  <2>10. Acks(f, u, Len(g), y)
    <3>1. m - k \in Nat
      BY <2>2
    <3> QED
      BY <2>1, <2>4, <2>8, <2>9, <3>1 DEF Acks
  <2> QED
    BY <2>6, <2>9, <2>10 DEF Stage, Bounded
<1> QED
  BY <1>2, <1>3, <1>4, <1>5, <1>7, <1>8 DEF Stage, Bounded

\* A call that has nothing left to do leaves nothing for the next one.
LEMMA StageEnds ==
  ASSUME NEW f, NEW u, NEW d, Listed(d), NEW todo, todo = <<>>, Stage(f, u, d, todo)
  PROVE  d = <<>> /\ Backlog(f, u, Len(u))
<1>1. ~TakesByte(f, u, Len(d), todo) /\ ~Fetches(f, u, Len(d), todo)
  BY FirstStep
<1>2. ~Acks(f, u, Len(d), todo) /\ ~Feeds(f, u, Len(d), todo)
  BY FirstStep
<1>3. ~AwaitsEcho(f, u, d, todo)
  BY FirstStep
<1>4. Begins(f, u, Len(d), todo)
  BY <1>1, <1>2, <1>3 DEF Stage, Bounded
<1> QED
  BY <1>4, ListedParts DEF Begins

\* The next one begins.
LEMMA StageBegins ==
  ASSUME NEW f, NEW u, NEW d, d = <<>>, Backlog(f, u, Len(u)), NEW todo, Starts(todo)
  PROVE  Listed(d) /\ Stage(f, u, d, todo)
BY ShortLists DEF Stage, Bounded, Begins

\* A call does nothing but to send and to wait.
LEMMA StageSteps ==
  ASSUME NEW f, NEW u, NEW d, NEW todo, Stage(f, u, d, todo), todo # <<>>
  PROVE  Head(todo).do \in {"send", "echo", "recv"}
<1>1. CASE Begins(f, u, Len(d), todo)
  BY <1>1, FirstStep DEF Begins
<1>2. CASE TakesByte(f, u, Len(d), todo)
  BY <1>2, FirstStep
<1>3. CASE Fetches(f, u, Len(d), todo)
  BY <1>3, FirstStep
<1>4. CASE Acks(f, u, Len(d), todo)
  BY <1>4, FirstStep
<1>5. CASE Feeds(f, u, Len(d), todo)
  BY <1>5, FirstStep
<1>6. CASE AwaitsEcho(f, u, d, todo)
  BY <1>6, FirstStep
<1> QED
  BY <1>1, <1>2, <1>3, <1>4, <1>5, <1>6 DEF Stage, Bounded

-----------------------------------------------------------------------------
(***************************************************************************)
(* A session is opened.                                                    *)
(***************************************************************************)
\* The sketch takes what it waits for.
LEMMA OpeningServes ==
  ASSUME NEW f, FwOK(f), ~f.pins.hung, NEW u \in Seq(LineByte), NEW r, NEW v, Takes(f, u, r, v),
         NEW d, Listed(d), NEW todo, Opens(f, u, d, todo)
  PROVE  Listed(d \o r.out) /\ Opens(r.fw, v, d \o r.out, todo)
<1>1. u # <<>>
  BY TakesSome
<1>2. Echoes(f, u, d) /\ \E c \in Inits : todo = <<Echo(c)>>
  BY <1>1 DEF Opens, AtLoop
<1>3. d = <<>>
  BY <1>1, <1>2 DEF Echoes
<1> DEFINE m == Len(u)
<1>8. m \in Nat
  BY LenProperties
<1>9. m # 0
  BY <1>1, EmptySeq
<1>10. m <= 2
  <2>1. f.at = "head" => m <= 1
    BY <1>1, <1>2 DEF Echoes
  <2>2. f.at = "loop" => m <= 2
    BY <1>1, <1>2 DEF Echoes
  <2>3. f.at \in {"loop", "head"}
    BY <1>2 DEF Echoes
  <2> HIDE DEF m
  <2>4. CASE f.at = "head"
    BY <1>8, <2>1, <2>4
  <2>5. CASE f.at = "loop"
    BY <2>2, <2>5
  <2> QED
    BY <2>3, <2>4, <2>5
<1> HIDE DEF m
<1>11. m = 1 \/ m = 2
  BY <1>8, <1>9, <1>10
<1>4. ASSUME Listed(r.out), Echoes(r.fw, v, r.out) PROVE Listed(d \o r.out) /\ Opens(r.fw, v, d \o r.out, todo)
  BY <1>2, <1>3, <1>4, AddsNothing DEF Opens
<1>5. f.at \in {"loop", "head"}
  BY <1>2 DEF Echoes
<1>6. CASE f.at = "loop"
  <2>1. m = 2 => u[1].byte = Code("SPI_INIT")
    BY <1>1, <1>2, <1>6 DEF Echoes, m
  <2>2. Len(u) > 0 /\ v = SubSeq(u, 2, Len(u))
    BY <1>6, TakesOne
  <2>3. PICK stray : r = Received(f, FirstBytes(u, 1), stray)
    BY <1>6, TakesOne
  <2> DEFINE bytes == FirstBytes(u, 1)
             cmd == IF NoCode(bytes[1]) THEN stray ELSE bytes[1][1]
  <2>4. bytes[1] = u[1].byte
    BY <2>2, ByteTaken
  <2>5. r = ParseCommand(f, cmd)
    BY <1>6, <2>3 DEF Received
  <2>6. m = 2 => cmd = "SPI_INIT"
    <3>1. ~NoCode(Code("SPI_INIT")) /\ Code("SPI_INIT")[1] = "SPI_INIT"
      BY DEF NoCode, Code
    <3> QED
      BY <2>1, <2>4, <3>1
  <2> HIDE DEF bytes, cmd
  <2>7. Len(v) = m - 1 /\ Listed(v)
    <3>1. v \in Seq(LineByte) /\ Len(v) = Len(u) - 1
      BY <2>2, TakeOne
    <3> QED
      BY <3>1, ListedOK DEF m
  <2>8. CASE cmd \in DOMAIN HeadLen
    <3>1. r.fw.at = "head" /\ r.fw.cmd = cmd /\ r.out = <<>>
      BY <2>5, <2>8, ParsesHeader
    <3>2. Len(v) <= 1
      BY <1>11, <2>7
    <3>3. Len(v) = 1 => m = 2
      BY <1>11, <2>7
    <3>4. Echoes(r.fw, v, r.out)
      BY <2>6, <3>1, <3>2, <3>3 DEF Echoes
    <3> QED
      BY <1>4, <3>1, <3>4, ShortLists
  <2>9. CASE cmd \notin DOMAIN HeadLen
    <3>1. r.fw.at = "loop" /\ Listed(r.out)
      BY <2>5, <2>9, ParsesPlain
    <3>2. Len(r.out) <= 1 \/ (Len(r.out) = 2 /\ r.out[1] = Code("MW_BUSY"))
      BY <2>5, <2>9, ParsesPlain
    <3>3. m # 2
      BY <2>6, <2>9 DEF HeadLen
    <3>4. Len(v) = 0
      BY <1>11, <2>7, <3>3
    <3>5. v = <<>>
      BY <2>7, <3>4, ListedParts
    <3> QED
      BY <1>4, <3>1, <3>2, <3>5 DEF Echoes
  <2> QED
    BY <2>8, <2>9
<1>7. CASE f.at = "head"
  <2>1. m <= 1 /\ (m = 1 => f.cmd = "SPI_INIT")
    BY <1>1, <1>2, <1>7 DEF Echoes, m
  <2>2. m = 1 /\ Len(u) = 1
    <3>1. m = 1
      BY <1>11, <2>1
    <3> QED
      BY <3>1 DEF m
  <2>3. f.cmd = "SPI_INIT" /\ Wanted(f) = 1
    BY <1>7, <2>1, <2>2 DEF Wanted, HeadLen
  <2>4. v = SubSeq(u, 2, Len(u)) /\ \E stray : r = Received(f, FirstBytes(u, 1), stray)
    <3>1. 1 + 1 = 2
      OBVIOUS
    <3> QED
      BY <2>3, <3>1 DEF Takes
  <2> DEFINE bytes == FirstBytes(u, 1)
  <2>5. r = Headed(f, bytes)
    BY <1>7, <2>4 DEF Received
  <2>6. Len(bytes) = 1
    BY <2>2, ByteTaken
  <2> HIDE DEF bytes
  <2>7. r.fw.at = "loop" /\ r.out = <<Code("SPI_INIT")>>
    <3>1. ~(Len(bytes) < HeadLen[f.cmd])
      BY <2>3, <2>6 DEF HeadLen
    <3> DEFINE q == SPIBegin(f.pins)
    <3>2. r = Reply(Fresh(q, q.cs = "high"), <<Code("SPI_INIT")>>)
      BY <2>3, <2>5, <3>1 DEF Headed
    <3> QED
      BY <3>2, LoopingAt DEF Reply, Goes
  <2>8. v = <<>>
    <3>1. v \in Seq(LineByte) /\ Len(v) = 0
      BY <2>2, <2>4, TakeOne
    <3> QED
      BY <3>1, EmptySeq
  <2>9. Listed(r.out) /\ Len(r.out) = 1
    BY <2>7, ShortLists
  <2> QED
    BY <1>4, <2>7, <2>8, <2>9 DEF Echoes
<1> QED
  BY <1>5, <1>6, <1>7

\* A header that does not get its arguments is refused.
LEMMA OpeningRefuses ==
  ASSUME NEW f, f.at = "head", NEW u \in Seq(LineByte), Len(u) < HeadLen[f.cmd], NEW d, NEW todo,
         Opens(f, u, d, todo), NEW r, r = Headed(f, FirstBytes(u, Len(u)))
  PROVE  Listed(d \o r.out) /\ Opens(r.fw, <<>>, d \o r.out, todo)
<1>1. d = <<>> /\ \E c \in Inits : todo = <<Echo(c)>>
  BY DEF Opens, AtLoop, Echoes
<1> DEFINE n == Len(u)
           bytes == FirstBytes(u, n)
<1>3. n \in Nat /\ n <= Len(u)
  BY LenProperties
<1>4. Len(u) = n
  OBVIOUS
<1> HIDE DEF n
<1>5. bytes \in Seq(AnyByte)
  BY <1>3, BytesTaken
<1>6. Len(bytes) = n
  BY <1>3, BytesTaken
<1> HIDE DEF bytes
<1>7. r = Headed(f, bytes) /\ Len(bytes) < HeadLen[f.cmd]
  BY <1>4, <1>6 DEF bytes
<1>8. r.fw.at = "loop" /\ r.out = <<Code("ERROR_RECV")>>
  BY <1>5, <1>7, HeaderShort
<1>9. d \o r.out = r.out /\ Listed(r.out) /\ Len(r.out) = 1
  BY <1>1, <1>8, ShortLists, AddsNothing
<1> QED
  BY <1>1, <1>8, <1>9 DEF Opens, Echoes

\* A byte is lost on its way to the sketch.
LEMMA OpeningLosesUp ==
  ASSUME NEW f, NEW u \in Seq(LineByte), NEW i \in 1..Len(u), NEW v, v = RemoveAt(u, i),
         NEW d, NEW todo, Opens(f, u, d, todo)
  PROVE  Opens(f, v, d, todo)
<1>1. Len(v) = Len(u) - 1 /\ Len(u) \in Nat /\ Len(u) > 0
  BY OneLost
<1>2. u # <<>>
  BY <1>1, EmptySeq
<1>3. Echoes(f, u, d) /\ \E c \in Inits : todo = <<Echo(c)>>
  BY <1>2 DEF Opens, AtLoop
<1>4. CASE d = <<>> /\ f.at = "loop" /\ Len(u) <= 2
  <2> DEFINE m == Len(u)
             k == Len(v)
  <2>2. k = m - 1 /\ m \in Nat /\ m <= 2
    BY <1>1, <1>4
  <2> HIDE DEF m, k
  <2>3. k <= 2 /\ k # 2
    BY <2>2
  <2>1. Len(v) <= 2 /\ Len(v) # 2
    BY <2>3 DEF k
  <2> QED
    BY <1>3, <1>4, <2>1 DEF Opens, Echoes
<1>5. CASE d = <<>> /\ f.at = "head" /\ Len(u) <= 1
  <2>1. Len(v) <= 1 /\ Len(v) # 1
    BY <1>1, <1>5
  <2> QED
    BY <1>3, <1>5, <2>1 DEF Opens, Echoes
<1> QED
  BY <1>2, <1>3, <1>4, <1>5 DEF Echoes

\* A byte is lost on its way to the host.
LEMMA OpeningLosesDown ==
  ASSUME NEW f, NEW u, NEW d, Listed(d), NEW i \in 1..Len(d), NEW g, g = RemoveAt(d, i),
         NEW todo, Opens(f, u, d, todo)
  PROVE  Listed(g) /\ Opens(f, u, g, todo)
<1>1. Len(d) \in Nat /\ Listed(g) /\ Len(g) = Len(d) - 1
  BY ListedParts
<1>2. d # <<>>
  BY <1>1, EmptySeq
<1>3. Echoes(f, u, d) /\ \E c \in Inits : todo = <<Echo(c)>>
  BY <1>2 DEF Opens, AtLoop
<1>4. u = <<>> /\ f.at = "loop" /\ (Len(d) <= 1 \/ Len(d) = 2)
  BY <1>2, <1>3 DEF Echoes
<1>5. Len(g) <= 1
  <2> DEFINE n == Len(d)
             m == Len(g)
  <2>1. n \in Nat /\ m = n - 1 /\ (n <= 1 \/ n = 2)
    BY <1>1, <1>4
  <2> HIDE DEF n, m
  <2>2. m <= 1
    BY <2>1
  <2> QED
    BY <2>2 DEF m
<1> QED
  BY <1>1, <1>3, <1>4, <1>5 DEF Opens, Echoes

\* What an init sends, and what it waits for.
LEMMA InitSteps ==
  ASSUME NEW c \in Inits, NEW todo, todo = Function(c, InitArguments(c))
  PROVE  /\ todo # <<>> /\ Head(todo).do = "send" /\ Tail(todo) = <<Echo(c)>>
         /\ Head(todo).bytes \in Seq(LineByte) /\ Len(Head(todo).bytes) <= 2
         /\ Len(Head(todo).bytes) = 2 => Head(todo).bytes[1].byte = Code("SPI_INIT")
<1> DEFINE a == InitArguments(c)
           t == Cons(Code(c), a)
           x == Send(t)
           y == <<Echo(c)>>
<1>1. c \in Codes /\ a \in Seq(AnyByte) /\ (Len(a) = 0 \/ (Len(a) = 1 /\ c = "SPI_INIT"))
  BY EmptySeq, BytesOK, ShortOK DEF Inits, Codes, InitArguments
<1>2. <<>> \in Seq(Step) /\ <<>> \in Seq(AnySym)
  BY EmptySeq
<1> HIDE DEF a
<1>3. Function(c, a) = Cons(Send(Cons(Code(c), a)), Cons(Echo(c), <<>>))
  BY <1>1, <1>2, FunctionThen
<1>4. Cons(Echo(c), <<>>) = y
  BY DEF Cons
<1>5. Code(c) \in AnyByte
  BY <1>1, BytesOK
<1>6. t \in Seq(AnyByte) /\ Len(t) = Len(a) + 1 /\ t[1] = Code(c)
  BY <1>1, <1>5, ConsOK
<1>7. y \in Seq(Step)
  BY <1>1, WaitOK, ShortOK
<1>8. todo = Cons(x, y)
  BY <1>3, <1>4 DEF a
<1> HIDE DEF t, y
<1>9. x \in Step
  BY <1>2, <1>6, SendOK
<1>10. x.do = "send" /\ Len(x.bytes) = Len(t)
  BY <1>6, SentOK, Doing
<1>11. \A i \in 1..Len(t) : x.bytes[i].byte = t[i]
  BY <1>6, SentOK
<1>12. x.bytes \in Seq(LineByte)
  BY <1>9, <1>10 DEF Step
<1> HIDE DEF x
<1>13. todo # <<>> /\ Head(todo) = x /\ Tail(todo) = y
  BY <1>7, <1>8, <1>9, Unconses
<1>14. Len(x.bytes) <= 2 /\ (Len(x.bytes) = 2 => c = "SPI_INIT")
  <2>1. Len(x.bytes) = Len(a) + 1
    BY <1>6, <1>10
  <2>2. CASE Len(a) = 0
    <3>1. Len(x.bytes) = 1
      BY <2>1, <2>2
    <3> QED
      BY <3>1
  <2>3. CASE Len(a) = 1 /\ c = "SPI_INIT"
    <3>1. Len(x.bytes) = 2
      BY <2>1, <2>3
    <3> QED
      BY <2>3, <3>1
  <2> QED
    BY <1>1, <2>2, <2>3
<1>15. x.bytes[1].byte = Code(c)
  <2>1. 1 \in 1..Len(t)
    BY <1>1, <1>6
  <2> QED
    BY <1>6, <1>11, <2>1
<1> QED
  BY <1>10, <1>12, <1>13, <1>14, <1>15 DEF y

\* The host sends the init.
LEMMA OpeningSends ==
  ASSUME NEW f, NEW u, NEW d, NEW todo, Opens(f, u, d, todo),
         todo # <<>>, Head(todo).do = "send", NEW v, v = u \o Head(todo).bytes
  PROVE  Opens(f, v, d, Tail(todo))
<1>1. ~ \E c \in Inits : todo = <<Echo(c)>>
  BY Doing
<1>2. PICK c \in Inits : AtLoop(f, u, d) /\ todo = Function(c, InitArguments(c))
  BY <1>1 DEF Opens
<1>3. Tail(todo) = <<Echo(c)>>
  BY <1>2, InitSteps
<1>4. Head(todo).bytes \in Seq(LineByte)
  BY <1>2, InitSteps
<1>5. Len(Head(todo).bytes) <= 2
  BY <1>2, InitSteps
<1>6. Len(Head(todo).bytes) = 2 => Head(todo).bytes[1].byte = Code("SPI_INIT")
  BY <1>2, InitSteps
<1>7. v = Head(todo).bytes
  BY <1>2, <1>4, ListedOK, AddsNothing DEF AtLoop
<1> QED
  BY <1>2, <1>3, <1>5, <1>6, <1>7 DEF Opens, Echoes, AtLoop

\* It gets the echo: nothing else is on the line.
LEMMA OpeningEcho ==
  ASSUME NEW f, NEW u, NEW d, Listed(d), d # <<>>, NEW todo, Opens(f, u, d, todo),
         TRUE \in Accepts(Head(d), Head(todo).code)
  PROVE  Listed(Tail(d)) /\ Opens(f, u, Tail(d), Tail(todo))
<1>1. Echoes(f, u, d)
  BY DEF Opens, AtLoop
<1>2. PICK c \in Inits : todo = <<Echo(c)>>
  BY DEF Opens, AtLoop
<1>3. Head(todo).code = c /\ Tail(todo) = <<>>
  BY <1>2, Doing
<1>4. u = <<>> /\ f.at = "loop" /\ (Len(d) <= 1 \/ (Len(d) = 2 /\ d[1] = Code("MW_BUSY")))
  BY <1>1 DEF Echoes
<1>5. d[1] # Code("MW_BUSY")
  <2>1. SUFFICES ASSUME d[1] = Code("MW_BUSY") PROVE FALSE
    OBVIOUS
  <2>2. Head(d) = Code("MW_BUSY")
    BY <2>1
  <2>3. Code("MW_BUSY")[1] = "MW_BUSY" /\ Code(c)[1] = c /\ c # "MW_BUSY"
    BY DEF Code, Inits
  <2>4. TRUE \in {Code("MW_BUSY") = Code(c)}
    BY <1>3, <2>2, <2>3 DEF Accepts
  <2> QED
    BY <2>3, <2>4
<1>6. Len(d) \in Nat /\ Len(d) # 0 /\ Listed(Tail(d)) /\ Len(Tail(d)) = Len(d) - 1
  BY ListedParts
<1>7. Len(d) <= 1
  BY <1>4, <1>5
<1>8. Len(Tail(d)) = 0
  BY <1>6, <1>7
<1>9. Tail(d) = <<>>
  BY <1>6, <1>8, ListedParts
<1> QED
  BY <1>3, <1>4, <1>6, <1>9 DEF Opens, AtLoop

\* To open a session nothing else is done.
LEMMA OpeningSteps ==
  ASSUME NEW f, NEW u, NEW d, NEW todo, Opens(f, u, d, todo)
  PROVE  /\ todo # <<>> => Head(todo).do \in {"send", "echo"}
         /\ todo = <<>> => AtLoop(f, u, d)
         /\ f.at \in {"loop", "head"}
<1>1. todo = <<>> \/ (\E c \in Inits : todo = Function(c, InitArguments(c))) \/ \E c \in Inits : todo = <<Echo(c)>>
  BY DEF Opens
<1>2. ASSUME NEW c \in Inits, todo = Function(c, InitArguments(c)) PROVE todo # <<>> /\ Head(todo).do = "send"
  BY <1>2, InitSteps
<1>3. ASSUME NEW c \in Inits, todo = <<Echo(c)>> PROVE todo # <<>> /\ Head(todo).do = "echo"
  BY <1>3, Doing
<1>4. todo # <<>> => Head(todo).do \in {"send", "echo"}
  BY <1>1, <1>2, <1>3
<1>5. todo = <<>> => AtLoop(f, u, d)
  BY <1>3 DEF Opens
<1>6. f.at \in {"loop", "head"}
  BY DEF Opens, AtLoop, Echoes
<1> QED
  BY <1>4, <1>5, <1>6

-----------------------------------------------------------------------------
(***************************************************************************)
(* The steps of the system.                                                *)
(***************************************************************************)
\* A session is given up for a handler that has given up, never for another.
LEMMA DoomedKeeps ==
  ASSUME NEW now, NEW unnoticed, Doomed(now, unnoticed)
  PROVE  /\ port' = "open" => port = "open" /\ ~now
         /\ port' = "closed" => port = "closed"
BY DEF Doomed

\* The sketch takes what it waits for.
LEMMA ServeClean ==
  ASSUME IInv, LInv, Serve
  PROVE  LInv'
<1>1. FwOK(fw) /\ ~fw.pins.hung /\ up \in Seq(LineByte) /\ Len(up) >= Wanted(fw)
  BY DEF IInv, Serve, Ready, Runs
<1>2. Resumes(Taken(Wanted(fw)), SubSeq(up, Wanted(fw) + 1, Len(up)))
  BY DEF Serve
<1>3. PICK stray : LET r == Received(fw, Taken(Wanted(fw)), stray) IN fw' = r.fw /\ down' = down \o r.out
  BY <1>2 DEF Resumes
<1> DEFINE r == Received(fw, FirstBytes(up, Wanted(fw)), stray)
           v == SubSeq(up, Wanted(fw) + 1, Len(up))
<1>4. fw' = r.fw /\ down' = down \o r.out /\ up' = v
  BY <1>2, <1>3 DEF Resumes, Taken, FirstBytes
<1>5. Takes(fw, up, r, v)
  BY <1>1 DEF Takes
<1> HIDE DEF r, v
<1>6. host' = host /\ bus' = bus
  BY DEF Serve
<1>7. /\ port' = "open" => port = "open" /\ ~Mistakes
      /\ port' = "closed" => port = "closed"
  BY DoomedKeeps DEF Serve
<1>8. ASSUME port' = "open" PROVE Listed(down') /\ Stage(fw', up', down', host'.todo)
  <2>1. Listed(down) /\ Stage(fw, up, down, host.todo)
    BY <1>7, <1>8 DEF LInv, InSession
  <2>2. fw.at = "loop" => ~NoCode(up[1].byte)
    BY <1>7, <1>8 DEF Mistakes
  <2>3. Listed(down \o r.out) /\ Stage(r.fw, v, down \o r.out, host.todo)
    BY <1>1, <1>5, <2>1, <2>2, ServesStage
  <2> QED
    BY <1>4, <1>6, <2>3
<1>9. ASSUME port' = "closed", host'.call.op = "Open"
      PROVE  host'.todo = SetUp(bus') \/ (Listed(down') /\ Opens(fw', up', down', host'.todo))
  <2>1. host.todo = SetUp(bus) \/ (Listed(down) /\ Opens(fw, up, down, host.todo))
    BY <1>6, <1>7, <1>9 DEF LInv, InOpening
  <2>2. CASE host.todo = SetUp(bus)
    BY <1>6, <2>2
  <2>3. CASE Listed(down) /\ Opens(fw, up, down, host.todo)
    <3>1. Listed(down \o r.out) /\ Opens(r.fw, v, down \o r.out, host.todo)
      BY <1>1, <1>5, <2>3, OpeningServes
    <3> QED
      BY <1>4, <1>6, <3>1
  <2> QED
    BY <2>1, <2>2, <2>3
<1> QED
  BY <1>8, <1>9 DEF LInv, InSession, InOpening

\* It waits in vain, or for too long.
LEMMA TimeoutClean ==
  ASSUME IInv, LInv, ReadBytesTimeout \/ Late
  PROVE  LInv'
<1>1. FwOK(fw) /\ up \in Seq(LineByte) /\ fw.at # "loop" /\ Len(up) < Wanted(fw)
  BY DEF IInv, ReadBytesTimeout, Late, Waited
<1>2. Resumes(Taken(Len(up)), <<>>)
  BY DEF ReadBytesTimeout, Late
<1>3. PICK stray : LET r == Received(fw, Taken(Len(up)), stray) IN fw' = r.fw /\ down' = down \o r.out
  BY <1>2 DEF Resumes
<1>4. up' = <<>>
  BY <1>2 DEF Resumes
<1>5. host' = host /\ bus' = bus
  BY DEF ReadBytesTimeout, Late
<1>6. /\ port' = "open" => port = "open" /\ ~GivesUp
      /\ port' = "closed" => port = "closed"
  BY DoomedKeeps DEF ReadBytesTimeout, Late
<1> DEFINE r == Headed(fw, FirstBytes(up, Len(up)))
<1>7. fw.at = "head" => fw' = r.fw /\ down' = down \o r.out /\ Len(up) < HeadLen[fw.cmd]
  BY <1>1, <1>3 DEF Received, Wanted, Taken, FirstBytes
<1>8. r = Headed(fw, FirstBytes(up, Len(up)))
  OBVIOUS
<1> HIDE DEF r
<1>9. ASSUME port' = "open" PROVE Listed(down') /\ Stage(fw', up', down', host'.todo)
  <2>1. Listed(down) /\ Stage(fw, up, down, host.todo)
    BY <1>6, <1>9 DEF LInv, InSession
  <2>2. fw.at = "head"
    BY <1>1, <1>6, <1>9 DEF GivesUp, FwOK
  <2>3. Listed(down \o r.out) /\ Stage(r.fw, <<>>, down \o r.out, host.todo)
    BY <1>1, <1>7, <1>8, <2>1, <2>2, RefusesHeader
  <2> QED
    BY <1>4, <1>5, <1>7, <2>2, <2>3
<1>10. ASSUME port' = "closed", host'.call.op = "Open"
       PROVE  host'.todo = SetUp(bus') \/ (Listed(down') /\ Opens(fw', up', down', host'.todo))
  <2>1. host.todo = SetUp(bus) \/ (Listed(down) /\ Opens(fw, up, down, host.todo))
    BY <1>5, <1>6, <1>10 DEF LInv, InOpening
  <2>2. CASE host.todo = SetUp(bus)
    BY <1>5, <2>2
  <2>3. CASE Listed(down) /\ Opens(fw, up, down, host.todo)
    <3>1. fw.at = "head"
      BY <1>1, <2>3, OpeningSteps
    <3>2. Listed(down \o r.out) /\ Opens(r.fw, <<>>, down \o r.out, host.todo)
      BY <1>1, <1>7, <1>8, <2>3, <3>1, OpeningRefuses
    <3> QED
      BY <1>4, <1>5, <1>7, <3>1, <3>2
  <2> QED
    BY <2>1, <2>2, <2>3
<1> QED
  BY <1>9, <1>10 DEF LInv, InSession, InOpening

\* A byte is lost.
LEMMA LossClean ==
  ASSUME IInv, LInv, LoseUp \/ LoseDown
  PROVE  LInv'
<1>1. up \in Seq(LineByte) /\ host' = host /\ bus' = bus /\ fw' = fw
  BY DEF IInv, LoseUp, LoseDown
<1>2. CASE LoseUp
  <2>1. PICK i \in 1..Len(up) : up' = RemoveAt(up, i) /\ Doomed(up[i].unanswered, TRUE)
    BY <1>2 DEF LoseUp
  <2>2. down' = down
    BY <1>2 DEF LoseUp
  <2>3. /\ port' = "open" => port = "open" /\ ~up[i].unanswered
        /\ port' = "closed" => port = "closed"
    BY <2>1, DoomedKeeps
  <2>4. ASSUME port' = "open" PROVE Listed(down') /\ Stage(fw', up', down', host'.todo)
    <3>1. Listed(down) /\ Stage(fw, up, down, host.todo) /\ ~up[i].unanswered
      BY <2>3, <2>4 DEF LInv, InSession
    <3>2. Stage(fw, up', down, host.todo)
      BY <1>1, <2>1, <3>1, LosesUp
    <3> QED
      BY <1>1, <2>2, <3>1, <3>2
  <2>5. ASSUME port' = "closed", host'.call.op = "Open"
        PROVE  host'.todo = SetUp(bus') \/ (Listed(down') /\ Opens(fw', up', down', host'.todo))
    <3>1. host.todo = SetUp(bus) \/ (Listed(down) /\ Opens(fw, up, down, host.todo))
      BY <1>1, <2>3, <2>5 DEF LInv, InOpening
    <3>2. Opens(fw, up, down, host.todo) => Opens(fw, up', down, host.todo)
      BY <1>1, <2>1, OpeningLosesUp
    <3> QED
      BY <1>1, <2>2, <3>1, <3>2
  <2> QED
    BY <2>4, <2>5 DEF LInv, InSession, InOpening
<1>3. CASE LoseDown
  <2>1. PICK i \in 1..Len(down) : down' = RemoveAt(down, i)
    BY <1>3 DEF LoseDown
  <2>2. up' = up /\ port' = port
    BY <1>3 DEF LoseDown
  <2>3. ASSUME port' = "open" PROVE Listed(down') /\ Stage(fw', up', down', host'.todo)
    <3>1. Listed(down) /\ Stage(fw, up, down, host.todo)
      BY <2>2, <2>3 DEF LInv, InSession
    <3>2. Listed(down') /\ Stage(fw, up, down', host.todo)
      BY <2>1, <3>1, LosesDown
    <3> QED
      BY <1>1, <2>2, <3>2
  <2>4. ASSUME port' = "closed", host'.call.op = "Open"
        PROVE  host'.todo = SetUp(bus') \/ (Listed(down') /\ Opens(fw', up', down', host'.todo))
    <3>1. host.todo = SetUp(bus) \/ (Listed(down) /\ Opens(fw, up, down, host.todo))
      BY <1>1, <2>2, <2>4 DEF LInv, InOpening
    <3>2. Listed(down) /\ Opens(fw, up, down, host.todo) => Listed(down') /\ Opens(fw, up, down', host.todo)
      BY <2>1, OpeningLosesDown
    <3> QED
      BY <1>1, <2>2, <3>1, <3>2
  <2> QED
    BY <2>3, <2>4 DEF LInv, InSession, InOpening
<1> QED
  BY <1>2, <1>3

\* A session that is over, or one nobody can rely on.
LEMMA BrokenClean ==
  ASSUME Close \/ Refused \/ Killed \/ BoardReset
  PROVE  LInv'
<1>1. port' = "broken"
  BY DEF Close, Refused, Killed, BoardReset
<1> QED
  BY <1>1 DEF LInv, InSession, InOpening

\* The call goes on, or fails.
LEMMA ProceedKeeps ==
  ASSUME HostOK(host), NEW got, NEW good,
         Proceed([host EXCEPT !.got = got, !.good = good]) \/ Proceed([host EXCEPT !.got = got]) \/ Proceed(host)
  PROVE  /\ host'.todo = Tail(host.todo) /\ host'.call = host.call
         /\ port' = "open" => port = "open"
         /\ port' = "closed" => port = "closed"
BY DEF HostOK, HostFields, Proceed

\* It is over.
LEMMA EndsKeeps ==
  ASSUME HostOK(host), NEW good, Ends(good)
  PROVE  /\ host'.todo = <<>> /\ host'.call = NoCall
         /\ port' = "open" => good /\ (IF host.call.op = "Open" THEN port = "closed" ELSE port = "open")
BY DEF HostOK, HostFields, Ends

\* No call has the name of another.
LEMMA NoCallIsNoOpen == NoCall.op # "Open"
BY DEF NoCall

\* The connect of a session that is opened.
LEMMA SetUpFirst ==
  ASSUME IInv, host.todo = SetUp(bus)
  PROVE  /\ host.todo # <<>> /\ Head(host.todo).do = "connect"
         /\ \E c \in Inits : Tail(host.todo) = Function(c, InitArguments(c))
<1>1. bus \in {"spi", "i2c", "mw"}
  BY AsprogAssumption DEF IInv
<1>2. PICK c \in Inits : SetUp(bus) = Cons(Connect, Function(c, InitArguments(c))) /\ Function(c, InitArguments(c)) \in Seq(Step)
  BY <1>1, SetUpInits
<1> DEFINE s == Function(c, InitArguments(c))
<1>3. Connect \in Step /\ Connect.do = "connect"
  BY WaitOK DEF Connect
<1>4. host.todo = Cons(Connect, s) /\ s \in Seq(Step)
  BY <1>2
<1> HIDE DEF s
<1>5. host.todo # <<>> /\ Head(host.todo) = Connect /\ Tail(host.todo) = s
  BY <1>3, <1>4, Unconses
<1> QED
  BY <1>3, <1>5 DEF s

\* The board is connected.
LEMMA ConnectClean ==
  ASSUME IInv, LInv, ConnectPort
  PROVE  LInv'
<1>1. host.todo # <<>> /\ Head(host.todo).do = "connect" /\ bus' = bus
  BY DEF ConnectPort, Now
<1>2. up' = <<>> /\ down' = <<>> /\ fw' = PowerUp
  BY DEF ConnectPort
<1>3. /\ host'.todo = Tail(host.todo) /\ host'.call = host.call
      /\ port' = "open" => port = "open"
      /\ port' = "closed" => port = "closed"
  BY ProceedKeeps DEF IInv, ConnectPort
<1>4. port' # "open"
  BY <1>1, <1>3, StageSteps DEF LInv, InSession
<1>5. ASSUME port' = "closed", host'.call.op = "Open"
      PROVE  Listed(down') /\ Opens(fw', up', down', host'.todo)
  <2>1. host.todo = SetUp(bus) \/ Opens(fw, up, down, host.todo)
    BY <1>3, <1>5 DEF LInv, InOpening
  <2>2. host.todo = SetUp(bus)
    BY <1>1, <2>1, OpeningSteps
  <2>3. \E c \in Inits : host'.todo = Function(c, InitArguments(c))
    BY <1>3, <2>2, SetUpFirst
  <2>4. AtLoop(fw', up', down')
    BY <1>2 DEF AtLoop, PowerUp
  <2> QED
    BY <1>2, <2>3, <2>4, ShortLists DEF Opens
<1> QED
  BY <1>4, <1>5 DEF LInv, InSession, InOpening

\* The host sends.
LEMMA SendClean ==
  ASSUME IInv, LInv, SendBytes
  PROVE  LInv'
<1>1. host.todo # <<>> /\ Head(host.todo).do = "send" /\ bus' = bus /\ FwOK(fw) /\ up \in Seq(LineByte)
  BY DEF SendBytes, Now, IInv
<1>2. up' = up \o Head(host.todo).bytes /\ down' = down /\ fw' = fw
  BY DEF SendBytes
<1>3. /\ host'.todo = Tail(host.todo) /\ host'.call = host.call
      /\ port' = "open" => port = "open"
      /\ port' = "closed" => port = "closed"
  BY ProceedKeeps DEF IInv, SendBytes
<1>4. ASSUME port' = "open" PROVE Listed(down') /\ Stage(fw', up', down', host'.todo)
  <2>1. Listed(down) /\ Stage(fw, up, down, host.todo)
    BY <1>3, <1>4 DEF LInv, InSession
  <2>2. Stage(fw, up', down, Tail(host.todo))
    BY <1>1, <1>2, <2>1, SendsOn
  <2> QED
    BY <1>2, <1>3, <2>1, <2>2
<1>5. ASSUME port' = "closed", host'.call.op = "Open"
      PROVE  Listed(down') /\ Opens(fw', up', down', host'.todo)
  <2>1. host.todo = SetUp(bus) \/ (Listed(down) /\ Opens(fw, up, down, host.todo))
    BY <1>3, <1>5 DEF LInv, InOpening
  <2>2. Listed(down) /\ Opens(fw, up, down, host.todo)
    BY <1>1, <2>1, SetUpFirst
  <2>3. Opens(fw, up', down, Tail(host.todo))
    BY <1>1, <1>2, <2>2, OpeningSends
  <2> QED
    BY <1>2, <1>3, <2>2, <2>3
<1> QED
  BY <1>4, <1>5 DEF LInv, InSession, InOpening

\* An echo comes, the right one or not.
LEMMA EchoClean ==
  ASSUME IInv, LInv, RecvEcho
  PROVE  LInv'
<1>1. host.todo # <<>> /\ Head(host.todo).do = "echo" /\ bus' = bus /\ down # <<>> /\ HostOK(host)
  BY DEF RecvEcho, Now, IInv
<1>2. up' = up /\ down' = Tail(down) /\ fw' = fw
  BY DEF RecvEcho
<1>3. PICK accepted \in Accepts(Head(down), Head(host.todo).code) : IF accepted THEN Proceed(host) ELSE Ends(FALSE)
  BY DEF RecvEcho
<1>4. accepted \in BOOLEAN
  BY DEF Accepts
<1>5. CASE accepted = TRUE
  <2>1. TRUE \in Accepts(Head(down), Head(host.todo).code) /\ Proceed(host)
    BY <1>3, <1>5
  <2>2. /\ host'.todo = Tail(host.todo) /\ host'.call = host.call
        /\ port' = "open" => port = "open"
        /\ port' = "closed" => port = "closed"
    BY <1>1, <2>1, ProceedKeeps
  <2>3. ASSUME port' = "open" PROVE Listed(down') /\ Stage(fw', up', down', host'.todo)
    <3>1. Listed(down) /\ Stage(fw, up, down, host.todo)
      BY <2>2, <2>3 DEF LInv, InSession
    <3>2. Stage(fw, up, Tail(down), Tail(host.todo))
      BY <1>1, <2>1, <3>1, EchoTaken
    <3>3. Listed(Tail(down))
      BY <1>1, <3>1, ListedParts
    <3> QED
      BY <1>2, <2>2, <3>2, <3>3
  <2>4. ASSUME port' = "closed", host'.call.op = "Open"
        PROVE  Listed(down') /\ Opens(fw', up', down', host'.todo)
    <3>1. host.todo = SetUp(bus) \/ (Listed(down) /\ Opens(fw, up, down, host.todo))
      BY <2>2, <2>4 DEF LInv, InOpening
    <3>2. Listed(down) /\ Opens(fw, up, down, host.todo)
      BY <1>1, <3>1, SetUpFirst
    <3>3. Listed(Tail(down)) /\ Opens(fw, up, Tail(down), Tail(host.todo))
      BY <1>1, <2>1, <3>2, OpeningEcho
    <3> QED
      BY <1>2, <2>2, <3>3
  <2> QED
    BY <2>3, <2>4 DEF LInv, InSession, InOpening
<1>6. CASE accepted = FALSE
  <2>1. Ends(FALSE)
    BY <1>3, <1>6
  <2>2. host'.call = NoCall /\ port' # "open"
    BY <1>1, <2>1, EndsKeeps
  <2> QED
    BY <2>2, NoCallIsNoOpen DEF LInv, InSession, InOpening
<1> QED
  BY <1>4, <1>5, <1>6

\* Bytes come.
LEMMA RecvClean ==
  ASSUME IInv, LInv, RecvBytes
  PROVE  LInv'
<1>1. host.todo # <<>> /\ Head(host.todo).do = "recv" /\ bus' = bus /\ Needs = Head(host.todo).n /\ Len(down) >= Needs
  BY DEF RecvBytes, Now, Needs
<1>2. up' = up /\ down' = SubSeq(down, Needs + 1, Len(down)) /\ fw' = fw
  BY DEF RecvBytes
<1>3. Proceed([host EXCEPT !.got = @ \o SubSeq(down, 1, Needs)])
  BY DEF RecvBytes
<1>4. /\ host'.todo = Tail(host.todo) /\ host'.call = host.call
      /\ port' = "open" => port = "open"
      /\ port' = "closed" => port = "closed"
  <2> DEFINE got == host.got \o SubSeq(down, 1, Needs)
  <2>1. Proceed([host EXCEPT !.got = got])
    BY <1>3
  <2> HIDE DEF got
  <2> QED
    BY <2>1, ProceedKeeps DEF IInv
<1>5. ASSUME port' = "open" PROVE Listed(down') /\ Stage(fw', up', down', host'.todo)
  <2>1. Listed(down) /\ Stage(fw, up, down, host.todo)
    BY <1>4, <1>5 DEF LInv, InSession
  <2>2. Listed(down') /\ Stage(fw, up, down', Tail(host.todo))
    BY <1>1, <1>2, <2>1, RecvTaken
  <2> QED
    BY <1>2, <1>4, <2>2
<1>6. ~(port' = "closed" /\ host'.call.op = "Open")
  <2>1. SUFFICES ASSUME port' = "closed", host'.call.op = "Open" PROVE FALSE
    OBVIOUS
  <2>2. host.todo = SetUp(bus) \/ Opens(fw, up, down, host.todo)
    BY <1>4, <2>1 DEF LInv, InOpening
  <2> QED
    BY <1>1, <2>2, SetUpFirst, OpeningSteps
<1> QED
  BY <1>5, <1>6 DEF LInv, InSession, InOpening

\* Nothing comes.
LEMMA RecvTimeoutClean ==
  ASSUME IInv, LInv, RecvTimeout
  PROVE  LInv'
<1>1. host.todo # <<>> /\ bus' = bus /\ HostOK(host)
  BY DEF RecvTimeout, RecvEnds, Waits, Now, IInv
<1>2. CASE Now("echo")
  <2>1. Ends(FALSE)
    BY <1>2 DEF RecvTimeout, RecvEnds
  <2>2. host'.call = NoCall /\ port' # "open"
    BY <1>1, <2>1, EndsKeeps
  <2> QED
    BY <2>2, NoCallIsNoOpen DEF LInv, InSession, InOpening
<1>3. CASE ~Now("echo")
  <2>1. Head(host.todo).do = "recv"
    BY <1>3 DEF RecvTimeout, Waits, Now
  <2> DEFINE got == host.got \o down
  <2>2. Proceed([host EXCEPT !.got = got, !.good = FALSE])
    BY <1>3 DEF RecvTimeout, RecvEnds
  <2> HIDE DEF got
  <2>3. /\ host'.call = host.call
        /\ port' = "open" => port = "open"
        /\ port' = "closed" => port = "closed"
    BY <1>1, <2>2, ProceedKeeps
  <2>4. port' # "open"
    BY <1>1, <2>2 DEF Proceed, HostOK, HostFields
  <2>5. ~(port' = "closed" /\ host'.call.op = "Open")
    <3>1. SUFFICES ASSUME port' = "closed", host'.call.op = "Open" PROVE FALSE
      OBVIOUS
    <3>2. host.todo = SetUp(bus) \/ Opens(fw, up, down, host.todo)
      BY <2>3, <3>1 DEF LInv, InOpening
    <3> QED
      BY <1>1, <2>1, <3>2, SetUpFirst, OpeningSteps
  <2> QED
    BY <2>4, <2>5 DEF LInv, InSession, InOpening
<1> QED
  BY <1>2, <1>3

\* The call returns: after a good one nothing is left on the line.
LEMMA ReturnClean ==
  ASSUME IInv, LInv, Return
  PROVE  LInv'
<1>1. host.todo = <<>> /\ Ends(host.good) /\ HostOK(host)
  BY DEF Return, IInv
<1>2. up' = up /\ down' = down /\ fw' = fw
  BY DEF Return
<1>3. /\ host'.todo = <<>> /\ host'.call = NoCall
      /\ port' = "open" => (IF host.call.op = "Open" THEN port = "closed" ELSE port = "open")
  BY <1>1, EndsKeeps
<1>4. ASSUME port' = "open" PROVE Listed(down') /\ Stage(fw', up', down', host'.todo)
  <2>1. CASE host.call.op = "Open"
    <3>1. host.todo = SetUp(bus) \/ Opens(fw, up, down, host.todo)
      BY <1>3, <1>4, <2>1 DEF LInv, InOpening
    <3>2. AtLoop(fw, up, down)
      BY <1>1, <3>1, SetUpFirst, OpeningSteps
    <3>3. Backlog(fw, up, Len(up)) /\ down = <<>>
      BY <3>2, NoBacklog DEF AtLoop
    <3>4. Starts(<<>>)
      BY DEF Starts
    <3>5. Listed(down) /\ Stage(fw, up, down, <<>>)
      BY <3>3, <3>4, StageBegins
    <3> QED
      BY <1>2, <1>3, <3>5
  <2>2. CASE host.call.op # "Open"
    <3>1. Listed(down) /\ Stage(fw, up, down, host.todo)
      BY <1>3, <1>4, <2>2 DEF LInv, InSession
    <3> QED
      BY <1>1, <1>2, <1>3, <3>1
  <2> QED
    BY <2>1, <2>2
<1> QED
  BY <1>3, <1>4, NoCallIsNoOpen DEF LInv, InSession, InOpening

\* A session is opened.
LEMMA OpenClean ==
  ASSUME IInv, Open
  PROVE  LInv'
<1>1. port' = "closed" /\ Begin([op |-> "Open"], SetUp(bus'), FALSE, TRUE)
  BY DEF Open
<1>2. host'.todo = SetUp(bus')
  BY <1>1 DEF Begin, IInv, HostOK, HostFields
<1> QED
  BY <1>1, <1>2 DEF LInv, InSession, InOpening

\* A call is made.
LEMMA MakeClean ==
  ASSUME IInv, LInv, NEW j \in JobsOf(bus), Make(j)
  PROVE  LInv'
<1> DEFINE c == [j EXCEPT !.id = host.made + 1]
<1>1. bus \in {"spi", "i2c", "mw"} /\ j \in JobType(bus)
  BY AsprogAssumption DEF IInv
<1>2. c \in JobType(bus)
  <2> DEFINE k == host.made + 1
  <2>1. k \in Nat
    BY AsprogAssumption DEF IInv, HostOK
  <2> HIDE DEF k
  <2>2. [j EXCEPT !.id = k] \in JobType(bus)
    BY <1>1, <2>1, RenumberOK
  <2> QED
    BY <2>2 DEF k
<1>3. Begin(c, Script(c), LeavesOpen(c), TRUE)
  BY DEF Make
<1>4. up' = up /\ down' = down /\ fw' = fw /\ bus' = bus /\ port' = port
  BY DEF Make
<1> HIDE DEF c
<1>5. c.op # "Open"
  <2>1. CASE bus = "spi"
    BY <1>2, <2>1, SpiJob
  <2>2. CASE bus = "i2c"
    BY <1>2, <2>2, I2CJob
  <2>3. CASE bus = "mw"
    BY <1>2, <2>3, MWJob
  <2> QED
    BY <1>1, <2>1, <2>2, <2>3
<1>6. host.todo = <<>> /\ host'.todo = Script(c) /\ host'.call = c
  BY <1>3 DEF Begin, IInv, HostOK, HostFields
<1>7. ASSUME port' = "open" PROVE Listed(down') /\ Stage(fw', up', down', host'.todo)
  <2>1. Listed(down) /\ Stage(fw, up, down, host.todo)
    BY <1>4, <1>7 DEF LInv, InSession
  <2>2. down = <<>> /\ Backlog(fw, up, Len(up))
    BY <1>6, <2>1, StageEnds
  <2>3. Starts(Script(c))
    BY <1>1, <1>2, ScriptStarts
  <2>4. Stage(fw, up, down, Script(c))
    BY <2>2, <2>3, StageBegins
  <2> QED
    BY <1>4, <1>6, <2>1, <2>4
<1> QED
  BY <1>5, <1>6, <1>7 DEF LInv, InSession, InOpening

\* Every step keeps the line clean.
LEMMA LineInductive ==
  ASSUME IInv, LInv, [Next]_vars
  PROVE  LInv'
<1>1. CASE Open
  BY <1>1, OpenClean
<1>2. CASE Close \/ Refused \/ Killed \/ BoardReset
  BY <1>2, BrokenClean
<1>3. CASE \E j \in JobsOf(bus) : Make(j)
  BY <1>3, MakeClean
<1>4. CASE Program
  BY <1>4, ConnectClean, SendClean, EchoClean, RecvClean, RecvTimeoutClean, ReturnClean DEF Program
<1>5. CASE Line \/ Late
  BY <1>5, ServeClean, TimeoutClean DEF Line
<1>6. CASE LoseUp \/ LoseDown
  BY <1>6, LossClean
<1>7. CASE UNCHANGED vars
  BY <1>7 DEF vars, LInv, InSession, InOpening
<1> QED
  BY <1>1, <1>2, <1>3, <1>4, <1>5, <1>6, <1>7 DEF Next

\* Before the first session there is none.
LEMMA LineInitial ==
  ASSUME Init
  PROVE  LInv
BY NoCallIsNoOpen DEF Init, Quiet, LInv, InSession, InOpening

\* Between two calls nothing is left to do, so nothing is left on the line.
LEMMA LineImplied ==
  ASSUME IInv, LInv
  PROVE  LineClean
<1>1. SUFFICES ASSUME port = "open", host.call = NoCall
               PROVE  /\ down = <<>>
                      /\ \A i \in 1..Len(up) : up[i].unanswered
                      /\ fw.at = "loop" \/ (fw.at = "ack" /\ fw.left = 0 /\ Len(up) > 0)
  BY DEF LineClean
<1>2. host.todo = <<>>
  BY <1>1 DEF IInv, HostOK
<1>3. Listed(down) /\ Stage(fw, up, down, host.todo)
  BY <1>1 DEF LInv, InSession
<1>4. down = <<>> /\ Backlog(fw, up, Len(up))
  BY <1>2, <1>3, StageEnds
<1> QED
  BY <1>4 DEF Backlog

(***************************************************************************)
(* Between the calls of a good session the line is clean: no byte is left  *)
(* for the host to take for an echo, and the sketch is in its loop or on   *)
(* its way there.  What a byte that is no code is taken for by the loop    *)
(* does not matter, nor how many faults there are: after a fault that      *)
(* could leave a byte behind the session is not good any more.             *)
(***************************************************************************)
THEOREM AsprogLineClean == Spec => []LineClean
<1>1. Init => IInv /\ LInv
  BY Initial, LineInitial
<1>2. IInv /\ LInv /\ [Next]_vars => IInv' /\ LInv'
  BY Inductive, LineInductive
<1>3. IInv /\ LInv => LineClean
  BY LineImplied
<1> QED
  BY <1>1, <1>2, <1>3, PTL DEF Spec
=============================================================================
