---------------------------- MODULE AvrIspProofs ----------------------------
(***************************************************************************)
(* What is proved of AvrIsp for every packet and block size, menu of       *)
(* calls, number of sessions and of faults: its type invariant, that in a  *)
(* good session no packet is taken for what it is not, and that a session  *)
(* left in order leaves nothing of the header driven.                      *)
(***************************************************************************)
EXTENDS AvrIsp, SequenceTheorems, WellFoundedInduction, TLAPS

-----------------------------------------------------------------------------
(***************************************************************************)
(* The types.  What a byte says and what the pins do does not matter here, *)
(* only how many bytes there are.                                          *)
(***************************************************************************)
Listed(s) == s \in Seq({s[k]: k \in DOMAIN s})

\* Commands that are asked for a number of bytes.
Counted == {"SPI25_READ", "I2C_READ", "MW_READ", "READ_FLASH", "READ_EEPROM", "SPI_MULTI"}

CommandOK(c) == c.len \in Nat /\ (c.cmd \in Counted => c.n \in Nat)

FwOK(f) ==
  /\ DOMAIN f = {"pins", "addr", "mustLoad", "params"}
  /\ DOMAIN f.params = DOMAIN Defaults

Packets(reply) == Listed(reply) /\ \A k \in 1..Len(reply): Len(reply[k]) <= PacketSize

BankOK(b) ==
  /\ DOMAIN b = {"head", "data", "full", "wire"}
  /\ b.full \in BOOLEAN
  /\ CommandOK(b.head)
  /\ Listed(b.data) /\ Len(b.data) <= PacketSize
  /\ ~b.full => b = Empty

DevOK(d) ==
  /\ DOMAIN d = {"bank", "cmd", "got", "reply", "strayed", "fw"}
  /\ BankOK(d.bank) /\ CommandOK(d.cmd) /\ Listed(d.got)
  /\ Packets(d.reply) /\ FwOK(d.fw) /\ d.strayed \in BOOLEAN
  /\ d.reply # <<>> => d.cmd = NoCmd /\ ~d.bank.full
  /\ d.cmd = NoCmd => d.got = <<>>

(***************************************************************************)
(* A transfer that sends a command is cut into packets exactly as the      *)
(* device puts them together: an empty packet follows when, and only when, *)
(* the command waits for one.                                              *)
(***************************************************************************)
Trailed(t) == t.short /\ Elements(t) % PacketSize = 0

OutOK(t) ==
  /\ CommandOK(t.head) /\ t.head.cmd # "none" /\ ~TooLong(t.head)
  /\ Trailed(t) <=> EndsWithEmpty(t.head)

TransferOK(t) == t.ep \in {"config", "in"} \/ (t.ep = "out" /\ OutOK(t))

TodoOK(todo) ==
  /\ Listed(todo)
  /\ \A k \in 1..Len(todo): TransferOK(todo[k])
  /\ \A k \in 2..Len(todo): todo[k].ep # "config"

HostOK(h) ==
  /\ DOMAIN h = DOMAIN Quiet
  /\ h.made \in 0..MaxJobs
  /\ h.good \in BOOLEAN
  /\ TodoOK(h.todo)
  /\ h.todo = <<>> <=> h.call = NoCall
  /\ h.sent \in Nat
  /\ h.sent > 0 => h.todo # <<>> /\ Head(h.todo).ep = "out" /\ h.sent <= PacketsOf(Head(h.todo))

\* A session that was left in order is followed by another, or by none.
HostTypes ==
  /\ HostOK(host) /\ port \in {"closed", "open", "broken"}
  /\ port = "open" => host.entered
  /\ host.clean => ~host.entered /\ (host.call = NoCall \/ host.call.op = "Open")
  /\ port = "closed" => host.clean

TypesOK == mode \in Modes /\ faults \in 0..MaxFaults /\ DevOK(dev) /\ HostTypes

-----------------------------------------------------------------------------
(***************************************************************************)
(* All is in order: the session is good, or is being opened and the device *)
(* has been configured, or is being closed after all went well, or one     *)
(* that ended like this is the last there was.  Then what the device holds *)
(* of a command is what the host has sent of it, and it is complete with   *)
(* the last packet.                                                        *)
(***************************************************************************)
AtRest == host.clean /\ (host.call = NoCall \/ Now("config"))

Orderly ==
  \/ port = "open"
  \/ AtRest
  \/ /\ host.good /\ host.todo # <<>>
     /\ host.call.op = "Close" \/ (host.call.op = "Open" /\ Head(host.todo).ep # "config")

\* The host is in the middle of a command.
Midway == host.sent > 0 /\ host.sent < PacketsOf(Head(host.todo))

\* The command the device works on or is about to, and what it has of it
\* without and with the packet in the bank.
Current == IF dev.cmd = NoCmd THEN dev.bank.head ELSE dev.cmd
Before  == Len(dev.got)
Up      == Len(dev.got) + Len(dev.bank.data)

\* Bytes of data in the first k packets of a command.
DataIn(k) == IF k = 0 THEN 0 ELSE k * PacketSize - 1

Aligned ==
  /\ dev.bank.full => (dev.cmd = NoCmd <=> dev.bank.head # NoCmd)
  /\ ~Midway => IF dev.bank.full THEN Complete(Current, Before, Up) ELSE dev.cmd = NoCmd
  /\ Midway => /\ Current = Head(host.todo).head
               /\ Up = DataIn(host.sent)
               /\ dev.bank.full => Before = DataIn(host.sent - 1)
               /\ ~dev.bank.full => dev.cmd # NoCmd

InOrderInv == Orderly => ~dev.strayed /\ Aligned

IInv == TypesOK /\ InOrderInv

-----------------------------------------------------------------------------
(***************************************************************************)
(* Sequences whose elements do not matter.                                 *)
(***************************************************************************)
\* Any sequence is listed.
LEMMA ListedSeq ==
  ASSUME NEW S, NEW s \in Seq(S)
  PROVE  Listed(s) /\ Len(s) \in Nat
<1> DEFINE T == {s[k]: k \in DOMAIN s}
<1>1. s \in [1..Len(s) -> T] /\ Len(s) \in Nat
  BY LenProperties
<1>2. s \in Seq(T)
  <2> HIDE DEF T
  <2> QED
    BY <1>1, SeqDef
<1> QED
  BY <1>1, <1>2 DEF Listed

\* Its length, and where its elements are.
LEMMA ListedLen ==
  ASSUME NEW s, Listed(s)
  PROVE  Len(s) \in Nat /\ DOMAIN s = 1..Len(s) /\ (Len(s) = 0 <=> s = <<>>)
<1> DEFINE T == {s[k]: k \in DOMAIN s}
<1>1. s \in Seq(T)
  BY DEF Listed
<1> HIDE DEF T
<1> QED
  BY <1>1, LenProperties, EmptySeq

\* A function over 1..n is listed.
LEMMA ListedTable ==
  ASSUME NEW n \in Nat, NEW s, s = [k \in 1..n |-> s[k]]
  PROVE  Listed(s) /\ Len(s) = n
<1> DEFINE T == {s[k]: k \in 1..n}
<1>1. s \in [1..n -> T]
  OBVIOUS
<1> HIDE DEF T
<1>2. s \in Seq(T)
  BY <1>1, SeqDef
<1>3. DOMAIN s = 1..n
  BY <1>1
<1> QED
  BY <1>2, <1>3, ListedSeq, LenProperties

\* Short ones.
LEMMA ListedShort ==
  /\ Listed(<<>>) /\ Len(<<>>) = 0
  /\ \A a: Listed(<<a>>) /\ Len(<<a>>) = 1
  /\ \A a, b: Listed(<<a, b>>) /\ Len(<<a, b>>) = 2
<1>1. Listed(<<>>) /\ Len(<<>>) = 0
  <2>1. <<>> \in Seq({})
    BY EmptySeq
  <2> QED
    BY <2>1, ListedSeq
<1>2. ASSUME NEW a PROVE Listed(<<a>>) /\ Len(<<a>>) = 1
  <2>1. <<a>> = [k \in 1..1 |-> <<a>>[k]]
    OBVIOUS
  <2> QED
    BY <2>1, ListedTable
<1>3. ASSUME NEW a, NEW b PROVE Listed(<<a, b>>) /\ Len(<<a, b>>) = 2
  <2>1. <<a, b>> = [k \in 1..2 |-> <<a, b>>[k]]
    OBVIOUS
  <2> QED
    BY <2>1, ListedTable
<1> QED
  BY <1>1, <1>2, <1>3

\* One after the other.
LEMMA ListedConcat ==
  ASSUME NEW s, NEW t, Listed(s), Listed(t)
  PROVE  /\ Listed(s \o t) /\ Len(s \o t) = Len(s) + Len(t)
         /\ \A k \in 1..Len(s) + Len(t): (s \o t)[k] = IF k <= Len(s) THEN s[k] ELSE t[k - Len(s)]
<1> DEFINE S == {s[k]: k \in DOMAIN s}
           T == {t[k]: k \in DOMAIN t}
<1>1. s \in Seq(S) /\ t \in Seq(T)
  BY DEF Listed
<1> HIDE DEF S, T
<1>2. s \in Seq(S \cup T) /\ t \in Seq(S \cup T)
  BY <1>1, SeqMonotonic
<1>3. s \o t \in Seq(S \cup T)
  BY <1>2, ConcatProperties
<1>4. Listed(s \o t)
  BY <1>3, ListedSeq
<1> QED
  BY <1>2, <1>4, ConcatProperties

\* A part of one.
LEMMA ListedPart ==
  ASSUME NEW s, Listed(s), NEW m \in Nat, NEW n \in Nat, 1 <= m, m <= n + 1, n <= Len(s)
  PROVE  /\ Listed(SubSeq(s, m, n)) /\ Len(SubSeq(s, m, n)) = n - m + 1
         /\ \A k \in 1..n - m + 1: SubSeq(s, m, n)[k] = s[m + k - 1]
<1> DEFINE T == {s[k]: k \in DOMAIN s}
<1>1. \A k \in m..n: s[k] \in T
  BY ListedLen
<1> HIDE DEF T
<1>2. SubSeq(s, m, n) \in Seq(T)
  BY <1>1, SubSeqProperties
<1>3. /\ Len(SubSeq(s, m, n)) = IF m <= n THEN n - m + 1 ELSE 0
      /\ \A k \in 1..n - m + 1: SubSeq(s, m, n)[k] = s[m + k - 1]
  BY <1>1, SubSeqProperties
<1>4. Listed(SubSeq(s, m, n))
  BY <1>2, ListedSeq, Zenon
<1>5. Len(SubSeq(s, m, n)) = n - m + 1
  BY <1>3
<1> QED
  BY <1>3, <1>4, <1>5, Zenon

\* All but the first.
LEMMA ListedTail ==
  ASSUME NEW s, Listed(s), s # <<>>
  PROVE  /\ Listed(Tail(s)) /\ Len(Tail(s)) = Len(s) - 1 /\ Len(s) >= 1
         /\ Head(s) = s[1]
         /\ \A k \in 1..Len(s) - 1: Tail(s)[k] = s[k + 1]
<1> DEFINE T == {s[k]: k \in DOMAIN s}
<1>1. s \in Seq(T)
  BY DEF Listed
<1> HIDE DEF T
<1>2. /\ Tail(s) \in Seq(T) /\ Len(Tail(s)) = Len(s) - 1
      /\ \A i \in 1..Len(Tail(s)): Tail(s)[i] = s[i + 1]
  BY <1>1, HeadTailProperties
<1>3. Len(s) \in Nat /\ Len(s) # 0
  BY ListedLen
<1>4. Head(s) = s[1]
  BY <1>1, <1>3
<1>5. Listed(Tail(s))
  BY <1>2, ListedSeq, Zenon
<1>6. Len(s) >= 1
  BY <1>3
<1>7. \A k \in 1..Len(s) - 1: Tail(s)[k] = s[k + 1]
  BY <1>2
<1> QED
  BY <1>2, <1>4, <1>5, <1>6, <1>7, Zenon

-----------------------------------------------------------------------------
(***************************************************************************)
(* Commands and replies.                                                   *)
(***************************************************************************)
\* A bank holds more than a status and a value.
LEMMA BankSize == PacketSize \in Nat /\ PacketSize > 2
BY AvrIspAssumption

\* The packets of a reply start within it.
LEMMA PacketStart ==
  ASSUME NEW n \in Nat, NEW k \in 1..(n + PacketSize - 1) \div PacketSize
  PROVE  (k - 1) * PacketSize \in Nat /\ (k - 1) * PacketSize < n /\ k * PacketSize = (k - 1) * PacketSize + PacketSize
<1> DEFINE m == (n + PacketSize - 1) \div PacketSize
<1>1. m \in Nat /\ m * PacketSize <= n + PacketSize - 1
  <2>1. n + PacketSize - 1 \in Nat
    BY BankSize
  <2> QED
    BY <2>1, BankSize, SMTT(30)
<1> HIDE DEF m
<1>2. k \in 1..m
  BY DEF m
<1>3. /\ k * PacketSize <= m * PacketSize
      /\ (k - 1) * PacketSize = k * PacketSize - PacketSize /\ (k - 1) * PacketSize \in Nat
  BY <1>1, <1>2, BankSize
<1> QED
  BY <1>1, <1>3, BankSize

\* A reply cut into packets.
LEMMA InPacketsOK ==
  ASSUME NEW bytes, Listed(bytes)
  PROVE  Packets(InPackets(bytes))
<1> DEFINE n == Len(bytes)
           m == (n + PacketSize - 1) \div PacketSize
           r == InPackets(bytes)
<1>1. n \in Nat
  BY ListedLen
<1>2. m \in Nat
  BY <1>1, BankSize, SMTT(30)
<1>3. r = [k \in 1..m |-> SubSeq(bytes, (k - 1) * PacketSize + 1, Upto(k, n))]
  BY DEF InPackets
<1>4. ASSUME NEW k \in 1..m PROVE Len(r[k]) <= PacketSize
  <2> DEFINE d == (k - 1) * PacketSize
             u == Upto(k, n)
  <2>1. d \in Nat /\ d < n /\ k * PacketSize = d + PacketSize
    BY <1>1, PacketStart
  <2>2. u \in Nat /\ d <= u /\ u <= n /\ u <= d + PacketSize
    <3> HIDE DEF d
    <3> QED
      BY <1>1, <2>1, BankSize DEF Upto
  <2>3. r[k] = SubSeq(bytes, d + 1, u)
    BY <1>3
  <2> HIDE DEF d, u
  <2>4. d + 1 \in Nat /\ 1 <= d + 1 /\ d + 1 <= u + 1 /\ u <= Len(bytes)
    BY <2>1, <2>2
  <2>5. Len(SubSeq(bytes, d + 1, u)) = u - (d + 1) + 1
    BY <2>2, <2>4, ListedPart
  <2> QED
    BY <2>1, <2>2, <2>3, <2>5, BankSize
<1> HIDE DEF r, m
<1>5. r = [k \in 1..m |-> r[k]]
  BY <1>3
<1>6. Listed(r) /\ Len(r) = m
  BY <1>2, <1>5, ListedTable
<1> QED
  BY <1>4, <1>6 DEF Packets, r

\* One packet, or none.
LEMMA FewPackets ==
  /\ Packets(<<>>)
  /\ \A bytes: Len(bytes) <= PacketSize => Packets(<<bytes>>)
<1>1. Packets(<<>>)
  BY ListedShort DEF Packets
<1>2. ASSUME NEW bytes, Len(bytes) <= PacketSize PROVE Packets(<<bytes>>)
  <2>1. Listed(<<bytes>>) /\ Len(<<bytes>>) = 1
    BY ListedShort
  <2> QED
    BY <1>2, <2>1 DEF Packets
<1> QED
  BY <1>1, <1>2

\* A reply that ends with a short packet, or need not.
LEMMA ChunksOK ==
  ASSUME NEW bytes, Listed(bytes), NEW short
  PROVE  Packets(Chunks(bytes, short))
<1> DEFINE s == InPackets(bytes)
           t == IF short /\ Len(bytes) % PacketSize = 0 THEN <<<<>>>> ELSE <<>>
<1>1. Packets(s)
  BY InPacketsOK
<1>2. Packets(t)
  <2>1. Len(<<>>) <= PacketSize
    BY ListedShort, BankSize
  <2> QED
    BY <2>1, FewPackets
<1>3. Chunks(bytes, short) = s \o t
  BY DEF Chunks
<1> HIDE DEF s, t
<1>4. /\ Listed(s \o t) /\ Len(s \o t) = Len(s) + Len(t)
      /\ \A k \in 1..Len(s) + Len(t): (s \o t)[k] = IF k <= Len(s) THEN s[k] ELSE t[k - Len(s)]
  BY <1>1, <1>2, ListedConcat DEF Packets
<1>5. Len(s) \in Nat /\ Len(t) \in Nat
  BY <1>1, <1>2, ListedLen DEF Packets
<1>6. ASSUME NEW k \in 1..Len(s \o t) PROVE Len((s \o t)[k]) <= PacketSize
  <2>1. CASE k <= Len(s)
    <3>1. k \in 1..Len(s) /\ (s \o t)[k] = s[k]
      BY <1>4, <1>5, <2>1
    <3> QED
      BY <1>1, <3>1 DEF Packets
  <2>2. CASE ~(k <= Len(s))
    <3>1. k - Len(s) \in 1..Len(t) /\ (s \o t)[k] = t[k - Len(s)]
      BY <1>4, <1>5, <2>2
    <3> QED
      BY <1>2, <3>1 DEF Packets
  <2> QED
    BY <2>1, <2>2
<1> QED
  BY <1>3, <1>4, <1>6 DEF Packets

\* What a command may leave: the firmware and its reply are well formed.
Produced(r) == FwOK(r.fw) /\ Packets(r.reply)

\* The pins may be left in any state.
LEMMA OnOK ==
  ASSUME NEW f, FwOK(f)
  PROVE  /\ \A p: FwOK(On(f, p))
         /\ \A g: FwOK(Moved(f, g))
         /\ \A a, m: FwOK([f EXCEPT !.addr = a, !.mustLoad = m]) /\ FwOK([f EXCEPT !.addr = a])
                     /\ FwOK([f EXCEPT !.mustLoad = m])
BY DEF FwOK, On, Moved

\* No reply, or one packet of one or two bytes.
LEMMA AnswerOK ==
  ASSUME NEW f, FwOK(f)
  PROVE  Produced(Silent(f)) /\ \A a, b: Produced(Answer(f, <<a>>)) /\ Produced(Answer(f, <<a, b>>))
<1>1. ASSUME NEW bytes, Len(bytes) <= PacketSize PROVE Produced(Answer(f, bytes))
  BY <1>1, FewPackets DEF Produced, Answer
<1>2. \A a, b: Len(<<a>>) <= PacketSize /\ Len(<<a, b>>) <= PacketSize
  BY ListedShort, BankSize
<1>3. Produced(Silent(f))
  BY FewPackets DEF Produced, Silent
<1> QED
  BY <1>1, <1>2, <1>3

\* A reply of as many bytes as were asked for, alone or between two statuses.
LEMMA ReadReplyOK ==
  ASSUME NEW n \in Nat, NEW bytes, bytes = [i \in 1..n |-> bytes[i]], NEW short, NEW a, NEW b
  PROVE  /\ Packets(Chunks(bytes, short))
         /\ Packets(Chunks(<<a>> \o bytes \o <<b>>, short))
<1>1. Listed(bytes) /\ Listed(<<a>>) /\ Listed(<<b>>)
  BY ListedTable, ListedShort
<1>2. Listed(<<a>> \o bytes)
  BY <1>1, ListedConcat
<1>3. Listed(<<a>> \o bytes \o <<b>>)
  BY <1>1, <1>2, ListedConcat
<1> QED
  BY <1>1, <1>3, ChunksOK

\* The commands for serial memories that move data.
LEMMA SerialOK ==
  ASSUME NEW f, FwOK(f), NEW c, NEW data
  PROVE  /\ Produced(SPI_25Write(f, c, data)) /\ Produced(i2c_write(f, c, data))
         /\ Produced(mw_write(f, c, data))
         /\ c.n \in Nat => Produced(SPI_25Read(f, c)) /\ Produced(i2c_read(f, c)) /\ Produced(mw_read(f, c))
<1>1. \A p: Produced(Silent(On(f, p)))
  BY OnOK, AnswerOK
<1>2. Produced(SPI_25Write(f, c, data)) /\ Produced(i2c_write(f, c, data)) /\ Produced(mw_write(f, c, data))
  BY <1>1 DEF SPI_25Write, i2c_write, mw_write
<1>3. ASSUME c.n \in Nat PROVE Produced(SPI_25Read(f, c))
  <2> DEFINE Clock(p, i) == SPI_TransferByte(p, Sym("read"))
             after == After(SPI_Set_CS(f.pins, "low"), c.n, Clock)
             bytes == [i \in 1..c.n |-> MisoPlace(after[i - 1], after[i])]
  <2>1. /\ SPI_25Read(f, c).fw =
             On(f, IF after[c.n].hung THEN after[c.n] ELSE RaiseCS(c.cs, after[c.n]))
        /\ SPI_25Read(f, c).reply \in {<<>>, Chunks(bytes, FALSE)}
    BY DEF SPI_25Read
  <2> HIDE DEF after
  <2>2. bytes = [i \in 1..c.n |-> bytes[i]]
    OBVIOUS
  <2> HIDE DEF bytes
  <2>3. Packets(Chunks(bytes, FALSE)) /\ Packets(<<>>)
    BY <1>3, <2>2, ReadReplyOK, FewPackets
  <2> QED
    BY <2>1, <2>3, OnOK DEF Produced
<1>4. ASSUME c.n \in Nat PROVE Produced(i2c_read(f, c))
  <2> DEFINE Clock(p, i) == IF i = c.n THEN i2c_stop(i2c_read_byte(p, "nack")) ELSE i2c_read_byte(p, "ack")
             after == After(i2c_address(i2c_init(f.pins), "R"), c.n, Clock)
             PlaceOf(i) == IF after[i].wire = after[i - 1].wire THEN 0 ELSE Len(after[i - 1].wire) + 1
             bytes == [i \in 1..c.n |-> PlaceOf(i)]
  <2>1. i2c_read(f, c).fw = On(f, after[c.n]) /\ i2c_read(f, c).reply = Chunks(bytes, FALSE)
    BY DEF i2c_read
  <2> HIDE DEF after
  <2>2. bytes = [i \in 1..c.n |-> bytes[i]]
    OBVIOUS
  <2> HIDE DEF bytes
  <2>3. Packets(Chunks(bytes, FALSE))
    BY <1>4, <2>2, ReadReplyOK
  <2> QED
    BY <2>1, <2>3, OnOK DEF Produced
<1>5. ASSUME c.n \in Nat PROVE Produced(mw_read(f, c))
  <2> DEFINE Clock(p, i) == mwReadByte(p)
             after == After(f.pins, c.n, Clock)
             some  == [i \in 1..c.n |-> MisoPlace(after[i - 1], after[i])]
             bytes == IF c.n = 0 THEN <<0>> ELSE some
  <2>1. /\ mw_read(f, c).fw = On(f, IF c.cs = 1 THEN mwEnd(after[c.n]) ELSE after[c.n])
        /\ mw_read(f, c).reply = Chunks(bytes, FALSE)
    BY DEF mw_read
  <2> HIDE DEF after
  <2>2. some = [i \in 1..c.n |-> some[i]]
    OBVIOUS
  <2> HIDE DEF some
  <2>3. Packets(Chunks(<<0>>, FALSE)) /\ Packets(Chunks(some, FALSE))
    BY <1>5, <2>2, ReadReplyOK, ListedShort, ChunksOK
  <2>4. Packets(Chunks(bytes, FALSE))
    BY <2>3
  <2> HIDE DEF bytes
  <2> QED
    BY <2>1, <2>4, OnOK DEF Produced
<1> QED
  BY <1>2, <1>3, <1>4, <1>5

\* The commands on the memory of an AVR.
LEMMA MemoryOK ==
  ASSUME NEW f, FwOK(f), NEW c, NEW data, NEW stuck
  PROVE  /\ Produced(ProgramMemory(f, c, data, stuck))
         /\ c.n \in Nat => Produced(ReadMemory(f, c))
<1>1. Produced(ProgramMemory(f, c, data, stuck))
  <2> DEFINE fails == c.polled /\ stuck > 0
             n     == IF fails /\ ~c.paged THEN stuck ELSE c.len
             Stp(g, i) == LET h == Writes(g, c, i, data[i])
                          IN  IF fails /\ ~c.paged /\ i = n THEN h ELSE Advance(h, c, i)
             g    == Commit(After(f, n, Stp)[n], c, f.addr)
             done == Moved(f, g)
             loads == c.commit /\ Flash(c) /\ done.addr % SegWords = 0
             status == IF fails /\ (c.paged => c.commit) THEN STATUS_RDY_BSY_TOUT ELSE STATUS_CMD_OK
  <2>1. ProgramMemory(f, c, data, stuck) =
          IF done.pins.hung THEN Silent(done)
          ELSE Answer([done EXCEPT !.mustLoad = @ \/ loads], <<status>>)
    BY DEF ProgramMemory
  <2> HIDE DEF g, status
  <2>2. FwOK(done) /\ FwOK([done EXCEPT !.mustLoad = @ \/ loads])
    BY OnOK
  <2> HIDE DEF done, loads
  <2> QED
    BY <2>1, <2>2, AnswerOK
<1>2. ASSUME c.n \in Nat PROVE Produced(ReadMemory(f, c))
  <2> DEFINE Stp(g, i) == Reads(g, c, i)
             after == After(f, c.n, Stp)
             done  == Moved(f, after[c.n])
             bytes == [i \in 1..c.n |-> Place(after[i - 1].pins, after[i].pins)]
             reply == Chunks(<<STATUS_CMD_OK>> \o bytes \o <<STATUS_CMD_OK>>, TRUE)
  <2>1. ReadMemory(f, c) = IF done.pins.hung THEN Silent(done) ELSE [fw |-> done, reply |-> reply]
    BY DEF ReadMemory
  <2> HIDE DEF after
  <2>2. bytes = [i \in 1..c.n |-> bytes[i]]
    OBVIOUS
  <2> HIDE DEF bytes
  <2>3. Packets(reply)
    BY <1>2, <2>2, ReadReplyOK
  <2>4. FwOK(done)
    BY OnOK
  <2> HIDE DEF reply, done
  <2> QED
    BY <2>1, <2>3, <2>4, AnswerOK DEF Produced
<1> QED
  BY <1>1, <1>2

\* The commands that are one instruction to the AVR.
LEMMA InstructionOK ==
  ASSUME NEW f, FwOK(f), NEW c, c.cmd \in {"READ_FUSE", "PROGRAM_FUSE"} \/ (c.cmd = "SPI_MULTI" /\ c.n \in Nat),
         NEW symbol
  PROVE  Produced(Instruction(f, c, symbol))
<1> DEFINE p == Instruct(f.pins, symbol)
           place == Place(f.pins, p)
<1>1. Instruction(f, c, symbol).fw = On(f, p) /\ Instruction(f, c, symbol).reply \in {<<>>, Told(c, place)}
  BY DEF Instruction
<1> HIDE DEF p, place
<1>2. Packets(Told(c, place))
  <2>1. CASE c.cmd = "READ_FUSE"
    <3>1. Len(<<STATUS_CMD_OK, place>>) <= PacketSize
      BY ListedShort, BankSize
    <3> QED
      BY <2>1, <3>1, FewPackets DEF Told
  <2>2. CASE c.cmd = "PROGRAM_FUSE"
    <3>1. Len(<<STATUS_CMD_OK>>) <= PacketSize
      BY ListedShort, BankSize
    <3> QED
      BY <2>2, <3>1, FewPackets DEF Told
  <2>3. CASE c.cmd = "SPI_MULTI" /\ c.n \in Nat
    <3> DEFINE bytes == [k \in 1..c.n |-> place]
    <3>1. Told(c, place) = Chunks(<<STATUS_CMD_OK>> \o bytes \o <<STATUS_CMD_OK>>, TRUE)
      BY <2>3 DEF Told, Several
    <3>2. bytes = [k \in 1..c.n |-> bytes[k]]
      OBVIOUS
    <3> HIDE DEF bytes
    <3> QED
      BY <2>3, <3>1, <3>2, ReadReplyOK
  <2> QED
    BY <2>1, <2>2, <2>3
<1> QED
  BY <1>1, <1>2, OnOK, FewPackets DEF Produced

\* A parameter set keeps its name; the other parameters are not touched.
LEMMA GetSetParamOK ==
  ASSUME NEW f, FwOK(f), NEW c
  PROVE  Produced(GetSetParam(f, c))
<1>1. FwOK([f EXCEPT !.params[c.param] = c.value])
  BY DEF FwOK
<1>2. GetSetParam(f, c) \in
        {Answer([f EXCEPT !.params[c.param] = c.value], <<STATUS_CMD_OK>>),
         Answer(f, <<STATUS_CMD_OK, f.params[c.param]>>),
         Answer(f, <<STATUS_CMD_OK, 0>>), Answer(f, <<STATUS_CMD_FAILED>>)}
  <2>1. c.param \in DOMAIN Defaults => c.param \notin ReadOnly
    BY DEF Defaults, ReadOnly
  <2> QED
    BY <2>1, Zenon DEF GetSetParam
<1> QED
  BY <1>1, <1>2, AnswerOK

\* Whatever is taken for a command.
LEMMA ProcessCommandOK ==
  ASSUME NEW f, FwOK(f), NEW c, CommandOK(c), NEW data, NEW stuck
  PROVE  Produced(ProcessCommand(f, c, data, stuck))
<1> DEFINE r == ProcessCommand(f, c, data, stuck)
<1>1. /\ \A p: Produced(Silent(On(f, p)))
      /\ \A p, a: Produced(Answer(On(f, p), <<a>>)) /\ Produced(Answer([On(f, p) EXCEPT !.addr = 0], <<a>>))
      /\ \A a: Produced(Answer(f, <<a>>))
  BY OnOK, AnswerOK
<1>2. CASE c.cmd \in {"SIGN_ON", "RESET_PROTECTION", "FIRMWARE_VER"}
  BY <1>1, <1>2 DEF ProcessCommand
<1>3. CASE c.cmd \in {"SET_PARAMETER", "GET_PARAMETER"}
  BY <1>3, GetSetParamOK DEF ProcessCommand
<1>4. CASE c.cmd = "LOAD_ADDRESS"
  <2>1. r = LoadAddress(f, c)
    BY <1>4 DEF ProcessCommand
  <2> QED
    BY <2>1, OnOK, AnswerOK DEF LoadAddress
<1>5. CASE c.cmd = "ENTER_SPI25"
  <2>1. r = SPI_Enter25Mode(f)
    BY <1>5 DEF ProcessCommand
  <2>2. \E p, a: SPI_Enter25Mode(f) = Answer(On(f, p), <<a>>)
    BY Zenon DEF SPI_Enter25Mode
  <2> QED
    BY <1>1, <2>1, <2>2
<1>6. CASE c.cmd = "LEAVE_SPI25"
  <2>1. r = SPI_Leave25Mode(f)
    BY <1>6 DEF ProcessCommand
  <2> QED
    BY <1>1, <2>1 DEF SPI_Leave25Mode
<1>7. CASE c.cmd \in {"SPI25_READ", "I2C_READ", "MW_READ"}
  <2>1. c.n \in Nat
    BY <1>7 DEF CommandOK, Counted
  <2>2. r \in {SPI_25Read(f, c), i2c_read(f, c), mw_read(f, c)}
    <3>1. CASE c.cmd = "SPI25_READ"
      BY <3>1 DEF ProcessCommand
    <3>2. CASE c.cmd = "I2C_READ"
      BY <3>2 DEF ProcessCommand
    <3>3. CASE c.cmd = "MW_READ"
      BY <3>3 DEF ProcessCommand
    <3> QED
      BY <1>7, <3>1, <3>2, <3>3
  <2> QED
    BY <2>1, <2>2, SerialOK
<1>8. CASE c.cmd \in {"SPI25_WRITE", "I2C_WRITE", "MW_WRITE"}
  <2>1. r \in {SPI_25Write(f, c, data), i2c_write(f, c, data), mw_write(f, c, data)}
    <3>1. CASE c.cmd = "SPI25_WRITE"
      BY <3>1 DEF ProcessCommand
    <3>2. CASE c.cmd = "I2C_WRITE"
      BY <3>2 DEF ProcessCommand
    <3>3. CASE c.cmd = "MW_WRITE"
      BY <3>3 DEF ProcessCommand
    <3> QED
      BY <1>8, <3>1, <3>2, <3>3
  <2> QED
    BY <2>1, SerialOK
<1>9. CASE c.cmd \in {"I2C_INIT", "I2C_START", "I2C_STOP", "MW_INIT"}
  <2>1. \E p: r = Silent(On(f, p))
    <3>1. CASE c.cmd = "I2C_INIT"
      BY <3>1 DEF ProcessCommand
    <3>2. CASE c.cmd = "I2C_START"
      BY <3>2 DEF ProcessCommand
    <3>3. CASE c.cmd = "I2C_STOP"
      BY <3>3 DEF ProcessCommand
    <3>4. CASE c.cmd = "MW_INIT"
      BY <3>4 DEF ProcessCommand
    <3> QED
      BY <1>9, <3>1, <3>2, <3>3, <3>4
  <2> QED
    BY <1>1, <2>1
<1>10. CASE c.cmd \in {"I2C_READBYTE", "I2C_WRITEBYTE", "MW_BUSY"}
  <2>1. \E p, a: r = OneByte(f, p, a)
    <3>1. CASE c.cmd = "I2C_READBYTE"
      BY <3>1 DEF ProcessCommand
    <3>2. CASE c.cmd = "I2C_WRITEBYTE"
      BY <3>2 DEF ProcessCommand
    <3>3. CASE c.cmd = "MW_BUSY"
      BY <3>3 DEF ProcessCommand
    <3> QED
      BY <1>10, <3>1, <3>2, <3>3
  <2> QED
    BY <1>1, <2>1 DEF OneByte
<1>11. CASE c.cmd = "ENTER_ISP"
  <2>1. r = EnterISPMode(f)
    BY <1>11 DEF ProcessCommand
  <2> QED
    BY <1>1, <2>1 DEF EnterISPMode
<1>12. CASE c.cmd = "LEAVE_ISP"
  <2>1. r = LeaveISPMode(f)
    BY <1>12 DEF ProcessCommand
  <2> QED
    BY <1>1, <2>1 DEF LeaveISPMode
<1>13. CASE c.cmd \in {"PROGRAM_FLASH", "PROGRAM_EEPROM"}
  BY <1>1, <1>13, MemoryOK DEF ProcessCommand
<1>14. CASE c.cmd \in {"READ_FLASH", "READ_EEPROM"}
  <2>1. c.n \in Nat
    BY <1>14 DEF CommandOK, Counted
  <2> QED
    BY <1>14, <2>1, MemoryOK DEF ProcessCommand
<1>15. CASE c.cmd = "CHIP_ERASE"
  <2>1. r = ChipErase(f, c, stuck)
    BY <1>15 DEF ProcessCommand
  <2> QED
    BY <1>1, <2>1 DEF ChipErase
<1>16. CASE c.cmd \in {"READ_FUSE", "PROGRAM_FUSE", "SPI_MULTI"}
  <2>1. \E symbol: r = Instruction(f, c, symbol)
    <3>1. CASE c.cmd = "READ_FUSE"
      BY <3>1 DEF ProcessCommand
    <3>2. CASE c.cmd = "PROGRAM_FUSE"
      BY <3>2 DEF ProcessCommand
    <3>3. CASE c.cmd = "SPI_MULTI"
      BY <3>3 DEF ProcessCommand
    <3> QED
      BY <1>16, <3>1, <3>2, <3>3
  <2>2. c.cmd = "SPI_MULTI" => c.n \in Nat
    BY DEF CommandOK, Counted
  <2> QED
    BY <1>16, <2>1, <2>2, InstructionOK
<1>17. CASE c.cmd \notin {"SIGN_ON", "RESET_PROTECTION", "FIRMWARE_VER", "SET_PARAMETER", "GET_PARAMETER",
                          "LOAD_ADDRESS", "ENTER_SPI25", "LEAVE_SPI25", "SPI25_READ", "I2C_READ", "MW_READ",
                          "SPI25_WRITE", "I2C_WRITE", "MW_WRITE", "I2C_INIT", "I2C_START", "I2C_STOP",
                          "MW_INIT", "I2C_READBYTE", "I2C_WRITEBYTE", "MW_BUSY", "ENTER_ISP", "LEAVE_ISP",
                          "PROGRAM_FLASH", "PROGRAM_EEPROM", "READ_FLASH", "READ_EEPROM", "CHIP_ERASE",
                          "READ_FUSE", "PROGRAM_FUSE", "SPI_MULTI"}
  <2>1. r = Answer(f, <<STATUS_CMD_UNKNOWN>>)
    BY <1>17 DEF ProcessCommand
  <2> QED
    BY <1>1, <2>1
<1> QED
  BY <1>2, <1>3, <1>4, <1>5, <1>6, <1>7, <1>8, <1>9, <1>10, <1>11, <1>12, <1>13, <1>14, <1>15, <1>16, <1>17

-----------------------------------------------------------------------------
(***************************************************************************)
(* How many packets a command is sent in.                                  *)
(***************************************************************************)
\* Multiples of the packet size grow.
LEMMA TimesOrder ==
  ASSUME NEW a \in Nat, NEW b \in Nat
  PROVE  /\ a * PacketSize \in Nat /\ (a + 1) * PacketSize = a * PacketSize + PacketSize
         /\ a <= b => a * PacketSize <= b * PacketSize
         /\ a < b => a * PacketSize + PacketSize <= b * PacketSize
<1>1. a * PacketSize \in Nat /\ b * PacketSize \in Nat /\ (a + 1) * PacketSize = a * PacketSize + PacketSize
  BY BankSize
<1>2. ASSUME a <= b PROVE a * PacketSize <= b * PacketSize
  BY <1>2, BankSize, SMTT(30)
<1>3. ASSUME a < b PROVE a * PacketSize + PacketSize <= b * PacketSize
  <2>1. a + 1 <= b
    BY <1>3
  <2>2. (a + 1) * PacketSize <= b * PacketSize
    BY <2>1, BankSize, SMTT(30)
  <2> QED
    BY <1>1, <2>2
<1> QED
  BY <1>1, <1>2, <1>3

\* A quotient rounded up.
LEMMA RoundUp ==
  ASSUME NEW e \in Nat, e >= 1
  PROVE  LET m == (e + PacketSize - 1) \div PacketSize
         IN  /\ m \in Nat \ {0} /\ e <= m * PacketSize /\ m * PacketSize < e + PacketSize
             /\ e % PacketSize = 0 => e = m * PacketSize
<1> DEFINE q == e + PacketSize - 1
           m == q \div PacketSize
           d == e \div PacketSize
<1>1. q \in Nat /\ q >= PacketSize
  BY BankSize
<1>2. m \in Nat /\ q = m * PacketSize + (q % PacketSize) /\ q % PacketSize \in 0..PacketSize - 1
  <2> HIDE DEF q
  <2> QED
    BY <1>1, BankSize, SMTT(30)
<1>3. d \in Nat /\ e = d * PacketSize + (e % PacketSize)
  BY BankSize, SMTT(30)
<1> HIDE DEF m, d
<1>4. m * PacketSize \in Nat /\ d * PacketSize \in Nat
  BY <1>2, <1>3, TimesOrder
<1>5. e <= m * PacketSize /\ m * PacketSize < e + PacketSize
  BY <1>2, <1>4, BankSize
<1>6. m # 0
  <2>1. 0 * PacketSize = 0
    BY BankSize
  <2> QED
    BY <1>2, <1>5, <2>1
<1>7. ASSUME e % PacketSize = 0 PROVE e = m * PacketSize
  <2>1. e = d * PacketSize
    BY <1>3, <1>4, <1>7
  <2>2. ~(d < m)
    BY <1>2, <1>3, <1>4, <1>5, <2>1, TimesOrder
  <2>3. m * PacketSize <= d * PacketSize
    BY <1>2, <1>3, <2>2, TimesOrder
  <2> QED
    BY <1>4, <1>5, <2>1, <2>3
<1> QED
  BY <1>2, <1>5, <1>6, <1>7 DEF m

\* The number of packets.
LEMMA PacketsCount ==
  ASSUME NEW t, t.head.len \in Nat
  PROVE  /\ Elements(t) \in Nat /\ Elements(t) >= 1
         /\ PacketsOf(t) \in Nat \ {0}
         /\ ~Trailed(t) => /\ Elements(t) <= PacketsOf(t) * PacketSize
                           /\ PacketsOf(t) * PacketSize < Elements(t) + PacketSize
         /\ Trailed(t) => PacketsOf(t) * PacketSize = Elements(t) + PacketSize
<1> DEFINE e == Elements(t)
           m == (e + PacketSize - 1) \div PacketSize
<1>1. e \in Nat /\ e >= 1
  BY DEF Elements
<1>2. PacketsOf(t) = m + (IF Trailed(t) THEN 1 ELSE 0)
  BY DEF PacketsOf, Trailed
<1>3. Trailed(t) => e % PacketSize = 0
  BY DEF Trailed
<1> HIDE DEF e
<1>4. /\ m \in Nat \ {0} /\ e <= m * PacketSize /\ m * PacketSize < e + PacketSize
      /\ e % PacketSize = 0 => e = m * PacketSize
  BY <1>1, RoundUp
<1> HIDE DEF m
<1>5. (m + 1) * PacketSize = m * PacketSize + PacketSize
  BY <1>4, TimesOrder
<1>6. CASE Trailed(t)
  <2>1. PacketsOf(t) = m + 1 /\ e = m * PacketSize
    BY <1>2, <1>3, <1>4, <1>6
  <2>2. PacketsOf(t) \in Nat \ {0} /\ PacketsOf(t) * PacketSize = e + PacketSize
    BY <1>4, <1>5, <2>1
  <2> QED
    BY <1>1, <1>6, <2>2 DEF e
<1>7. CASE ~Trailed(t)
  <2>1. PacketsOf(t) = m
    BY <1>2, <1>4, <1>7
  <2> QED
    BY <1>1, <1>4, <1>7, <2>1 DEF e
<1> QED
  BY <1>6, <1>7

\* Where the next packet of a command begins and what follows it.
LEMMA NextPacket ==
  ASSUME NEW t, t.head.len \in Nat, NEW s \in Nat, s < PacketsOf(t)
  PROVE  /\ s * PacketSize \in Nat /\ s * PacketSize <= Elements(t)
         /\ (s + 1) * PacketSize = s * PacketSize + PacketSize
         /\ s + 1 < PacketsOf(t) => /\ (s + 1) * PacketSize <= Elements(t)
                                    /\ ~Trailed(t) => (s + 1) * PacketSize < Elements(t)
         /\ s + 1 = PacketsOf(t) => IF Trailed(t) THEN s * PacketSize = Elements(t)
                                    ELSE Elements(t) <= (s + 1) * PacketSize
         /\ ~Trailed(t) => s * PacketSize < Elements(t)
<1> DEFINE e == Elements(t)
           n == PacketsOf(t)
           d == s * PacketSize
           x == n * PacketSize
<1>1. /\ e \in Nat /\ e >= 1 /\ n \in Nat
      /\ ~Trailed(t) => e <= x /\ x < e + PacketSize
      /\ Trailed(t) => x = e + PacketSize
  BY PacketsCount
<1>2. d \in Nat /\ (s + 1) * PacketSize = d + PacketSize /\ d + PacketSize <= x /\ x \in Nat
  BY <1>1, TimesOrder
<1>3. s + 1 < n => d + PacketSize + PacketSize <= x
  <2>1. s + 1 \in Nat
    OBVIOUS
  <2> QED
    BY <1>1, <1>2, <2>1, TimesOrder
<1>4. s + 1 = n => x = d + PacketSize
  BY <1>2
<1> HIDE DEF e, n, d, x
<1>5. CASE Trailed(t)
  <2>1. d <= e /\ (s + 1 < n => d + PacketSize <= e) /\ (s + 1 = n => d = e)
    BY <1>1, <1>2, <1>3, <1>4, <1>5, BankSize
  <2> QED
    BY <1>2, <1>5, <2>1 DEF e, n, d, x
<1>6. CASE ~Trailed(t)
  <2>1. d < e /\ (s + 1 < n => d + PacketSize < e) /\ (s + 1 = n => e <= d + PacketSize)
    BY <1>1, <1>2, <1>3, <1>4, <1>6, BankSize
  <2> QED
    BY <1>1, <1>2, <1>6, <2>1, BankSize DEF e, n, d, x
<1> QED
  BY <1>5, <1>6

-----------------------------------------------------------------------------
(***************************************************************************)
(* The transfers of the calls.                                             *)
(***************************************************************************)
\* Transfers of a device that is configured.
Sound(t) == TransferOK(t) /\ t.ep # "config"
Moves(s) == Listed(s) /\ \A k \in 1..Len(s): Sound(s[k])

\* Short sequences of transfers.
LEMMA MovesShort ==
  /\ Moves(<<>>)
  /\ \A a: Sound(a) => Moves(<<a>>)
  /\ \A a, b: Sound(a) /\ Sound(b) => Moves(<<a, b>>)
<1>1. Moves(<<>>)
  BY ListedShort DEF Moves
<1>2. ASSUME NEW a, Sound(a) PROVE Moves(<<a>>)
  <2>1. Listed(<<a>>) /\ Len(<<a>>) = 1
    BY ListedShort
  <2> QED
    BY <1>2, <2>1 DEF Moves
<1>3. ASSUME NEW a, NEW b, Sound(a), Sound(b) PROVE Moves(<<a, b>>)
  <2>1. Listed(<<a, b>>) /\ Len(<<a, b>>) = 2
    BY ListedShort
  <2>2. \A k \in 1..2: Sound(<<a, b>>[k])
    BY <1>3
  <2> QED
    BY <2>1, <2>2 DEF Moves
<1> QED
  BY <1>1, <1>2, <1>3

\* Transfers and more transfers.
LEMMA MovesConcat ==
  ASSUME NEW s, NEW t, Moves(s), Moves(t)
  PROVE  Moves(s \o t)
<1>1. /\ Listed(s \o t) /\ Len(s \o t) = Len(s) + Len(t)
      /\ \A k \in 1..Len(s) + Len(t): (s \o t)[k] = IF k <= Len(s) THEN s[k] ELSE t[k - Len(s)]
  BY ListedConcat DEF Moves
<1>2. Len(s) \in Nat /\ Len(t) \in Nat
  BY ListedLen DEF Moves
<1>3. ASSUME NEW k \in 1..Len(s \o t) PROVE Sound((s \o t)[k])
  <2>1. CASE k <= Len(s)
    <3>1. k \in 1..Len(s) /\ (s \o t)[k] = s[k]
      BY <1>1, <1>2, <2>1
    <3> QED
      BY <3>1 DEF Moves
  <2>2. CASE ~(k <= Len(s))
    <3>1. k - Len(s) \in 1..Len(t) /\ (s \o t)[k] = t[k - Len(s)]
      BY <1>1, <1>2, <2>2
    <3> QED
      BY <3>1 DEF Moves
  <2> QED
    BY <2>1, <2>2
<1> QED
  BY <1>1, <1>3 DEF Moves

Programs == {"PROGRAM_FLASH", "PROGRAM_EEPROM"}

\* A command of avrisphw.pas, and a reply.
LEMMA OutSound ==
  /\ \A c: CommandOK(c) /\ c.cmd \notin Programs \cup {"none"} => Sound(Out(c))
  /\ \A n: Sound(In(n)) /\ Sound([In(n) EXCEPT !.must = TRUE]) /\ Sound([In(n) EXCEPT !.ver = TRUE])
           /\ Sound([In(n) EXCEPT !.short = TRUE, !.must = TRUE])
<1>1. ASSUME NEW c, CommandOK(c), c.cmd \notin Programs \cup {"none"} PROVE Sound(Out(c))
  <2>1. Out(c).ep = "out" /\ Out(c).head = c /\ Out(c).short = FALSE
    BY DEF Out
  <2>2. ~TooLong(c) /\ ~EndsWithEmpty(c)
    BY <1>1 DEF TooLong, EndsWithEmpty, Programs
  <2>3. ~Trailed(Out(c))
    BY <2>1 DEF Trailed
  <2> QED
    BY <1>1, <2>1, <2>2, <2>3, Zenon DEF Sound, TransferOK, OutOK
<1>2. ASSUME NEW n
      PROVE  Sound(In(n)) /\ Sound([In(n) EXCEPT !.must = TRUE]) /\ Sound([In(n) EXCEPT !.ver = TRUE])
             /\ Sound([In(n) EXCEPT !.short = TRUE, !.must = TRUE])
  BY DEF In, Sound, TransferOK
<1> QED
  BY <1>1, <1>2

\* A command of an AVR tool with its reply.
LEMMA ToolMoves ==
  ASSUME NEW c, CommandOK(c), c.cmd # "none",
         IF c.cmd \in Programs THEN c.len <= BlockMax ELSE c.len <= 1,
         NEW off, NEW n
  PROVE  /\ Moves(Tool(c, off, n)) /\ \A k \in {1, 2}: Sound(Tool(c, off, n)[k])
         /\ Tool(c, off, n) # <<>>
<1> DEFINE t == [Out(c) EXCEPT !.off = off, !.short = TRUE, !.must = TRUE]
           u == [In(n) EXCEPT !.short = TRUE, !.must = TRUE]
<1>1. t.ep = "out" /\ t.head = c /\ t.short = TRUE
  BY DEF Out
<1>2. c.len \in Nat /\ (c.cmd \in Counted => c.n \in Nat)
  BY DEF CommandOK
<1>3. ~TooLong(c)
  BY <1>2, AvrIspAssumption DEF TooLong, Programs
<1>4. Trailed(t) <=> (1 + c.len) % PacketSize = 0
  <2> HIDE DEF t
  <2> QED
    BY <1>1 DEF Trailed, Elements
<1>5. c.cmd \notin Programs => (1 + c.len) % PacketSize # 0
  <2>1. 1 % PacketSize = 1 /\ 2 % PacketSize = 2
    BY BankSize
  <2>2. c.cmd \notin Programs => c.len \in {0, 1}
    BY <1>2
  <2> QED
    BY <2>1, <2>2
<1>6. Trailed(t) <=> EndsWithEmpty(c)
  BY <1>4, <1>5 DEF EndsWithEmpty, Programs
<1> HIDE DEF t
<1>7. Sound(t)
  BY <1>1, <1>3, <1>6, Zenon DEF Sound, TransferOK, OutOK
<1>8. Sound(u)
  BY OutSound
<1>9. Tool(c, off, n) = <<t, u>>
  BY DEF Tool, t
<1> HIDE DEF u
<1> QED
  BY <1>7, <1>8, <1>9, MovesShort

\* A command without data is well formed.
LEMMA PlainOK ==
  /\ \A name: name \notin Counted => CommandOK(Bare(name)) /\ Bare(name).cmd = name /\ Bare(name).len = 0
  /\ \A p, v: /\ CommandOK(SetParameter(p, v)) /\ SetParameter(p, v).cmd = "SET_PARAMETER"
              /\ SetParameter(p, v).len = 0
  /\ \A p: CommandOK(GetParameter(p)) /\ GetParameter(p).cmd = "GET_PARAMETER" /\ GetParameter(p).len = 0
BY DEF CommandOK, Bare, SetParameter, GetParameter, Counted

\* Opening configures the device first.
Opening(s) == Listed(s) /\ Len(s) >= 1 /\ s[1] = Config /\ \A k \in 2..Len(s): Sound(s[k])

\* An opening and more transfers.
LEMMA OpeningConcat ==
  ASSUME NEW s, NEW t, Opening(s), Moves(t)
  PROVE  Opening(s \o t)
<1>1. /\ Listed(s \o t) /\ Len(s \o t) = Len(s) + Len(t)
      /\ \A k \in 1..Len(s) + Len(t): (s \o t)[k] = IF k <= Len(s) THEN s[k] ELSE t[k - Len(s)]
  BY ListedConcat DEF Moves, Opening
<1>2. Len(s) \in Nat /\ Len(t) \in Nat /\ Len(s) >= 1 /\ s[1] = Config
  BY ListedLen DEF Moves, Opening
<1>3. ASSUME NEW k \in 2..Len(s \o t) PROVE Sound((s \o t)[k])
  <2>1. CASE k <= Len(s)
    <3>1. k \in 2..Len(s) /\ (s \o t)[k] = s[k]
      BY <1>1, <1>2, <2>1
    <3> QED
      BY <3>1 DEF Opening
  <2>2. CASE ~(k <= Len(s))
    <3>1. k - Len(s) \in 1..Len(t) /\ (s \o t)[k] = t[k - Len(s)]
      BY <1>1, <1>2, <2>2
    <3> QED
      BY <3>1 DEF Moves
  <2> QED
    BY <2>1, <2>2
<1>4. Len(s \o t) >= 1 /\ (s \o t)[1] = Config
  BY <1>1, <1>2
<1> QED
  BY <1>1, <1>3, <1>4 DEF Opening

\* The transfers of an opening.
LEMMA SetUpOpening ==
  ASSUME NEW m \in Modes
  PROVE  Opening(SetUp(m))
<1>1. m.bus \in {"spi", "i2c", "mw", "isp"}
  BY AvrIspAssumption
<1>2. Opening(DevOpen)
  <2>1. Sound(Out(Bare("FIRMWARE_VER"))) /\ Sound([In(1) EXCEPT !.ver = TRUE])
    BY OutSound, PlainOK DEF Counted, Programs
  <2> DEFINE a == Out(Bare("FIRMWARE_VER"))
             b == [In(1) EXCEPT !.ver = TRUE]
             s == <<Config, a, b>>
  <2>2. DevOpen = s
    BY DEF DevOpen
  <2>3. Sound(a) /\ Sound(b)
    BY <2>1
  <2> HIDE DEF a, b
  <2>4. s = [k \in 1..3 |-> s[k]] /\ s[1] = Config /\ s[2] = a /\ s[3] = b
    OBVIOUS
  <2> HIDE DEF s
  <2>5. Listed(s) /\ Len(s) = 3
    BY <2>4, ListedTable
  <2>6. \A k \in 2..3: Sound(s[k])
    BY <2>3, <2>4
  <2> QED
    BY <2>2, <2>4, <2>5, <2>6 DEF Opening
<1>3. Moves(SetSpeed(m))
  <2>1. Sound(Out(SetParameter("SCK_DURATION", m.sck))) /\ Sound([In(1) EXCEPT !.must = TRUE])
    BY OutSound, PlainOK DEF Counted, Programs
  <2> QED
    BY <2>1, MovesShort DEF SetSpeed
<1>4. Opening(DevOpen \o SetSpeed(m))
  BY <1>2, <1>3, OpeningConcat
<1>5. CASE m.bus = "spi"
  <2>1. Moves(<<Out(Bare("ENTER_SPI25")), In(1)>>)
    <3>1. Sound(Out(Bare("ENTER_SPI25"))) /\ Sound(In(1))
      BY OutSound, PlainOK DEF Counted, Programs
    <3> QED
      BY <3>1, MovesShort
  <2>2. SetUp(m) = DevOpen \o SetSpeed(m) \o <<Out(Bare("ENTER_SPI25")), In(1)>>
    BY <1>5 DEF SetUp
  <2> QED
    BY <1>4, <2>1, <2>2, OpeningConcat
<1>6. CASE m.bus = "i2c"
  <2>1. Moves(<<Out(Bare("I2C_INIT"))>>)
    BY OutSound, PlainOK, MovesShort DEF Counted, Programs
  <2>2. SetUp(m) = DevOpen \o <<Out(Bare("I2C_INIT"))>>
    BY <1>6 DEF SetUp
  <2> QED
    BY <1>2, <2>1, <2>2, OpeningConcat
<1>7. CASE m.bus = "mw"
  <2>1. Moves(<<Out(Bare("MW_INIT"))>>)
    BY OutSound, PlainOK, MovesShort DEF Counted, Programs
  <2>2. SetUp(m) = DevOpen \o SetSpeed(m) \o <<Out(Bare("MW_INIT"))>>
    BY <1>7 DEF SetUp
  <2> QED
    BY <1>4, <2>1, <2>2, OpeningConcat
<1>8. CASE m.bus = "isp"
  <2> DEFINE a == Tool(Bare("SIGN_ON"), 0, 1)
             b == Tool(GetParameter("VTARGET"), 0, 2)
             c == Tool(SetParameter("SCK_DURATION", m.sck), 0, 1)
             d == Tool(SetParameter("RESET_POLARITY", 1), 0, 1)
             e == Tool(Bare("ENTER_ISP"), 0, 1)
  <2>1. Moves(a) /\ Moves(b) /\ Moves(c) /\ Moves(d) /\ Moves(e)
    BY ToolMoves, PlainOK DEF Counted, Programs
  <2>2. SetUp(m) = <<Config>> \o a \o b \o c \o d \o e
    BY <1>8 DEF SetUp, ToolOpen
  <2> HIDE DEF a, b, c, d, e
  <2>3. Opening(<<Config>>)
    BY ListedShort DEF Opening
  <2>4. Opening(<<Config>> \o a)
    BY <2>1, <2>3, OpeningConcat
  <2>5. Opening(<<Config>> \o a \o b)
    BY <2>1, <2>4, OpeningConcat
  <2>6. Opening(<<Config>> \o a \o b \o c)
    BY <2>1, <2>5, OpeningConcat
  <2>7. Opening(<<Config>> \o a \o b \o c \o d)
    BY <2>1, <2>6, OpeningConcat
  <2> QED
    BY <2>1, <2>2, <2>7, OpeningConcat
<1> QED
  BY <1>1, <1>5, <1>6, <1>7, <1>8

\* The transfers of a closing.
LEMMA TearDownMoves ==
  ASSUME NEW m
  PROVE  Moves(TearDown(m)) /\ TearDown(m) # <<>>
<1>1. Moves(Tool(Bare("LEAVE_ISP"), 0, 1)) /\ Tool(Bare("LEAVE_ISP"), 0, 1) # <<>>
  BY ToolMoves, PlainOK DEF Counted, Programs
<1>2. Moves(<<Out(Bare("LEAVE_SPI25"))>>) /\ <<Out(Bare("LEAVE_SPI25"))>> # <<>>
  BY OutSound, PlainOK, MovesShort DEF Counted, Programs
<1> QED
  BY <1>1, <1>2 DEF TearDown

\* Lengths are numbers.
LEMMA WordNat == \A n \in Word: n \in Nat
BY DEF Word

SpiJobs == [op: {"SPIWrite", "SPIRead"}, cs: {0, 1}, n: Word, id: Nat]
I2CJobs ==
  {j \in [op: {"I2CReadWrite"}, w: Word, r: Word, id: Nat]: j.w + j.r > 0}
  \cup [op: {"I2CStart", "I2CStop", "I2CWriteByte"}, id: Nat]
  \cup [op: {"I2CReadByte"}, ack: {"ack", "nack"}, id: Nat]
MWJobs ==
  [op: {"MWWrite"}, cs: {0, 1}, bits: Word, id: Nat]
  \cup [op: {"MWRead"}, cs: {0, 1}, n: Word, id: Nat]
  \cup [op: {"MWIsBusy"}, id: Nat]
MemoryOps == {"READ_FLASH", "READ_EEPROM", "PROGRAM_FLASH", "PROGRAM_EEPROM"}
AvrJobs ==
  [op: MemoryOps, addr: Nat, extended: BOOLEAN, paged: BOOLEAN, blocks: Seq(1..BlockMax), id: Nat]
  \cup [op: {"CHIP_ERASE", "READ_FUSE", "PROGRAM_FUSE"}, id: Nat]
  \cup [op: {"SPI_MULTI"}, n: Nat, id: Nat]

\* The calls of each bus.
LEMMA JobsByBus ==
  /\ JobType("spi") = SpiJobs /\ JobType("i2c") = I2CJobs
  /\ JobType("mw") = MWJobs /\ JobType("isp") = AvrJobs
<1>1. JobType("spi") = SpiJobs
  BY Zenon DEF JobType, SpiJobs
<1>2. JobType("i2c") = I2CJobs
  BY Zenon DEF JobType, I2CJobs
<1>3. JobType("mw") = MWJobs
  BY Zenon DEF JobType, MWJobs
<1>4. JobType("isp") = AvrJobs
  BY Zenon DEF JobType, AvrJobs, MemoryOps
<1> QED
  BY <1>1, <1>2, <1>3, <1>4

\* What a call on a 25-series part sends.
LEMMA SpiMoves ==
  ASSUME NEW c \in SpiJobs
  PROVE  Moves(Transfers(c)) /\ Transfers(c) # <<>>
<1>1. c.op \in {"SPIWrite", "SPIRead"} /\ c.n \in Nat
  BY WordNat DEF SpiJobs
<1>2. CASE c.op = "SPIWrite"
  <2> DEFINE d == [cmd |-> "SPI25_WRITE", len |-> c.n, cs |-> c.cs]
  <2>1. Transfers(c) = <<Out(d)>>
    BY <1>2 DEF Transfers
  <2>2. CommandOK(d) /\ d.cmd \notin Programs \cup {"none"}
    BY <1>1 DEF CommandOK, Counted, Programs
  <2> HIDE DEF d
  <2>3. Sound(Out(d))
    BY <2>2, OutSound
  <2> QED
    BY <2>1, <2>3, MovesShort
<1>3. CASE c.op = "SPIRead"
  <2> DEFINE d == [cmd |-> "SPI25_READ", len |-> 0, n |-> c.n, cs |-> c.cs]
  <2>1. Transfers(c) = <<Out(d), In(c.n)>>
    BY <1>3 DEF Transfers
  <2>2. CommandOK(d) /\ d.cmd \notin Programs \cup {"none"}
    BY <1>1 DEF CommandOK, Counted, Programs
  <2> HIDE DEF d
  <2>3. Sound(Out(d)) /\ Sound(In(c.n))
    BY <2>2, OutSound
  <2> QED
    BY <2>1, <2>3, MovesShort
<1> QED
  BY <1>1, <1>2, <1>3

\* What a call on an I2C part carries.
LEMMA I2CJob ==
  ASSUME NEW c \in I2CJobs
  PROVE  /\ c.op \in {"I2CReadWrite", "I2CStart", "I2CStop", "I2CWriteByte", "I2CReadByte"}
         /\ c.op = "I2CReadWrite" => c.w \in Nat /\ c.r \in Nat /\ c.w + c.r > 0
<1> DEFINE S == {j \in [op: {"I2CReadWrite"}, w: Word, r: Word, id: Nat]: j.w + j.r > 0}
           T == [op: {"I2CStart", "I2CStop", "I2CWriteByte"}, id: Nat]
           U == [op: {"I2CReadByte"}, ack: {"ack", "nack"}, id: Nat]
<1>1. c \in S \/ c \in T \/ c \in U
  BY Zenon DEF I2CJobs
<1>2. CASE c \in S
  BY <1>2, WordNat
<1>3. CASE c \in T
  BY <1>3
<1>4. CASE c \in U
  BY <1>4
<1> QED
  BY <1>1, <1>2, <1>3, <1>4

\* What a call on an I2C part sends.
LEMMA I2CMoves ==
  ASSUME NEW c \in I2CJobs
  PROVE  Moves(Transfers(c)) /\ Transfers(c) # <<>>
<1>1. /\ c.op \in {"I2CReadWrite", "I2CStart", "I2CStop", "I2CWriteByte", "I2CReadByte"}
      /\ c.op = "I2CReadWrite" => c.w \in Nat /\ c.r \in Nat /\ c.w + c.r > 0
  BY I2CJob
<1>2. CASE c.op = "I2CReadWrite"
  <2> DEFINE d == [cmd |-> "I2C_WRITE", len |-> c.w, stop |-> IF c.r > 0 THEN 0 ELSE 1]
             e == [cmd |-> "I2C_READ", len |-> 0, n |-> c.r]
             s == IF c.w > 0 THEN <<Out(d)>> ELSE <<>>
             t == IF c.r > 0 THEN <<Out(e), In(c.r)>> ELSE <<>>
  <2>1. Transfers(c) = s \o t
    BY <1>2 DEF Transfers
  <2>2. /\ CommandOK(d) /\ d.cmd \notin Programs \cup {"none"}
        /\ CommandOK(e) /\ e.cmd \notin Programs \cup {"none"}
    BY <1>1, <1>2 DEF CommandOK, Counted, Programs
  <2> HIDE DEF d, e
  <2>3. Sound(Out(d)) /\ Sound(Out(e)) /\ Sound(In(c.r))
    BY <2>2, OutSound
  <2>4. Moves(<<Out(d)>>) /\ Moves(<<Out(e), In(c.r)>>) /\ Moves(<<>>)
    BY <2>3, MovesShort
  <2>5. Moves(s) /\ Moves(t)
    BY <2>4
  <2>6. Len(s) + Len(t) > 0
    <3>1. Len(<<>>) = 0 /\ Len(<<Out(d)>>) = 1 /\ Len(<<Out(e), In(c.r)>>) = 2
      BY ListedShort
    <3>2. c.w > 0 \/ c.r > 0
      BY <1>1, <1>2
    <3> QED
      BY <3>1, <3>2
  <2> HIDE DEF s, t
  <2>7. Moves(s \o t)
    BY <2>5, MovesConcat
  <2>8. Len(s \o t) = Len(s) + Len(t) /\ Len(<<>>) = 0
    BY <2>5, ListedConcat, ListedShort DEF Moves
  <2> QED
    BY <2>1, <2>6, <2>7, <2>8
<1>3. CASE c.op \in {"I2CStart", "I2CStop"}
  <2>1. PICK name \in {"I2C_START", "I2C_STOP"}: Transfers(c) = <<Out(Bare(name))>>
    BY <1>3 DEF Transfers
  <2>2. Sound(Out(Bare(name)))
    BY OutSound, PlainOK DEF Counted, Programs
  <2> QED
    BY <2>1, <2>2, MovesShort
<1>4. CASE c.op \in {"I2CWriteByte", "I2CReadByte"}
  <2> DEFINE d == [cmd |-> "I2C_WRITEBYTE", len |-> 0, byte |-> Byte(c.id, 1)]
             e == [cmd |-> "I2C_READBYTE", len |-> 0, ack |-> c.ack]
  <2>1. Transfers(c) \in {<<Out(d), In(1)>>, <<Out(e), In(1)>>}
    BY <1>4 DEF Transfers
  <2>2. /\ CommandOK(d) /\ d.cmd \notin Programs \cup {"none"}
        /\ CommandOK(e) /\ e.cmd \notin Programs \cup {"none"}
    BY DEF CommandOK, Counted, Programs
  <2> HIDE DEF d, e
  <2>3. Sound(Out(d)) /\ Sound(Out(e)) /\ Sound(In(1))
    BY <2>2, OutSound
  <2> QED
    BY <2>1, <2>3, MovesShort
<1> QED
  BY <1>1, <1>2, <1>3, <1>4

\* What a call on a Microwire part sends.
LEMMA MWMoves ==
  ASSUME NEW c \in MWJobs
  PROVE  Moves(Transfers(c)) /\ Transfers(c) # <<>>
<1> DEFINE S == [op: {"MWWrite"}, cs: {0, 1}, bits: Word, id: Nat]
           T == [op: {"MWRead"}, cs: {0, 1}, n: Word, id: Nat]
           U == [op: {"MWIsBusy"}, id: Nat]
<1>1. c \in S \/ c \in T \/ c \in U
  BY Zenon DEF MWJobs
<1>2. CASE c \in S
  <2> DEFINE d == [cmd |-> "MW_WRITE", len |-> ByteNum(c.bits), cs |-> c.cs, bits |-> c.bits]
  <2>1. c.op = "MWWrite" /\ c.bits \in Nat
    BY <1>2, WordNat
  <2>2. Transfers(c) = <<Out(d)>>
    BY <2>1 DEF Transfers
  <2>3. ByteNum(c.bits) \in Nat
    BY <2>1 DEF ByteNum
  <2>4. CommandOK(d) /\ d.cmd \notin Programs \cup {"none"}
    BY <2>3 DEF CommandOK, Counted, Programs
  <2> HIDE DEF d
  <2>5. Sound(Out(d))
    BY <2>4, OutSound
  <2> QED
    BY <2>2, <2>5, MovesShort
<1>3. CASE c \in T
  <2> DEFINE d == [cmd |-> "MW_READ", len |-> 0, n |-> c.n, cs |-> c.cs]
             n == IF c.n = 0 THEN 1 ELSE c.n
  <2>1. c.op = "MWRead" /\ c.n \in Nat
    BY <1>3, WordNat
  <2>2. Transfers(c) = <<Out(d), In(n)>>
    BY <2>1 DEF Transfers
  <2>3. CommandOK(d) /\ d.cmd \notin Programs \cup {"none"}
    BY <2>1 DEF CommandOK, Counted, Programs
  <2> HIDE DEF d, n
  <2>4. Sound(Out(d)) /\ Sound(In(n))
    BY <2>3, OutSound
  <2> QED
    BY <2>2, <2>4, MovesShort
<1>4. CASE c \in U
  <2>1. Transfers(c) = <<Out(Bare("MW_BUSY")), In(1)>>
    BY <1>4 DEF Transfers
  <2>2. Sound(Out(Bare("MW_BUSY"))) /\ Sound(In(1))
    BY OutSound, PlainOK DEF Counted, Programs
  <2> QED
    BY <2>1, <2>2, MovesShort
<1> QED
  BY <1>1, <1>2, <1>3, <1>4

\* Halves of what is counted in pairs.
LEMMA HalfOK ==
  ASSUME NEW m \in Nat, NEW k \in 1..2 * m
  PROVE  (k + 1) \div 2 \in 1..m
OBVIOUS

\* What a call on the memory of an AVR sends: the address, then each block.
LEMMA MemoryMoves ==
  ASSUME NEW c, c.op \in MemoryOps, c.blocks \in Seq(1..BlockMax)
  PROVE  Moves(Transfers(c)) /\ Transfers(c) # <<>>
<1> DEFINE a == [cmd |-> "LOAD_ADDRESS", len |-> 0, addr |-> c.addr, extended |-> c.extended]
           R(b) == Tool([cmd |-> c.op, len |-> 0, n |-> c.blocks[b]], 0, c.blocks[b] + 2)
           W(b) == Tool([cmd |-> c.op, len |-> c.blocks[b], paged |-> c.paged,
                         commit |-> c.paged, polled |-> TRUE], Offset(c, b), 1)
           Part(k) == (k + 1) \div 2
           Half(k) == IF k % 2 = 1 THEN 1 ELSE 2
           m == Len(c.blocks)
           r == [k \in 1..2 * m |-> R(Part(k))[Half(k)]]
           w == [k \in 1..2 * m |-> W(Part(k))[Half(k)]]
<1>1. m \in Nat /\ \A b \in 1..m: c.blocks[b] \in Nat /\ c.blocks[b] <= BlockMax
  <2>1. m \in Nat /\ \A b \in 1..m: c.blocks[b] \in 1..BlockMax
    BY LenProperties, ElementOfSeq
  <2> QED
    BY <2>1, AvrIspAssumption
<1>2. Moves(Tool(a, 0, 1)) /\ Tool(a, 0, 1) # <<>>
  <2>1. CommandOK(a) /\ a.cmd = "LOAD_ADDRESS" /\ a.len = 0
    BY DEF CommandOK, Counted
  <2> HIDE DEF a
  <2> QED
    BY <2>1, ToolMoves DEF Programs
<1>3. \A k: Half(k) \in {1, 2}
  OBVIOUS
<1>4. \A k \in 1..2 * m: Part(k) \in 1..m
  <2> HIDE DEF m
  <2> QED
    BY <1>1, HalfOK
<1>5. CASE c.op \in {"READ_FLASH", "READ_EEPROM"}
  <2>1. ASSUME NEW b \in 1..m, NEW h \in {1, 2} PROVE Sound(R(b)[h])
    <3> DEFINE d == [cmd |-> c.op, len |-> 0, n |-> c.blocks[b]]
    <3>1. CommandOK(d) /\ d.cmd \notin Programs /\ d.cmd # "none" /\ d.len = 0
      BY <1>1, <1>5 DEF CommandOK, Counted, Programs
    <3> HIDE DEF d
    <3>2. Sound(Tool(d, 0, c.blocks[b] + 2)[h])
      BY <3>1, ToolMoves
    <3> QED
      BY <3>2 DEF d
  <2>2. Transfers(c) = Tool(a, 0, 1) \o r
    BY <1>5 DEF Transfers, Blocks
  <2> HIDE DEF R, m, Half, Part
  <2>3. \A k \in 1..2 * m: Sound(r[k])
    BY <1>3, <1>4, <2>1
  <2>4. r = [k \in 1..2 * m |-> r[k]] /\ 2 * m \in Nat
    BY <1>1
  <2> HIDE DEF r
  <2>5. Listed(r) /\ Len(r) = 2 * m
    BY <2>4, ListedTable
  <2>6. Moves(r)
    BY <2>3, <2>5 DEF Moves
  <2> HIDE DEF a
  <2>7. Moves(Tool(a, 0, 1) \o r)
    BY <1>2, <2>6, MovesConcat
  <2>8. Tool(a, 0, 1) \o r # <<>>
    <3>1. Len(Tool(a, 0, 1) \o r) = Len(Tool(a, 0, 1)) + Len(r)
      BY <1>2, <2>6, ListedConcat DEF Moves
    <3>2. Len(Tool(a, 0, 1)) \in Nat \ {0} /\ Len(r) \in Nat /\ Len(<<>>) = 0
      BY <1>2, <2>6, ListedLen, ListedShort DEF Moves
    <3> QED
      BY <3>1, <3>2
  <2> QED
    BY <2>2, <2>7, <2>8
<1>6. CASE c.op \in {"PROGRAM_FLASH", "PROGRAM_EEPROM"}
  <2>1. ASSUME NEW b \in 1..m, NEW h \in {1, 2} PROVE Sound(W(b)[h])
    <3> DEFINE d == [cmd |-> c.op, len |-> c.blocks[b], paged |-> c.paged, commit |-> c.paged, polled |-> TRUE]
               off == Offset(c, b)
    <3>1. CommandOK(d) /\ d.cmd \in Programs /\ d.cmd # "none" /\ d.len <= BlockMax
      BY <1>1, <1>6 DEF CommandOK, Counted, Programs
    <3> HIDE DEF d, off
    <3>2. Sound(Tool(d, off, 1)[h])
      BY <3>1, ToolMoves
    <3> QED
      BY <3>2 DEF d, off
  <2>2. Transfers(c) = Tool(a, 0, 1) \o w
    BY <1>6 DEF Transfers, Blocks
  <2> HIDE DEF W, m, Half, Part
  <2>3. \A k \in 1..2 * m: Sound(w[k])
    BY <1>3, <1>4, <2>1
  <2>4. w = [k \in 1..2 * m |-> w[k]] /\ 2 * m \in Nat
    BY <1>1
  <2> HIDE DEF w
  <2>5. Listed(w) /\ Len(w) = 2 * m
    BY <2>4, ListedTable
  <2>6. Moves(w)
    BY <2>3, <2>5 DEF Moves
  <2> HIDE DEF a
  <2>7. Moves(Tool(a, 0, 1) \o w)
    BY <1>2, <2>6, MovesConcat
  <2>8. Tool(a, 0, 1) \o w # <<>>
    <3>1. Len(Tool(a, 0, 1) \o w) = Len(Tool(a, 0, 1)) + Len(w)
      BY <1>2, <2>6, ListedConcat DEF Moves
    <3>2. Len(Tool(a, 0, 1)) \in Nat \ {0} /\ Len(w) \in Nat /\ Len(<<>>) = 0
      BY <1>2, <2>6, ListedLen, ListedShort DEF Moves
    <3> QED
      BY <3>1, <3>2
  <2> QED
    BY <2>2, <2>7, <2>8
<1> QED
  BY <1>5, <1>6 DEF MemoryOps

\* What a call on an AVR sends.
LEMMA AvrMoves ==
  ASSUME NEW c \in AvrJobs
  PROVE  Moves(Transfers(c)) /\ Transfers(c) # <<>>
<1> DEFINE S == [op: MemoryOps, addr: Nat, extended: BOOLEAN, paged: BOOLEAN, blocks: Seq(1..BlockMax), id: Nat]
           T == [op: {"CHIP_ERASE", "READ_FUSE", "PROGRAM_FUSE"}, id: Nat]
           U == [op: {"SPI_MULTI"}, n: Nat, id: Nat]
<1>1. c \in S \/ c \in T \/ c \in U
  BY Zenon DEF AvrJobs
<1>2. CASE c \in S
  <2>1. c.op \in MemoryOps /\ c.blocks \in Seq(1..BlockMax)
    BY <1>2
  <2> QED
    BY <2>1, MemoryMoves
<1>3. CASE c \in T
  <2> DEFINE d == [cmd |-> c.op, len |-> 0, polled |-> TRUE]
             e == [cmd |-> c.op, len |-> 0, id |-> c.id]
  <2>1. c.op \in {"CHIP_ERASE", "READ_FUSE", "PROGRAM_FUSE"}
    BY <1>3
  <2>2. Transfers(c) \in {Tool(d, 0, 1), Tool(Bare(c.op), 0, 2), Tool(e, 0, 1)}
    <3>1. CASE c.op = "CHIP_ERASE"
      BY <3>1 DEF Transfers
    <3>2. CASE c.op = "READ_FUSE"
      BY <3>2 DEF Transfers
    <3>3. CASE c.op = "PROGRAM_FUSE"
      BY <3>3 DEF Transfers
    <3> QED
      BY <2>1, <3>1, <3>2, <3>3
  <2>3. /\ CommandOK(d) /\ d.cmd \notin Programs /\ d.cmd # "none" /\ d.len = 0
        /\ CommandOK(e) /\ e.cmd \notin Programs /\ e.cmd # "none" /\ e.len = 0
        /\ CommandOK(Bare(c.op)) /\ Bare(c.op).cmd \notin Programs /\ Bare(c.op).cmd # "none" /\ Bare(c.op).len = 0
    BY <2>1 DEF CommandOK, Counted, Programs, Bare
  <2> HIDE DEF d, e
  <2>4. /\ Moves(Tool(d, 0, 1)) /\ Tool(d, 0, 1) # <<>>
        /\ Moves(Tool(e, 0, 1)) /\ Tool(e, 0, 1) # <<>>
        /\ Moves(Tool(Bare(c.op), 0, 2)) /\ Tool(Bare(c.op), 0, 2) # <<>>
    BY <2>3, ToolMoves
  <2> QED
    BY <2>2, <2>4
<1>4. CASE c \in U
  <2> DEFINE d == [cmd |-> c.op, len |-> 1, n |-> c.n]
  <2>1. c.op = "SPI_MULTI" /\ c.n \in Nat
    BY <1>4
  <2>2. Transfers(c) = Tool(d, 0, c.n + 2)
    BY <2>1 DEF Transfers
  <2>3. CommandOK(d) /\ d.cmd \notin Programs /\ d.cmd # "none" /\ d.len = 1
    BY <2>1 DEF CommandOK, Counted, Programs
  <2> HIDE DEF d
  <2> QED
    BY <2>2, <2>3, ToolMoves
<1> QED
  BY <1>1, <1>2, <1>3, <1>4

\* A call with its number is one that can be made.
LEMMA CallMoves ==
  ASSUME NEW b \in {"spi", "i2c", "mw", "isp"}, NEW j \in JobsOf(b), NEW k \in Nat
  PROVE  LET c == [j EXCEPT !.id = k]
         IN  Moves(Transfers(c)) /\ Transfers(c) # <<>> /\ c.op \notin {"none", "Open", "Close"}
<1> DEFINE c == [j EXCEPT !.id = k]
<1>1. j \in JobType(b)
  BY AvrIspAssumption
<1>2. CASE b = "spi"
  <2>1. j \in SpiJobs
    BY <1>1, <1>2, JobsByBus
  <2>2. c \in SpiJobs /\ c.op \in {"SPIWrite", "SPIRead"}
    BY <2>1 DEF SpiJobs
  <2> QED
    BY <2>2, SpiMoves
<1>3. CASE b = "i2c"
  <2> DEFINE S == {i \in [op: {"I2CReadWrite"}, w: Word, r: Word, id: Nat]: i.w + i.r > 0}
             T == [op: {"I2CStart", "I2CStop", "I2CWriteByte"}, id: Nat]
             U == [op: {"I2CReadByte"}, ack: {"ack", "nack"}, id: Nat]
  <2>1. I2CJobs = S \cup T \cup U
    BY DEF I2CJobs
  <2>2. j \in I2CJobs
    BY <1>1, <1>3, JobsByBus
  <2>3. /\ j \in S => c \in S
        /\ j \in T => c \in T
        /\ j \in U => c \in U
    OBVIOUS
  <2> HIDE DEF S, T, U, c
  <2>4. c \in I2CJobs
    BY <2>1, <2>2, <2>3, Zenon
  <2>5. c.op \in {"I2CReadWrite", "I2CStart", "I2CStop", "I2CWriteByte", "I2CReadByte"}
    BY <2>4, I2CJob
  <2> QED
    BY <2>4, <2>5, I2CMoves DEF c
<1>4. CASE b = "mw"
  <2> DEFINE S == [op: {"MWWrite"}, cs: {0, 1}, bits: Word, id: Nat]
             T == [op: {"MWRead"}, cs: {0, 1}, n: Word, id: Nat]
             U == [op: {"MWIsBusy"}, id: Nat]
  <2>1. MWJobs = S \cup T \cup U
    BY DEF MWJobs
  <2>2. j \in MWJobs
    BY <1>1, <1>4, JobsByBus
  <2>3. /\ j \in S => c \in S /\ c.op = "MWWrite"
        /\ j \in T => c \in T /\ c.op = "MWRead"
        /\ j \in U => c \in U /\ c.op = "MWIsBusy"
    OBVIOUS
  <2> HIDE DEF S, T, U, c
  <2>4. c \in MWJobs /\ c.op \in {"MWWrite", "MWRead", "MWIsBusy"}
    BY <2>1, <2>2, <2>3, Zenon
  <2> QED
    BY <2>4, MWMoves DEF c
<1>5. CASE b = "isp"
  <2> DEFINE S == [op: MemoryOps, addr: Nat, extended: BOOLEAN, paged: BOOLEAN, blocks: Seq(1..BlockMax), id: Nat]
             T == [op: {"CHIP_ERASE", "READ_FUSE", "PROGRAM_FUSE"}, id: Nat]
             U == [op: {"SPI_MULTI"}, n: Nat, id: Nat]
  <2>1. AvrJobs = S \cup T \cup U
    BY DEF AvrJobs
  <2>2. j \in AvrJobs
    BY <1>1, <1>5, JobsByBus
  <2>3. /\ j \in S => c \in S /\ c.op \in MemoryOps
        /\ j \in T => c \in T /\ c.op \in {"CHIP_ERASE", "READ_FUSE", "PROGRAM_FUSE"}
        /\ j \in U => c \in U /\ c.op = "SPI_MULTI"
    OBVIOUS
  <2> HIDE DEF S, T, U, c
  <2>4. c \in AvrJobs
    BY <2>1, <2>2, <2>3, Zenon
  <2>5. c.op \in MemoryOps \cup {"CHIP_ERASE", "READ_FUSE", "PROGRAM_FUSE", "SPI_MULTI"}
    BY <2>1, <2>2, <2>3, Zenon
  <2>6. c.op \notin {"none", "Open", "Close"}
    BY <2>5 DEF MemoryOps
  <2> QED
    BY <2>4, <2>6, AvrMoves DEF c
<1> QED
  BY <1>2, <1>3, <1>4, <1>5

\* What there is to do begins with the configuration, or does not have it.
LEMMA TodoStarts ==
  /\ \A s: Opening(s) => TodoOK(s) /\ s # <<>> /\ Head(s).ep = "config"
  /\ \A s: Moves(s) => TodoOK(s) /\ (s # <<>> => Head(s).ep # "config")
<1>1. ASSUME NEW s, Opening(s) PROVE TodoOK(s) /\ s # <<>> /\ Head(s).ep = "config"
  <2>1. Listed(s) /\ Len(s) >= 1 /\ s[1] = Config /\ \A k \in 2..Len(s): Sound(s[k])
    BY <1>1 DEF Opening
  <2>2. Len(s) \in Nat /\ s # <<>>
    BY <2>1, ListedLen
  <2>3. Head(s) = s[1]
    BY <2>1, <2>2, ListedTail
  <2>4. Config.ep = "config" /\ TransferOK(Config)
    BY DEF Config, TransferOK
  <2>5. \A k \in 1..Len(s): k = 1 \/ k \in 2..Len(s)
    BY <2>2
  <2> QED
    BY <2>1, <2>2, <2>3, <2>4, <2>5 DEF TodoOK, Sound
<1>2. ASSUME NEW s, Moves(s) PROVE TodoOK(s) /\ (s # <<>> => Head(s).ep # "config")
  <2>1. Listed(s) /\ \A k \in 1..Len(s): Sound(s[k])
    BY <1>2 DEF Moves
  <2>2. \A k \in 2..Len(s): k \in 1..Len(s)
    OBVIOUS
  <2>3. TodoOK(s)
    BY <2>1, <2>2 DEF TodoOK, Sound
  <2>4. ASSUME s # <<>> PROVE Head(s).ep # "config"
    <3>1. Head(s) = s[1] /\ Len(s) >= 1 /\ Len(s) \in Nat
      BY <2>1, <2>4, ListedTail, ListedLen
    <3>2. 1 \in 1..Len(s)
      BY <3>1
    <3> QED
      BY <2>1, <3>1, <3>2 DEF Sound
  <2> QED
    BY <2>3, <2>4
<1> QED
  BY <1>1, <1>2

\* What is left to do never has it.
LEMMA TodoGoesOn ==
  ASSUME NEW s, TodoOK(s), s # <<>>
  PROVE  TransferOK(Head(s)) /\ Moves(Tail(s))
<1>1. /\ Listed(Tail(s)) /\ Len(Tail(s)) = Len(s) - 1 /\ Len(s) >= 1 /\ Len(s) \in Nat
      /\ Head(s) = s[1]
      /\ \A k \in 1..Len(s) - 1: Tail(s)[k] = s[k + 1]
  BY ListedTail, ListedLen DEF TodoOK
<1>2. TransferOK(Head(s))
  <2>1. 1 \in 1..Len(s)
    BY <1>1
  <2> QED
    BY <1>1, <2>1 DEF TodoOK
<1>3. ASSUME NEW k \in 1..Len(Tail(s)) PROVE Sound(Tail(s)[k])
  <2>1. k + 1 \in 2..Len(s) /\ k + 1 \in 1..Len(s) /\ Tail(s)[k] = s[k + 1]
    BY <1>1
  <2> QED
    BY <2>1 DEF TodoOK, Sound
<1> QED
  BY <1>1, <1>2, <1>3 DEF Moves

-----------------------------------------------------------------------------
(***************************************************************************)
(* The device.                                                             *)
(***************************************************************************)
\* No command, and an empty bank.
LEMMA NothingOK ==
  /\ CommandOK(NoCmd) /\ NoCmd.cmd = "none" /\ NoCmd.len = 0
  /\ BankOK(Empty) /\ Empty.full = FALSE /\ Empty.data = <<>> /\ Empty.head = NoCmd
<1>1. CommandOK(NoCmd) /\ NoCmd.cmd = "none" /\ NoCmd.len = 0
  BY DEF NoCmd, CommandOK, Counted
<1>2. Listed(<<>>) /\ Len(<<>>) <= PacketSize
  BY ListedShort, BankSize
<1>3. /\ DOMAIN Empty = {"head", "data", "full", "wire"}
      /\ Empty.full = FALSE /\ Empty.data = <<>> /\ Empty.head = NoCmd
  BY DEF Empty
<1> QED
  BY <1>1, <1>2, <1>3 DEF BankOK

DevFields == {"bank", "cmd", "got", "reply", "strayed", "fw"}

\* A command is worked off: the device waits for the next.
LEMMA ExecutedOK ==
  ASSUME NEW d, DOMAIN d = DevFields, BankOK(d.bank), ~d.bank.full, FwOK(d.fw), d.strayed \in BOOLEAN,
         NEW c, CommandOK(c), NEW data, NEW stuck
  PROVE  /\ DevOK(Executed(d, c, data, stuck))
         /\ Executed(d, c, data, stuck).bank = d.bank
         /\ Executed(d, c, data, stuck).cmd = NoCmd /\ Executed(d, c, data, stuck).got = <<>>
         /\ Executed(d, c, data, stuck).strayed = d.strayed
<1> DEFINE r == ProcessCommand(d.fw, c, data, stuck)
           e == [d EXCEPT !.fw = r.fw, !.reply = r.reply, !.cmd = NoCmd, !.got = <<>>]
<1>1. FwOK(r.fw) /\ Packets(r.reply)
  BY ProcessCommandOK DEF Produced
<1>2. Executed(d, c, data, stuck) = e
  BY DEF Executed
<1> HIDE DEF r
<1>3. /\ DOMAIN e = DevFields /\ e.bank = d.bank /\ e.cmd = NoCmd /\ e.got = <<>> /\ e.strayed = d.strayed
      /\ e.fw = r.fw /\ e.reply = r.reply
  BY DEF DevFields
<1> HIDE DEF e
<1>4. DevOK(e)
  BY <1>1, <1>3, NothingOK, ListedShort DEF DevOK, DevFields
<1> QED
  BY <1>2, <1>3, <1>4

\* What the packet in the bank is taken for, and the bytes then there.
TakenFor(d, stray) ==
  IF d.cmd # NoCmd THEN d.cmd ELSE IF d.bank.head # NoCmd THEN d.bank.head ELSE stray
TakenData(d) ==
  d.got \o (IF d.cmd = NoCmd \/ d.bank.head = NoCmd THEN <<>> ELSE <<StrayByte>>) \o d.bank.data
Mistaken(d) == d.cmd = NoCmd <=> d.bank.head = NoCmd

\* A packet is taken: the command is complete, or waits for more.
LEMMA TakeOK ==
  ASSUME NEW d, DevOK(d), d.bank.full, NEW stuck, NEW stray, CommandOK(stray)
  PROVE  LET e == Take(d, stuck, stray)
             c == TakenFor(d, stray)
             data == TakenData(d)
         IN  /\ DevOK(e) /\ e.bank = Empty /\ e.strayed = (d.strayed \/ Mistaken(d))
             /\ Listed(data)
             /\ IF Complete(c, Len(d.got), Len(data)) THEN e.cmd = NoCmd /\ e.got = <<>>
                ELSE e.cmd = c /\ e.got = data
<1> DEFINE c == TakenFor(d, stray)
           data == TakenData(d)
           taken == [d EXCEPT !.bank = Empty, !.cmd = c, !.got = data, !.strayed = @ \/ Mistaken(d)]
           e == Take(d, stuck, stray)
<1>1. e = IF Complete(c, Len(d.got), Len(data)) THEN Executed(taken, c, data, stuck) ELSE taken
  BY Zenon DEF Take, TakenFor, TakenData, Mistaken
<1>2. CommandOK(c)
  BY DEF TakenFor, DevOK, BankOK
<1>3. Listed(data)
  <2> DEFINE s == IF d.cmd = NoCmd \/ d.bank.head = NoCmd THEN <<>> ELSE <<StrayByte>>
  <2>1. Listed(s)
    BY ListedShort
  <2>2. data = d.got \o s \o d.bank.data
    BY DEF TakenData
  <2> HIDE DEF s
  <2>3. Listed(d.got) /\ Listed(d.bank.data)
    BY DEF DevOK, BankOK
  <2>4. Listed(d.got \o s)
    BY <2>1, <2>3, ListedConcat
  <2> QED
    BY <2>2, <2>3, <2>4, ListedConcat
<1>4. DOMAIN d = DevFields /\ d.reply = <<>> /\ FwOK(d.fw) /\ Packets(d.reply) /\ d.strayed \in BOOLEAN
  BY DEF DevOK, DevFields
<1>5. Mistaken(d) \in BOOLEAN
  BY DEF Mistaken
<1> HIDE DEF c, data
<1>6. /\ DOMAIN taken = DevFields /\ taken.bank = Empty /\ taken.cmd = c /\ taken.got = data
      /\ taken.fw = d.fw /\ taken.reply = d.reply /\ taken.strayed = (d.strayed \/ Mistaken(d))
  BY <1>4 DEF DevFields
<1> HIDE DEF taken
<1>7. taken.strayed \in BOOLEAN
  BY <1>6
<1>8. ASSUME ~Complete(c, Len(d.got), Len(data)) PROVE DevOK(taken)
  <2>1. ASSUME c = NoCmd PROVE FALSE
    <3>1. ~TooLong(NoCmd) /\ ~EndsWithEmpty(NoCmd) /\ NoCmd.len = 0
      BY NothingOK DEF TooLong, EndsWithEmpty
    <3>2. Len(data) \in Nat
      BY <1>3, ListedLen
    <3> QED
      BY <1>8, <2>1, <3>1, <3>2 DEF Complete
  <2> QED
    BY <1>2, <1>3, <1>4, <1>6, <1>7, <2>1, NothingOK DEF DevOK, DevFields
<1> DEFINE x == Executed(taken, c, data, stuck)
<1>9. DevOK(x) /\ x.bank = taken.bank /\ x.cmd = NoCmd /\ x.got = <<>> /\ x.strayed = taken.strayed
  <2>1. BankOK(taken.bank) /\ ~taken.bank.full /\ FwOK(taken.fw)
    BY <1>4, <1>6, NothingOK
  <2>2. DOMAIN taken = DevFields /\ taken.strayed \in BOOLEAN
    BY <1>6, <1>7
  <2> QED
    BY <1>2, <2>1, <2>2, ExecutedOK
<1> HIDE DEF e
<1> HIDE DEF x
<1>10. CASE Complete(c, Len(d.got), Len(data))
  BY <1>1, <1>3, <1>6, <1>9, <1>10 DEF c, data, e, x
<1>11. CASE ~Complete(c, Len(d.got), Len(data))
  BY <1>1, <1>3, <1>6, <1>8, <1>11 DEF c, data, e
<1> QED
  BY <1>10, <1>11

-----------------------------------------------------------------------------
(***************************************************************************)
(* The host.                                                               *)
(***************************************************************************)
\* The end of a call leaves nothing to do, and a good session only if all went well.
LEMMA SettledOK ==
  ASSUME NEW h, DOMAIN h = DOMAIN Quiet, h.made \in 0..MaxJobs, h.sent = 0, NEW good \in BOOLEAN, h.good = good,
         NEW refused \in BOOLEAN, good => ~refused, HostTypes, Settled(h, good, refused),
         h.call = host.call, host.call # NoCall, h.entered <=> host.entered, h.clean <=> host.clean
  PROVE  /\ HostTypes' /\ host'.sent = 0 /\ host'.todo = <<>> /\ host'.call = NoCall
         /\ port' = "open" => good /\ (port = "open" \/ h.call.op = "Open")
         /\ host'.clean => good /\ h.call.op = "Close"
<1> DEFINE op == h.call.op
           entered == CASE op = "Open"  -> ~refused /\ (mode.bus = "isp" => good)
                        [] op = "Close" -> FALSE
                        [] OTHER        -> h.entered
           clean == (op = "Close" /\ good) \/ (h.clean /\ op # "Open")
           g == [h EXCEPT !.call = NoCall, !.todo = <<>>, !.clean = clean, !.entered = entered]
<1>1. host' = g
  BY DEF Settled
<1>2. port' = CASE op = "Open"  -> IF good /\ (h.clean \/ mode.bus # "mw") THEN "open" ELSE "broken"
                [] op = "Close" -> IF good THEN "closed" ELSE "broken"
                [] OTHER        -> IF good THEN port ELSE "broken"
  BY DEF Settled
<1>3. port' \in {"closed", "open", "broken"} /\ (port' = "open" => good /\ (port = "open" \/ op = "Open"))
  <2>1. CASE op = "Open"
    BY <1>2, <2>1
  <2>2. CASE op = "Close"
    BY <1>2, <2>2
  <2>3. CASE op \notin {"Open", "Close"}
    BY <1>2, <2>3 DEF HostTypes
  <2> QED
    BY <2>1, <2>2, <2>3
<1>4. port' = "open" => entered
  <2>1. CASE op = "Open"
    BY <1>3, <2>1
  <2>2. CASE op = "Close"
    BY <1>2, <2>2
  <2>3. CASE op \notin {"Open", "Close"}
    BY <1>3, <2>3 DEF HostTypes
  <2> QED
    BY <2>1, <2>2, <2>3
<1>8. clean => good /\ op = "Close" /\ ~entered
  <2>1. ~(h.clean /\ op # "Open")
    BY Zenon DEF HostTypes
  <2> QED
    BY <2>1
<1>9. port' = "closed" => clean
  <2>1. CASE op = "Open"
    BY <1>2, <2>1
  <2>2. CASE op = "Close"
    BY <1>2, <2>2
  <2>3. CASE op \notin {"Open", "Close"}
    <3>1. port # "closed"
      BY <2>3, Zenon DEF HostTypes
    <3> QED
      BY <1>2, <2>3, <3>1
  <2> QED
    BY <2>1, <2>2, <2>3
<1> HIDE DEF entered, clean
<1>5. /\ DOMAIN g = DOMAIN Quiet /\ g.made = h.made /\ g.good = h.good /\ g.todo = <<>> /\ g.call = NoCall
      /\ g.sent = h.sent /\ g.entered = entered /\ g.clean = clean
  BY DEF Quiet
<1>6. TodoOK(<<>>)
  BY MovesShort, TodoStarts
<1> HIDE DEF g
<1>7. HostOK(g)
  BY <1>5, <1>6 DEF HostOK
<1>10. /\ port' = "open" => g.entered
       /\ g.clean => ~g.entered /\ good /\ op = "Close"
       /\ port' = "closed" => g.clean
  BY <1>4, <1>5, <1>8, <1>9, Zenon
<1>11. HostTypes'
  BY <1>1, <1>3, <1>5, <1>7, <1>10, Zenon DEF HostTypes
<1> QED
  BY <1>1, <1>3, <1>5, <1>10, <1>11, Zenon

\* A transfer is over: the next is at hand, or the call is at its end.
LEMMA EndsOK ==
  ASSUME HostTypes, host.todo # <<>>, NEW ok \in BOOLEAN, NEW got, Ends(ok, got)
  PROVE  /\ HostTypes' /\ host'.sent = 0
         /\ host'.todo # <<>> => Head(host'.todo).ep # "config"
         /\ Orderly' => ok /\ (Orderly \/ Head(host.todo).ep = "config")
<1> DEFINE t == Head(host.todo)
           good == host.good /\ ok
           g == [host EXCEPT !.todo = Tail(@), !.sent = 0, !.got = <<>>, !.replies = @ \o got, !.good = good]
           stop == ~ok /\ t.must
           refusals == IF ~ok /\ t.ep = "in" /\ t.ver THEN BOOLEAN ELSE {FALSE}
<1>1. PICK refused \in refusals:
        IF g.todo = <<>> \/ stop \/ refused THEN Settled(g, good, refused)
        ELSE /\ host' = g
             /\ port' = IF port = "open" /\ ~good THEN "broken" ELSE port
             /\ base' = IF port' = "broken" THEN 0 ELSE base
             /\ UNCHANGED answer
  BY DEF Ends
<1>2. refused \in BOOLEAN /\ (ok => ~refused)
  OBVIOUS
<1>3. DOMAIN host = DOMAIN Quiet /\ host.good \in BOOLEAN /\ TodoOK(host.todo) /\ host.call # NoCall
  BY DEF HostTypes, HostOK
<1>4. good \in BOOLEAN /\ (good => ok /\ host.good)
  BY <1>3
<1>5. Moves(Tail(host.todo))
  BY <1>3, TodoGoesOn
<1>6. TodoOK(Tail(host.todo)) /\ (Tail(host.todo) # <<>> => Head(Tail(host.todo)).ep # "config")
  BY <1>5, TodoStarts
<1> HIDE DEF good
<1>7. /\ DOMAIN g = DOMAIN Quiet /\ g.made = host.made /\ g.good = good /\ g.todo = Tail(host.todo)
      /\ g.call = host.call /\ g.sent = 0 /\ g.entered = host.entered /\ g.clean = host.clean
  BY <1>3 DEF Quiet
<1> HIDE DEF g, refusals
<1>8. CASE Settled(g, good, refused)
  <2>1. good => ~refused
    BY <1>2, <1>4
  <2>2. g.made \in 0..MaxJobs /\ (g.entered <=> host.entered) /\ (g.clean <=> host.clean)
    BY <1>7 DEF HostTypes, HostOK
  <2>3. /\ HostTypes' /\ host'.sent = 0 /\ host'.todo = <<>> /\ host'.call = NoCall
        /\ port' = "open" => good /\ (port = "open" \/ g.call.op = "Open")
        /\ host'.clean => good /\ g.call.op = "Close"
    <3>1. g.good = good /\ g.call = host.call /\ g.sent = 0 /\ DOMAIN g = DOMAIN Quiet
      BY <1>7
    <3> QED
      BY <1>2, <1>3, <1>4, <1>8, <2>1, <2>2, <3>1, SettledOK
  <2>4. ASSUME Orderly' PROVE ok /\ (Orderly \/ Head(host.todo).ep = "config")
    <3>1. port' = "open" \/ host'.clean
      BY <2>3, <2>4, Zenon DEF Orderly, AtRest
    <3>2. good /\ (port = "open" \/ host.call.op \in {"Open", "Close"})
      BY <1>7, <2>3, <3>1
    <3> QED
      BY <1>4, <3>2 DEF Orderly
  <2> QED
    BY <2>3, <2>4
<1>9. CASE /\ host' = g /\ g.todo # <<>>
           /\ port' = IF port = "open" /\ ~good THEN "broken" ELSE port
  <2>1. HostOK(g)
    BY <1>3, <1>4, <1>6, <1>7, <1>9 DEF HostTypes, HostOK
  <2>2. port' \in {"closed", "open", "broken"} /\ (port' = "open" => port = "open" /\ good)
    BY <1>9 DEF HostTypes
  <2>3. HostTypes'
    <3>1. port' = "closed" => port = "closed"
      BY <1>9
    <3>2. host'.clean = host.clean /\ host'.entered = host.entered /\ host'.call = host.call
      BY <1>7, <1>9
    <3> QED
      BY <1>9, <2>1, <2>2, <3>1, <3>2, Zenon DEF HostTypes
  <2>4. ASSUME Orderly' PROVE ok /\ (Orderly \/ Head(host.todo).ep = "config")
    <3>3. ~AtRest'
      BY <1>3, <1>6, <1>7, <1>9 DEF AtRest, Now
    <3>1. port = "open" \/ host.call.op \in {"Open", "Close"}
      BY <1>7, <1>9, <2>2, <2>4, <3>3 DEF Orderly
    <3>2. good
      BY <1>7, <1>9, <2>2, <2>4, <3>3 DEF Orderly
    <3> QED
      BY <1>4, <3>1, <3>2 DEF Orderly
  <2> QED
    BY <1>6, <1>7, <1>9, <2>3, <2>4
<1> QED
  BY <1>1, <1>8, <1>9

\* A call is begun with all it has to do.
LEMMA BeginOK ==
  ASSUME HostTypes, NEW c, c # NoCall, NEW todo, TodoOK(todo), todo # <<>>, NEW inFrame, NEW good \in BOOLEAN,
         Begin(c, todo, inFrame, good), IsJob(c) => host.made < MaxJobs
  PROVE  /\ HostOK(host') /\ host'.sent = 0 /\ host'.todo = todo /\ host'.call = c
         /\ host'.entered = host.entered /\ host'.clean = host.clean /\ host'.good = good
         /\ host'.inFrame = inFrame /\ host.sent = 0 /\ host.call = NoCall
<1> DEFINE made == IF IsJob(c) THEN host.made + 1 ELSE host.made
           h == [host EXCEPT !.call = c, !.todo = todo, !.inFrame = inFrame, !.replies = <<>>,
                             !.good = good, !.made = IF IsJob(c) THEN @ + 1 ELSE @]
<1>1. host' = h /\ host.call = NoCall
  BY DEF Begin
<1>2. DOMAIN host = DOMAIN Quiet /\ host.made \in 0..MaxJobs /\ host.sent = 0
  BY <1>1 DEF HostTypes, HostOK
<1>3. /\ DOMAIN h = DOMAIN Quiet /\ h.made = made /\ h.good = good /\ h.todo = todo /\ h.call = c
      /\ h.sent = host.sent /\ h.entered = host.entered /\ h.clean = host.clean /\ h.inFrame = inFrame
  BY <1>2 DEF Quiet
<1>4. made \in 0..MaxJobs
  BY <1>2, AvrIspAssumption
<1> HIDE DEF h, made
<1>5. HostOK(h)
  BY <1>2, <1>3, <1>4 DEF HostOK
<1> QED
  BY <1>1, <1>2, <1>3, <1>5

-----------------------------------------------------------------------------
(***************************************************************************)
(* Packets and commands.                                                   *)
(***************************************************************************)
\* The command being sent.
LEMMA SentOK ==
  ASSUME HostOK(host), host.sent > 0
  PROVE  /\ Now("out") /\ OutOK(Head(host.todo)) /\ Head(host.todo).head # NoCmd
         /\ Head(host.todo).head.len \in Nat /\ host.sent \in Nat
<1>1. host.todo # <<>> /\ Head(host.todo).ep = "out" /\ TodoOK(host.todo) /\ host.sent \in Nat
  BY DEF HostOK
<1>2. TransferOK(Head(host.todo))
  BY <1>1, TodoGoesOn
<1>3. OutOK(Head(host.todo))
  BY <1>1, <1>2 DEF TransferOK
<1>4. Head(host.todo).head # NoCmd /\ Head(host.todo).head.len \in Nat
  BY <1>3, NothingOK DEF OutOK, CommandOK
<1> QED
  BY <1>1, <1>3, <1>4 DEF Now

\* What Complete asks of a command that is sent.
LEMMA CompleteOut ==
  ASSUME NEW t, OutOK(t), NEW before, NEW after
  PROVE  Complete(t.head, before, after) <=> IF Trailed(t) THEN before >= t.head.len ELSE after >= t.head.len
<1>1. ~TooLong(t.head) /\ (Trailed(t) <=> EndsWithEmpty(t.head))
  BY DEF OutOK
<1> QED
  BY <1>1, Zenon DEF Complete

\* In the middle of a command it is not complete.
LEMMA NotYetComplete ==
  ASSUME NEW t, OutOK(t), NEW s \in Nat, s > 0, s < PacketsOf(t)
  PROVE  ~Complete(t.head, DataIn(s - 1), DataIn(s))
<1> DEFINE d == s * PacketSize
           e == Elements(t)
<1>1. t.head.len \in Nat
  BY DEF OutOK, CommandOK
<1>2. e = 1 + t.head.len
  BY DEF Elements
<1>3. d \in Nat /\ d <= e /\ (~Trailed(t) => d < e)
  BY <1>1, NextPacket
<1>4. DataIn(s) = d - 1
  BY DEF DataIn
<1>5. DataIn(s - 1) < d - 1
  <2>1. CASE s = 1
    <3>1. d = PacketSize /\ DataIn(s - 1) = 0
      BY <2>1, BankSize DEF DataIn
    <3> QED
      BY <3>1, BankSize
  <2>2. CASE s # 1
    <3>1. s - 1 \in Nat /\ s - 1 # 0 /\ (s - 1) + 1 = s
      BY <2>2
    <3>2. (s - 1) * PacketSize \in Nat /\ d = (s - 1) * PacketSize + PacketSize
      BY <3>1, TimesOrder
    <3>3. DataIn(s - 1) = (s - 1) * PacketSize - 1
      BY <3>1 DEF DataIn
    <3> HIDE DEF d
    <3> QED
      BY <3>2, <3>3, BankSize
  <2> QED
    BY <2>1, <2>2
<1>6. DataIn(s - 1) \in Int
  <2>1. s - 1 \in Nat
    OBVIOUS
  <2> QED
    BY <2>1, BankSize, TimesOrder DEF DataIn
<1> HIDE DEF d, e
<1>7. ~(DataIn(s - 1) >= t.head.len) /\ (~Trailed(t) => ~(DataIn(s) >= t.head.len))
  BY <1>1, <1>2, <1>3, <1>4, <1>5, <1>6
<1> QED
  BY <1>7, CompleteOut, Zenon

\* A host that goes to its next transfer is in the middle of none.
LEMMA AlignedStill ==
  ASSUME Aligned, ~Midway, host'.sent = 0, dev'.cmd = dev.cmd, dev'.got = dev.got, dev'.bank = dev.bank
  PROVE  Aligned'
<1>1. ~Midway'
  BY DEF Midway
<1>2. /\ dev.bank.full => (dev.cmd = NoCmd <=> dev.bank.head # NoCmd)
      /\ IF dev.bank.full THEN Complete(Current, Before, Up) ELSE dev.cmd = NoCmd
  BY DEF Aligned
<1>3. Current' = Current /\ Before' = Before /\ Up' = Up
  BY DEF Current, Before, Up
<1>4. Complete(Current, Before, Up)' <=> Complete(Current, Before, Up)
  BY <1>3 DEF Complete, TooLong, EndsWithEmpty
<1> QED
  BY <1>1, <1>2, <1>4 DEF Aligned

\* An aligned packet is taken for what it is, and the device stays aligned.
LEMMA TakeAligned ==
  ASSUME HostOK(host), DevOK(dev), dev.bank.full, Aligned, ~dev.strayed, NEW stuck, NEW stray, CommandOK(stray),
         dev' = Take(dev, stuck, stray), host' = host
  PROVE  Aligned' /\ ~dev'.strayed
<1> DEFINE c == TakenFor(dev, stray)
           data == TakenData(dev)
<1>1. /\ dev'.bank = Empty /\ dev'.strayed = (dev.strayed \/ Mistaken(dev))
      /\ Listed(data)
      /\ IF Complete(c, Len(dev.got), Len(data)) THEN dev'.cmd = NoCmd /\ dev'.got = <<>>
         ELSE dev'.cmd = c /\ dev'.got = data
  BY TakeOK
<1>2. dev.cmd = NoCmd <=> dev.bank.head # NoCmd
  BY DEF Aligned
<1>3. ~dev'.strayed
  BY <1>1, <1>2 DEF Mistaken
<1>4. c = Current
  BY <1>2 DEF TakenFor, Current
<1>5. Len(data) = Up
  <2>1. dev.cmd = NoCmd \/ dev.bank.head = NoCmd
    BY <1>2
  <2>2. data = dev.got \o <<>> \o dev.bank.data
    BY <2>1 DEF TakenData
  <2>3. Listed(dev.got) /\ Listed(dev.bank.data) /\ Listed(<<>>) /\ Len(<<>>) = 0
    BY ListedShort DEF DevOK, BankOK
  <2>4. Listed(dev.got \o <<>>) /\ Len(dev.got \o <<>>) = Len(dev.got) + Len(<<>>)
    BY <2>3, ListedConcat
  <2>5. Len(data) = Len(dev.got \o <<>>) + Len(dev.bank.data)
    BY <2>2, <2>3, <2>4, ListedConcat
  <2>6. Len(dev.got) \in Nat
    BY <2>3, ListedLen
  <2> QED
    BY <2>3, <2>4, <2>5, <2>6 DEF Up
<1> HIDE DEF c, data
<1>6. ~dev'.bank.full /\ dev'.bank.data = <<>> /\ Len(<<>>) = 0
  BY <1>1, NothingOK, ListedShort
<1>7. Midway' <=> Midway
  BY DEF Midway, PacketsOf, Elements
<1>8. CASE ~Midway
  <2>1. Complete(c, Len(dev.got), Len(data))
    BY <1>4, <1>5, <1>8, Zenon DEF Aligned, Before
  <2>2. dev'.cmd = NoCmd
    BY <1>1, <2>1
  <2> QED
    BY <1>3, <1>6, <1>7, <1>8, <2>2, Zenon DEF Aligned
<1>9. CASE Midway
  <2> DEFINE t == Head(host.todo)
             s == host.sent
  <2>1. OutOK(t) /\ t.head # NoCmd /\ s \in Nat /\ s > 0 /\ s < PacketsOf(t)
    BY <1>9, SentOK DEF Midway, HostOK
  <2>2. c = t.head /\ Len(data) = DataIn(s) /\ Len(dev.got) = DataIn(s - 1)
    BY <1>4, <1>5, <1>9, Zenon DEF Aligned, Before
  <2>3. ~Complete(c, Len(dev.got), Len(data))
    BY <2>1, <2>2, NotYetComplete
  <2>4. dev'.cmd = t.head /\ dev'.got = data
    BY <1>1, <2>2, <2>3
  <2>5. Current' = t.head /\ dev'.cmd # NoCmd
    BY <2>1, <2>4 DEF Current
  <2>6. Up' = DataIn(s)
    <3>1. Up' = Len(data) + 0
      BY <1>6, <2>4 DEF Up
    <3>2. Len(data) \in Nat
      BY <1>1, ListedLen DEF data
    <3> QED
      BY <2>2, <3>1, <3>2
  <2>7. Head(host.todo)' = t /\ host'.sent = s
    OBVIOUS
  <2>8. DataIn(s)' = DataIn(s)
    BY DEF DataIn
  <2> HIDE DEF t, s
  <2> QED
    BY <1>3, <1>6, <1>7, <1>9, <2>5, <2>6, <2>7, <2>8 DEF Aligned
<1> QED
  BY <1>3, <1>8, <1>9

\* The data of the next packet of a command.
LEMMA PacketData ==
  ASSUME NEW t, t.head.len \in Nat, NEW s \in Nat, s < PacketsOf(t), NEW bytes,
         bytes = [i \in 1..t.head.len |-> bytes[i]]
  PROVE  LET first == s * PacketSize + 1
             last  == IF first + PacketSize - 1 < Elements(t) THEN first + PacketSize - 1 ELSE Elements(t)
             data  == SubSeq(bytes, IF first = 1 THEN 1 ELSE first - 1, last - 1)
         IN  /\ (first = 1 <=> s = 0)
             /\ Listed(data) /\ Len(data) <= PacketSize /\ DataIn(s) \in Nat
             /\ s + 1 < PacketsOf(t) => DataIn(s) + Len(data) = DataIn(s + 1)
             /\ s + 1 = PacketsOf(t) => IF Trailed(t) THEN DataIn(s) = t.head.len
                                        ELSE DataIn(s) + Len(data) = t.head.len
<1> DEFINE p == s * PacketSize
           e == Elements(t)
           first == p + 1
           last == IF first + PacketSize - 1 < e THEN first + PacketSize - 1 ELSE e
           lo == IF first = 1 THEN 1 ELSE first - 1
           hi == last - 1
           data == SubSeq(bytes, lo, hi)
           n == PacketsOf(t)
<1>1. e = 1 + t.head.len
  BY DEF Elements
<1>2. /\ p \in Nat /\ p <= e /\ (s + 1) * PacketSize = p + PacketSize
      /\ s + 1 < n => p + PacketSize <= e
      /\ s + 1 = n => IF Trailed(t) THEN p = e ELSE e <= p + PacketSize
  BY NextPacket
<1>3. p = 0 <=> s = 0
  <2>1. CASE s = 0
    BY <2>1, BankSize
  <2>2. CASE s # 0
    <3>1. 0 < s /\ 0 \in Nat
      BY <2>2
    <3>2. 0 * PacketSize + PacketSize <= s * PacketSize /\ 0 * PacketSize \in Nat
      BY <3>1, TimesOrder
    <3> QED
      BY <2>2, <3>2, BankSize
  <2> QED
    BY <2>1, <2>2
<1>4. DataIn(s) = IF s = 0 THEN 0 ELSE p - 1
  BY DEF DataIn
<1>5. DataIn(s + 1) = p + PacketSize - 1
  <2>1. s + 1 # 0
    OBVIOUS
  <2>2. DataIn(s + 1) = (s + 1) * PacketSize - 1
    BY <2>1 DEF DataIn
  <2>3. (s + 1) * PacketSize = p + PacketSize /\ p \in Nat
    BY <1>2, Zenon
  <2> HIDE DEF p
  <2> QED
    BY <2>2, <2>3, BankSize
<1> HIDE DEF p, e, n
<1>6. /\ last \in Nat /\ last <= e /\ last <= p + PacketSize /\ p <= last /\ last >= 1
      /\ (last = p + PacketSize /\ p + PacketSize <= e) \/ (last = e /\ e <= p + PacketSize)
  <2>1. p \in Nat /\ p <= e /\ e \in Nat /\ e >= 1
    <3>1. p \in Nat /\ p <= e
      BY <1>2, Zenon
    <3> QED
      BY <1>1, <3>1
  <2>2. first + PacketSize - 1 = p + PacketSize
    BY <2>1, BankSize
  <2>3. CASE p + PacketSize < e
    <3>1. last = p + PacketSize
      BY <2>2, <2>3
    <3> QED
      BY <2>1, <2>3, <3>1, BankSize
  <2>4. CASE ~(p + PacketSize < e)
    <3>1. last = e
      BY <2>2, <2>4
    <3> QED
      BY <2>1, <2>4, <3>1, BankSize
  <2> QED
    BY <2>3, <2>4
<1>7. (last = p + PacketSize /\ p + PacketSize <= e) \/ (last = e /\ e <= p + PacketSize)
  BY <1>6, Zenon
<1>8. first = 1 <=> s = 0
  BY <1>2, <1>3
<1>9. lo = IF s = 0 THEN 1 ELSE p
  BY <1>2, <1>8
<1> HIDE DEF last
<1>10. lo \in Nat /\ 1 <= lo /\ lo <= hi + 1 /\ hi \in Nat /\ hi <= t.head.len
  BY <1>1, <1>2, <1>3, <1>6, <1>9
<1>11. hi - lo + 1 = last - 1 - DataIn(s) /\ DataIn(s) \in Nat
  BY <1>2, <1>3, <1>4, <1>6, <1>9
<1> HIDE DEF lo, hi
<1>12. Listed(bytes) /\ Len(bytes) = t.head.len
  BY ListedTable
<1>13. Listed(data) /\ Len(data) = hi - lo + 1
  BY <1>10, <1>12, ListedPart
<1> HIDE DEF data
<1>14. DataIn(s) + Len(data) = last - 1
  BY <1>6, <1>11, <1>13
<1>15. Len(data) <= PacketSize
  BY <1>2, <1>3, <1>4, <1>6, <1>11, <1>13, BankSize
<1>16. ASSUME s + 1 < n PROVE DataIn(s) + Len(data) = DataIn(s + 1)
  <2>1. last = p + PacketSize
    BY <1>1, <1>2, <1>5, <1>7, <1>16, BankSize
  <2>2. p \in Nat /\ PacketSize \in Nat
    BY <1>2, BankSize
  <2>4. last - 1 = p + PacketSize - 1
    BY <2>1, <2>2
  <2>3. DataIn(s) + Len(data) = p + PacketSize - 1
    BY <1>14, <2>4
  <2> QED
    BY <1>5, <2>3
<1>17. ASSUME s + 1 = n, Trailed(t) PROVE DataIn(s) = t.head.len
  BY <1>1, <1>2, <1>3, <1>4, <1>17
<1>18. ASSUME s + 1 = n, ~Trailed(t) PROVE DataIn(s) + Len(data) = t.head.len
  <2>1. e <= p + PacketSize
    BY <1>2, <1>18, Zenon
  <2>2. last = e
    BY <1>1, <1>2, <1>7, <2>1, BankSize
  <2> QED
    BY <1>1, <1>14, <2>2
<1> QED
  BY <1>8, <1>11, <1>13, <1>15, <1>16, <1>17, <1>18 DEF p, e, last, lo, hi, data, n

\* The host puts its next packet in the bank; the device stays aligned.
LEMMA SendPacketOK ==
  ASSUME HostOK(host), DevOK(dev), SendPacket
  PROVE  /\ HostOK(host') /\ DevOK(dev') /\ host'.todo = host.todo /\ host'.call = host.call
         /\ host'.entered = host.entered /\ host'.good = host.good
         /\ host'.clean = host.clean /\ host'.inFrame = host.inFrame
         /\ host.todo # <<>> /\ host'.sent = host.sent + 1
         /\ dev'.strayed = dev.strayed /\ dev'.fw = dev.fw /\ dev'.cmd = dev.cmd /\ dev'.bank.full
         /\ dev'.bank.head = IF host.sent = 0 THEN Head(host.todo).head ELSE NoCmd
         /\ Aligned => Aligned'
<1> DEFINE t == Head(host.todo)
           s == host.sent
           first == s * PacketSize + 1
           last  == IF first + PacketSize - 1 < Elements(t) THEN first + PacketSize - 1 ELSE Elements(t)
           bytes == [i \in 1..t.head.len |-> Byte(host.call.id, t.off + i)]
           data  == SubSeq(bytes, IF first = 1 THEN 1 ELSE first - 1, last - 1)
           bank(w) == [head |-> IF first = 1 THEN t.head ELSE NoCmd, full |-> TRUE, wire |-> w, data |-> data]
           d     == [dev EXCEPT !.bank = bank(<<>>)]
           w     == Take(d, 0, [cmd |-> "stray", len |-> 0]).fw.pins.wire
<1>1. /\ Sending /\ dev.bank = Empty /\ dev.reply = <<>>
      /\ dev' = [d EXCEPT !.bank.wire = w]
      /\ host' = [host EXCEPT !.sent = @ + 1]
  BY Zenon DEF SendPacket
<1>2. s \in Nat /\ s < PacketsOf(t) /\ host.todo # <<>> /\ t.ep = "out"
  BY <1>1 DEF HostOK, Sending, Now
<1>3. OutOK(t)
  <2>1. TransferOK(t)
    BY <1>2, TodoGoesOn DEF HostOK
  <2> HIDE DEF t
  <2> QED
    BY <1>2, <2>1 DEF TransferOK
<1>4. t.head.len \in Nat /\ CommandOK(t.head) /\ t.head # NoCmd
  <2> HIDE DEF t
  <2> QED
    BY <1>3, NothingOK DEF OutOK, CommandOK
<1>5. /\ (first = 1 <=> s = 0)
      /\ Listed(data) /\ Len(data) <= PacketSize /\ DataIn(s) \in Nat
      /\ s + 1 < PacketsOf(t) => DataIn(s) + Len(data) = DataIn(s + 1)
      /\ s + 1 = PacketsOf(t) => IF Trailed(t) THEN DataIn(s) = t.head.len
                                 ELSE DataIn(s) + Len(data) = t.head.len
  <2>1. bytes = [i \in 1..t.head.len |-> bytes[i]]
    OBVIOUS
  <2> HIDE DEF bytes, t, s
  <2> QED
    BY <1>2, <1>4, <2>1, PacketData
<1> HIDE DEF w, data
<1>6. /\ DOMAIN dev = DevFields /\ FwOK(dev.fw) /\ CommandOK(dev.cmd) /\ Listed(dev.got) /\ Packets(dev.reply)
      /\ dev.strayed \in BOOLEAN /\ (dev.cmd = NoCmd => dev.got = <<>>)
  BY DEF DevOK, DevFields
<1> DEFINE b == [d.bank EXCEPT !.wire = w]
<1>7. /\ DOMAIN dev' = DevFields /\ dev'.bank = b /\ dev'.cmd = dev.cmd /\ dev'.got = dev.got
      /\ dev'.reply = dev.reply /\ dev'.fw = dev.fw /\ dev'.strayed = dev.strayed
  <2>1. /\ DOMAIN d = DevFields /\ d.cmd = dev.cmd /\ d.got = dev.got
        /\ d.reply = dev.reply /\ d.fw = dev.fw /\ d.strayed = dev.strayed
    <3> HIDE DEF bank
    <3> QED
      BY <1>6 DEF DevFields
  <2>2. dev' = [d EXCEPT !.bank.wire = w]
    BY <1>1, Zenon
  <2> HIDE DEF d
  <2> QED
    BY <2>1, <2>2 DEF DevFields
<1>8. /\ b.head = (IF s = 0 THEN t.head ELSE NoCmd) /\ b.full = TRUE /\ b.data = data
      /\ DOMAIN b = {"head", "data", "full", "wire"}
  <2> DEFINE h == IF first = 1 THEN t.head ELSE NoCmd
  <2>1. d.bank = [head |-> h, full |-> TRUE, wire |-> <<>>, data |-> data]
    BY <1>6 DEF DevFields
  <2>2. h = IF s = 0 THEN t.head ELSE NoCmd
    BY <1>5
  <2> HIDE DEF h, d
  <2>3. /\ DOMAIN d.bank = {"head", "data", "full", "wire"}
        /\ d.bank.head = h /\ d.bank.full = TRUE /\ d.bank.data = data
    BY <2>1
  <2> QED
    BY <2>2, <2>3
<1> HIDE DEF b, bank, d
<1>9. DevOK(dev')
  <2> HIDE DEF t, s
  <2>1. BankOK(b)
    BY <1>4, <1>5, <1>8, NothingOK DEF BankOK
  <2> QED
    BY <1>1, <1>6, <1>7, <2>1, <1>8 DEF DevOK, DevFields
<1>10. /\ DOMAIN host' = DOMAIN Quiet /\ host'.made = host.made /\ host'.good = host.good
       /\ host'.todo = host.todo /\ host'.call = host.call /\ host'.sent = s + 1
       /\ host'.entered = host.entered /\ host'.clean = host.clean /\ host'.inFrame = host.inFrame
  BY <1>1 DEF HostOK, Quiet
<1>11. HostOK(host')
  <2>1. PacketsOf(t) \in Nat
    <3> HIDE DEF t
    <3> QED
      BY <1>4, PacketsCount
  <2> QED
    BY <1>2, <1>10, <2>1 DEF HostOK
<1>12. ASSUME Aligned PROVE Aligned'
  <2>1. Len(dev.got) = DataIn(s) /\ (s = 0 => dev.cmd = NoCmd) /\ (s > 0 => dev.cmd = t.head)
    <3>1. ~dev.bank.full /\ Len(dev.bank.data) = 0
      BY <1>1, NothingOK, ListedShort
    <3>2. CASE s = 0
      <4>1. ~Midway
        BY <1>2, <3>2 DEF Midway
      <4>2. dev.cmd = NoCmd
        BY <1>12, <3>1, <4>1, Zenon DEF Aligned
      <4>3. Len(dev.got) = 0
        BY <1>6, <4>2, ListedShort
      <4> QED
        BY <3>2, <4>2, <4>3 DEF DataIn
    <3>3. CASE s > 0
      <4>1. Midway
        BY <1>2, <3>3 DEF Midway
      <4>2. dev.cmd # NoCmd /\ Current = t.head /\ Up = DataIn(s)
        BY <1>12, <3>1, <4>1, Zenon DEF Aligned
      <4>3. Up = Len(dev.got) + 0 /\ Len(dev.got) \in Nat
        BY <1>6, <3>1, ListedLen DEF Up
      <4> QED
        BY <3>3, <4>2, <4>3 DEF Current
    <3> QED
      BY <1>2, <3>2, <3>3
  <2>2. /\ Current' = t.head /\ Before' = DataIn(s) /\ Up' = DataIn(s) + Len(data)
        /\ dev'.bank.full /\ (dev'.cmd = NoCmd <=> dev'.bank.head # NoCmd)
    <3> HIDE DEF t, s
    <3>1. dev'.bank.full /\ dev'.bank.data = data /\ dev'.bank.head = IF s = 0 THEN t.head ELSE NoCmd
      BY <1>7, <1>8
    <3>2. s = 0 \/ s > 0
      BY <1>2
    <3>3. Current' = t.head /\ (dev'.cmd = NoCmd <=> dev'.bank.head # NoCmd)
      BY <1>4, <1>7, <2>1, <3>1, <3>2 DEF Current
    <3> QED
      BY <1>7, <2>1, <3>1, <3>3 DEF Before, Up
  <2>3. Midway' <=> s + 1 < PacketsOf(t)
    BY <1>2, <1>10 DEF Midway, PacketsOf, Elements
  <2>4. CASE s + 1 < PacketsOf(t)
    <3>1. Midway' /\ Up' = DataIn(s + 1) /\ (s + 1) - 1 = s
      <4>1. (s + 1) - 1 = s
        BY <1>2
      <4>2. Midway'
        BY <2>3, <2>4, Zenon
      <4>3. DataIn(s) + Len(data) = DataIn(s + 1)
        BY <1>5, <2>4, Zenon
      <4> QED
        BY <2>2, <4>1, <4>2, <4>3, Zenon
    <3>2. Head(host.todo)' = t /\ host'.sent = s + 1
      BY <1>10
    <3>3. \A k: DataIn(k)' = DataIn(k)
      BY DEF DataIn
    <3>4. Before' = DataIn((s + 1) - 1)
      BY <2>2, <3>1
    <3> HIDE DEF t, s
    <3> QED
      BY <2>2, <3>1, <3>2, <3>3, <3>4, Zenon DEF Aligned
  <2>5. CASE ~(s + 1 < PacketsOf(t))
    <3>1. PacketsOf(t) \in Nat
      <4> HIDE DEF t
      <4> QED
        BY <1>4, PacketsCount
    <3>2. s + 1 = PacketsOf(t)
      BY <1>2, <2>5, <3>1
    <3> HIDE DEF t, s
    <3>3. IF Trailed(t) THEN DataIn(s) = t.head.len ELSE DataIn(s) + Len(data) = t.head.len
      BY <1>5, <3>2, Zenon
    <3>4. IF Trailed(t) THEN DataIn(s) >= t.head.len ELSE DataIn(s) + Len(data) >= t.head.len
      <4>1. t.head.len >= t.head.len
        BY <1>4
      <4> QED
        BY <3>3, <4>1, Zenon
    <3>5. Complete(t.head, DataIn(s), DataIn(s) + Len(data))
      BY <1>3, <3>4, CompleteOut, Zenon
    <3>6. Complete(Current', Before', Up')
      BY <2>2, <3>5, Zenon
    <3>7. ~Midway'
      BY <2>3, <2>5, Zenon
    <3>8. Complete(Current, Before, Up)'
      BY <3>6 DEF Complete, TooLong, EndsWithEmpty
    <3> QED
      BY <2>2, <3>7, <3>8, Zenon DEF Aligned
  <2> QED
    BY <2>4, <2>5
<1> QED
  BY <1>2, <1>7, <1>8, <1>9, <1>10, <1>11, <1>12

-----------------------------------------------------------------------------
(***************************************************************************)
(* The actions preserve the invariant: those of the host first.            *)
(***************************************************************************)
\* What the actions of the host rest on.
LEMMA InvTypes ==
  ASSUME IInv
  PROVE  /\ HostTypes /\ HostOK(host) /\ DevOK(dev) /\ mode \in Modes /\ faults \in 0..MaxFaults
         /\ Orderly => ~dev.strayed /\ Aligned
BY Zenon DEF IInv, TypesOK, InOrderInv, HostTypes

\* The invariant once its parts are known.
LEMMA InvParts ==
  ASSUME HostTypes', DevOK(dev'), mode' \in Modes, faults' \in 0..MaxFaults,
         Orderly' => ~dev'.strayed /\ Aligned'
  PROVE  IInv'
<1>1. TypesOK'
  BY DEF TypesOK
<1>2. InOrderInv'
  BY DEF InOrderInv
<1> QED
  BY <1>1, <1>2 DEF IInv

\* A session is opened.
LEMMA OpenStep ==
  ASSUME IInv, Open
  PROVE  IInv'
<1> DEFINE c == [op |-> "Open"]
           todo == SetUp(mode')
<1>1. /\ HostTypes /\ DevOK(dev) /\ mode \in Modes /\ faults \in 0..MaxFaults
      /\ Orderly => ~dev.strayed /\ Aligned
  BY InvTypes
<1>2. /\ ~host.entered /\ mode' \in Modes /\ Begin(c, todo, FALSE, TRUE)
      /\ dev' = dev /\ port' = port /\ faults' = faults
  BY <1>1 DEF Open
<1>3. Opening(todo)
  BY <1>2, SetUpOpening
<1>4. TodoOK(todo) /\ todo # <<>> /\ Head(todo).ep = "config"
  BY <1>3, TodoStarts
<1>5. c # NoCall /\ ~IsJob(c) /\ c.op = "Open"
  BY DEF NoCall, IsJob
<1> HIDE DEF c, todo
<1>6. /\ HostOK(host') /\ host'.todo = todo /\ host'.call = c /\ host'.entered = host.entered
      /\ host'.clean = host.clean /\ host'.sent = 0 /\ host.sent = 0 /\ host.call = NoCall
  BY <1>1, <1>2, <1>4, <1>5, BeginOK
<1>7. port # "open" /\ port \in {"closed", "open", "broken"} /\ (port = "closed" => host.clean)
  BY <1>1, <1>2, Zenon DEF HostTypes
<1>8. HostTypes'
  BY <1>2, <1>5, <1>6, <1>7, Zenon DEF HostTypes
<1>9. ASSUME Orderly' PROVE ~dev'.strayed /\ Aligned'
  <2>1. host.clean
    BY <1>2, <1>4, <1>5, <1>6, <1>7, <1>9, Zenon DEF Orderly, AtRest
  <2>2. ~dev.strayed /\ Aligned
    BY <1>1, <1>6, <2>1, Zenon DEF Orderly, AtRest
  <2>3. ~Midway
    BY <1>6 DEF Midway
  <2> QED
    BY <1>2, <1>6, <2>2, <2>3, AlignedStill
<1> QED
  BY <1>1, <1>2, <1>8, <1>9, InvParts

\* A session is closed.
LEMMA CloseStep ==
  ASSUME IInv, Close
  PROVE  IInv'
<1> DEFINE c == [op |-> "Close"]
           todo == TearDown(mode)
           good == port = "open"
<1>1. /\ HostTypes /\ DevOK(dev) /\ mode \in Modes /\ faults \in 0..MaxFaults
      /\ Orderly => ~dev.strayed /\ Aligned
  BY InvTypes
<1>2. /\ host.entered /\ Begin(c, todo, FALSE, good)
      /\ dev' = dev /\ port' = "broken" /\ faults' = faults /\ mode' = mode
  BY DEF Close
<1>3. Moves(todo) /\ todo # <<>>
  BY TearDownMoves
<1>4. TodoOK(todo) /\ good \in BOOLEAN
  BY <1>3, TodoStarts
<1>5. c # NoCall /\ ~IsJob(c) /\ c.op = "Close"
  BY DEF NoCall, IsJob
<1> HIDE DEF c, todo, good
<1>6. /\ HostOK(host') /\ host'.call = c /\ host'.clean = host.clean /\ host'.good = good
      /\ host'.sent = 0 /\ host.sent = 0
  BY <1>1, <1>2, <1>3, <1>4, <1>5, BeginOK
<1>9. ~host'.clean
  BY <1>1, <1>2, <1>6, Zenon DEF HostTypes
<1>7. HostTypes'
  BY <1>2, <1>6, <1>9 DEF HostTypes
<1>8. ASSUME Orderly' PROVE ~dev'.strayed /\ Aligned'
  <2>1. good
    BY <1>2, <1>6, <1>8, <1>9 DEF Orderly, AtRest
  <2>2. ~dev.strayed /\ Aligned
    BY <1>1, <2>1 DEF Orderly, good
  <2>3. ~Midway
    BY <1>6 DEF Midway
  <2> QED
    BY <1>2, <1>6, <2>2, <2>3, AlignedStill
<1> QED
  BY <1>1, <1>2, <1>7, <1>8, InvParts

\* A call is made.
LEMMA MakeStep ==
  ASSUME IInv, NEW j \in JobsOf(mode.bus), Make(j)
  PROVE  IInv'
<1> DEFINE k == host.made + 1
           c == [j EXCEPT !.id = k]
           todo == Transfers(c)
<1>1. /\ HostTypes /\ DevOK(dev) /\ mode \in Modes /\ faults \in 0..MaxFaults /\ HostOK(host)
      /\ Orderly => ~dev.strayed /\ Aligned
  BY InvTypes
<1>2. /\ Begin(c, todo, LeavesOpen(c), TRUE) /\ host.made < MaxJobs /\ host.entered
      /\ dev' = dev /\ port' = port /\ faults' = faults /\ mode' = mode
  BY DEF Make
<1>3. k \in Nat
  BY <1>1, AvrIspAssumption DEF HostOK
<1>4. mode.bus \in {"spi", "i2c", "mw", "isp"}
  BY <1>1, AvrIspAssumption
<1> HIDE DEF k
<1>5. Moves(todo) /\ todo # <<>> /\ c.op \notin {"none", "Open", "Close"}
  BY <1>3, <1>4, CallMoves
<1>6. TodoOK(todo) /\ Head(todo).ep # "config" /\ c # NoCall
  BY <1>5, TodoStarts DEF NoCall
<1> HIDE DEF c, todo
<1>7. /\ HostOK(host') /\ host'.sent = 0 /\ host'.todo = todo /\ host'.call = c
      /\ host'.entered = host.entered /\ host.sent = 0 /\ host'.clean = host.clean
  BY <1>1, <1>2, <1>5, <1>6, BeginOK
<1>10. ~host'.clean /\ port \in {"broken", "open"}
  BY <1>1, <1>2, <1>7, Zenon DEF HostTypes
<1>8. HostTypes'
  BY <1>1, <1>2, <1>7, <1>10 DEF HostTypes
<1>9. ASSUME Orderly' PROVE ~dev'.strayed /\ Aligned'
  <2>1. port = "open"
    BY <1>2, <1>5, <1>7, <1>9, <1>10 DEF Orderly, AtRest
  <2>2. ~dev.strayed /\ Aligned
    BY <1>1, <2>1 DEF Orderly
  <2>3. ~Midway
    BY <1>7 DEF Midway
  <2> QED
    BY <1>2, <1>7, <2>2, <2>3, AlignedStill
<1> QED
  BY <1>1, <1>2, <1>6, <1>7, <1>8, <1>9, InvParts

\* A transfer ends, and the device is not affected or is in order with it.
LEMMA EndsStep ==
  ASSUME IInv, host.todo # <<>>, NEW ok \in BOOLEAN, NEW got, Ends(ok, got),
         mode' = mode, faults' \in 0..MaxFaults, DevOK(dev'),
         host'.sent = 0 /\ ok /\ (Orderly \/ Head(host.todo).ep = "config") => ~dev'.strayed /\ Aligned'
  PROVE  IInv'
<1>1. HostTypes /\ mode \in Modes
  BY InvTypes
<1>2. /\ HostTypes' /\ host'.sent = 0
      /\ Orderly' => ok /\ (Orderly \/ Head(host.todo).ep = "config")
  BY <1>1, EndsOK
<1> QED
  BY <1>1, <1>2, InvParts


\* The device is configured: it holds nothing.
LEMMA ConfigureStep ==
  ASSUME IInv, Configure
  PROVE  IInv'
<1>1. DevOK(dev) /\ faults \in 0..MaxFaults
  BY InvTypes
<1>2. /\ host.todo # <<>> /\ dev.cmd = NoCmd /\ dev.bank = Empty
      /\ dev' = [dev EXCEPT !.strayed = FALSE]
      /\ Ends(TRUE, <<>>) /\ mode' = mode /\ faults' = faults
  BY DEF Configure, Now, Idle
<1>3. /\ DOMAIN dev' = DevFields /\ dev'.bank = dev.bank /\ dev'.cmd = dev.cmd /\ dev'.got = dev.got
      /\ dev'.reply = dev.reply /\ dev'.fw = dev.fw /\ dev'.strayed = FALSE
  BY <1>1, <1>2 DEF DevOK, DevFields
<1>4. DevOK(dev')
  BY <1>1, <1>3 DEF DevOK, DevFields
<1>5. ASSUME host'.sent = 0 PROVE ~dev'.strayed /\ Aligned'
  <2>1. ~Midway'
    BY <1>5 DEF Midway
  <2>2. ~dev'.bank.full /\ dev'.cmd = NoCmd
    BY <1>2, <1>3, NothingOK
  <2>3. Aligned'
    BY <2>1, <2>2, Zenon DEF Aligned
  <2> QED
    BY <1>3, <2>3
<1> QED
  BY <1>1, <1>2, <1>4, <1>5, EndsStep

\* A packet is sent.
LEMMA SendPacketStep ==
  ASSUME IInv, SendPacket
  PROVE  IInv'
<1>1. /\ HostTypes /\ DevOK(dev) /\ HostOK(host) /\ mode \in Modes /\ faults \in 0..MaxFaults
      /\ Orderly => ~dev.strayed /\ Aligned
  BY InvTypes
<1>2. port' = port /\ faults' = faults /\ mode' = mode /\ Sending
  BY DEF SendPacket
<1>3. /\ HostOK(host') /\ DevOK(dev') /\ host'.todo = host.todo /\ host'.call = host.call
      /\ host'.entered = host.entered /\ host'.good = host.good /\ host'.clean = host.clean
      /\ dev'.strayed = dev.strayed
      /\ Aligned => Aligned'
  BY <1>1, SendPacketOK
<1>4. HostTypes'
  BY <1>1, <1>2, <1>3, Zenon DEF HostTypes
<1>6. Orderly' => Orderly
  BY <1>2, <1>3, Zenon DEF Orderly, AtRest, Now
<1> QED
  BY <1>1, <1>2, <1>3, <1>4, <1>6, InvParts

\* A command is sent.
LEMMA WriteDoneStep ==
  ASSUME IInv, WriteDone
  PROVE  IInv'
<1>1. DevOK(dev) /\ faults \in 0..MaxFaults /\ (Orderly => ~dev.strayed /\ Aligned)
  BY InvTypes
<1>2. /\ host.todo # <<>> /\ Head(host.todo).ep = "out" /\ ~(host.sent < PacketsOf(Head(host.todo)))
      /\ Ends(TRUE, <<>>) /\ mode' = mode /\ faults' = faults /\ dev' = dev
  BY DEF WriteDone, Now, Sending
<1>3. ~Midway
  BY <1>2 DEF Midway
<1>4. ASSUME host'.sent = 0, Orderly PROVE ~dev'.strayed /\ Aligned'
  BY <1>1, <1>2, <1>3, <1>4, AlignedStill
<1> QED
  BY <1>1, <1>2, <1>4, EndsStep

\* A packet of a reply is received.
LEMMA ReceivePacketStep ==
  ASSUME IInv, ReceivePacket
  PROVE  IInv'
<1> DEFINE t   == Head(host.todo)
           got == host.got \o Head(dev.reply)
           ok  == Len(got) = t.n /\ (t.must => got[1] = STATUS_CMD_OK)
<1>1. /\ HostTypes /\ DevOK(dev) /\ HostOK(host) /\ mode \in Modes /\ faults \in 0..MaxFaults
      /\ Orderly => ~dev.strayed /\ Aligned
  BY InvTypes
<1>2. /\ host.todo # <<>> /\ t.ep = "in" /\ dev.reply # <<>>
      /\ dev' = [dev EXCEPT !.reply = Tail(@)] /\ mode' = mode /\ faults' = faults
      /\ Ends(ok, got) \/ (host' = [host EXCEPT !.got = got] /\ port' = port)
  BY DEF ReceivePacket, Now
<1>3. /\ DOMAIN dev' = DevFields /\ dev'.bank = dev.bank /\ dev'.cmd = dev.cmd /\ dev'.got = dev.got
      /\ dev'.reply = Tail(dev.reply) /\ dev'.fw = dev.fw /\ dev'.strayed = dev.strayed
  BY <1>1, <1>2 DEF DevOK, DevFields
<1>4. Packets(Tail(dev.reply))
  <2>1. Listed(dev.reply) /\ \A k \in 1..Len(dev.reply): Len(dev.reply[k]) <= PacketSize
    BY <1>1 DEF DevOK, Packets
  <2>2. /\ Listed(Tail(dev.reply)) /\ Len(Tail(dev.reply)) = Len(dev.reply) - 1 /\ Len(dev.reply) \in Nat
        /\ \A k \in 1..Len(dev.reply) - 1: Tail(dev.reply)[k] = dev.reply[k + 1]
    BY <1>2, <2>1, ListedTail, ListedLen
  <2>3. \A k \in 1..Len(dev.reply) - 1: k + 1 \in 1..Len(dev.reply)
    BY <2>2
  <2> QED
    BY <2>1, <2>2, <2>3 DEF Packets
<1>5. DevOK(dev')
  BY <1>1, <1>2, <1>3, <1>4 DEF DevOK, DevFields
<1>6. host.sent = 0 /\ ~Midway
  BY <1>1, <1>2 DEF HostOK, Midway
<1>7. ASSUME host'.sent = 0, Orderly PROVE ~dev'.strayed /\ Aligned'
  BY <1>1, <1>3, <1>6, <1>7, AlignedStill
<1>8. t.ep # "config" /\ ok \in BOOLEAN
  BY <1>2
<1>9. CASE Ends(ok, got)
  <2> HIDE DEF ok, got
  <2> QED
    BY <1>1, <1>2, <1>5, <1>7, <1>8, <1>9, EndsStep
<1>10. CASE host' = [host EXCEPT !.got = got] /\ port' = port
  <2> HIDE DEF got
  <2>1. /\ DOMAIN host' = DOMAIN Quiet /\ host'.made = host.made /\ host'.good = host.good
        /\ host'.todo = host.todo /\ host'.call = host.call /\ host'.sent = host.sent
        /\ host'.entered = host.entered /\ host'.clean = host.clean
    BY <1>1, <1>10 DEF HostOK, Quiet
  <2>2. HostOK(host')
    BY <1>1, <2>1 DEF HostOK
  <2>3. HostTypes'
    BY <1>1, <1>10, <2>1, <2>2, Zenon DEF HostTypes
  <2>4. Orderly' => Orderly
    BY <1>10, <2>1, Zenon DEF Orderly, AtRest, Now
  <2> QED
    BY <1>1, <1>2, <1>5, <1>6, <1>7, <1>8, <2>1, <2>3, <2>4, InvParts
<1> QED
  BY <1>2, <1>9, <1>10

\* A transfer is given up.
LEMMA GiveUpStep ==
  ASSUME IInv, GiveUp \/ TimesOut
  PROVE  IInv'
<1>1. DevOK(dev) /\ faults \in 0..MaxFaults
  BY InvTypes
<1>2. /\ host.todo # <<>> /\ Ends(FALSE, <<>>) /\ mode' = mode /\ dev' = dev
      /\ faults' = faults \/ (faults < MaxFaults /\ faults' = faults + 1)
  BY Zenon DEF GiveUp, TimesOut, Fault, Now
<1>3. faults' \in 0..MaxFaults
  BY <1>1, <1>2, AvrIspAssumption
<1> QED
  BY <1>1, <1>2, <1>3, EndsStep


-----------------------------------------------------------------------------
(***************************************************************************)
(* The actions of the device, and what befalls it.                         *)
(***************************************************************************)
\* A fault is counted.
LEMMA FaultCounted ==
  ASSUME faults \in 0..MaxFaults, Fault
  PROVE  faults' \in 0..MaxFaults
BY AvrIspAssumption DEF Fault

\* The host is not concerned, unless that its session is broken.
LEMMA DeviceStep ==
  ASSUME IInv, host' = host, mode' = mode, faults' \in 0..MaxFaults,
         port' = port \/ port' = "broken", DevOK(dev'),
         Orderly => ~dev'.strayed /\ Aligned'
  PROVE  IInv'
<1>1. HostTypes /\ mode \in Modes
  BY InvTypes
<1>2. HostTypes'
  BY <1>1 DEF HostTypes
<1>3. Orderly' => Orderly
  BY DEF Orderly, AtRest, Now
<1> QED
  BY <1>1, <1>2, <1>3, InvParts

\* A packet is taken.
LEMMA TakePacketStep ==
  ASSUME IInv, TakePacket
  PROVE  IInv'
<1>1. DevOK(dev) /\ HostOK(host) /\ faults \in 0..MaxFaults /\ (Orderly => ~dev.strayed /\ Aligned)
  BY InvTypes
<1>2. /\ dev.bank.full /\ host' = host /\ mode' = mode /\ port' = port /\ faults' = faults
      /\ \E stray \in StrayCommands \cup {NoCmd}: dev' = Take(dev, 0, stray)
  BY DEF TakePacket, TakePending
<1>3. PICK stray \in StrayCommands \cup {NoCmd}: dev' = Take(dev, 0, stray)
  BY <1>2
<1>4. CommandOK(stray)
  BY NothingOK DEF StrayCommands, CommandOK, Counted
<1>5. DevOK(dev')
  BY <1>1, <1>2, <1>3, <1>4, TakeOK
<1>6. ASSUME Orderly PROVE ~dev'.strayed /\ Aligned'
  BY <1>1, <1>2, <1>3, <1>4, <1>6, TakeAligned
<1> QED
  BY <1>1, <1>2, <1>5, <1>6, DeviceStep

\* The AVR stays busy.
LEMMA TargetBusyStep ==
  ASSUME IInv, TargetBusy
  PROVE  IInv'
<1>1. DevOK(dev) /\ HostOK(host) /\ faults \in 0..MaxFaults /\ (Orderly => ~dev.strayed /\ Aligned)
  BY InvTypes
<1>2. /\ dev.bank.full /\ host' = host /\ mode' = mode /\ Fault
      /\ port' = port \/ port' = "broken"
      /\ \E stuck \in 1..(1 + dev.cmd.len): dev' = Take(dev, stuck, NoCmd)
  BY DEF TargetBusy, TakePending
<1>3. PICK stuck: dev' = Take(dev, stuck, NoCmd)
  BY <1>2
<1>4. DevOK(dev')
  BY <1>1, <1>2, <1>3, NothingOK, TakeOK
<1>5. ASSUME Orderly PROVE ~dev'.strayed /\ Aligned'
  BY <1>1, <1>2, <1>3, <1>5, NothingOK, TakeAligned
<1>6. faults' \in 0..MaxFaults
  BY <1>1, <1>2, FaultCounted
<1> QED
  BY <1>2, <1>4, <1>5, <1>6, DeviceStep

\* The device waits for data no longer; no session that is in order sees it.
LEMMA StreamTimeoutStep ==
  ASSUME IInv, StreamTimeout
  PROVE  IInv'
<1> DEFINE missing == IF dev.cmd.len > Len(dev.got) THEN dev.cmd.len - Len(dev.got) ELSE 0
           data    == dev.got \o [i \in 1..missing |-> StrayByte]
           d       == [dev EXCEPT !.strayed = @ \/ missing > 0]
<1>1. DevOK(dev) /\ HostOK(host) /\ faults \in 0..MaxFaults /\ (Orderly => Aligned)
  BY InvTypes
<1>2. /\ dev.cmd # NoCmd /\ dev.bank = Empty /\ ~Sending
      /\ dev' = Executed(d, dev.cmd, data, 0)
      /\ host' = host /\ mode' = mode /\ port' = port /\ faults' = faults
  BY DEF StreamTimeout
<1>3. (missing > 0) \in BOOLEAN
  OBVIOUS
<1> HIDE DEF missing, data
<1>4. /\ DOMAIN d = DevFields /\ d.bank = dev.bank /\ d.fw = dev.fw /\ FwOK(dev.fw)
      /\ d.strayed = (dev.strayed \/ missing > 0) /\ CommandOK(dev.cmd)
  BY <1>1 DEF DevOK, DevFields
<1> HIDE DEF d
<1>5. BankOK(d.bank) /\ ~d.bank.full /\ FwOK(d.fw)
  BY <1>2, <1>4, NothingOK
<1>6. d.strayed \in BOOLEAN
  BY <1>4, Zenon
<1>7. DevOK(dev')
  BY <1>2, <1>4, <1>5, <1>6, ExecutedOK
<1>8. ~Orderly
  <2>1. SUFFICES ASSUME Aligned PROVE FALSE
    BY <1>1
  <2>2. ~Midway
    <3>1. host.sent > 0 => host.todo # <<>> /\ Head(host.todo).ep = "out"
      BY <1>1 DEF HostOK
    <3> QED
      BY <1>2, <3>1 DEF Midway, Sending, Now
  <2>3. ~dev.bank.full
    BY <1>2, NothingOK
  <2> QED
    BY <1>2, <2>1, <2>2, <2>3, Zenon DEF Aligned
<1> QED
  BY <1>1, <1>2, <1>7, <1>8, DeviceStep

\* Some of a reply, or all of it, is dropped.
LEMMA DroppedStep ==
  ASSUME IInv, DropReply \/ Late
  PROVE  IInv'
<1>1. DevOK(dev) /\ HostOK(host) /\ faults \in 0..MaxFaults /\ (Orderly => ~dev.strayed /\ Aligned)
  BY InvTypes
<1>2. Listed(dev.reply) /\ Len(dev.reply) \in Nat /\ \A k \in 1..Len(dev.reply): Len(dev.reply[k]) <= PacketSize
  BY <1>1, ListedLen DEF DevOK, Packets
<1>3. /\ host' = host /\ mode' = mode /\ port' = port /\ dev.reply # <<>>
      /\ faults' \in 0..MaxFaults
      /\ \E r: dev' = [dev EXCEPT !.reply = r] /\ Packets(r)
  <2>1. CASE DropReply
    <3>1. dev' = [dev EXCEPT !.reply = <<>>]
      BY <2>1 DEF DropReply
    <3> QED
      BY <1>1, <2>1, <3>1, FewPackets DEF DropReply
  <2>2. CASE Late
    <3>1. PICK k \in 1..Len(dev.reply): dev' = [dev EXCEPT !.reply = SubSeq(@, k + 1, Len(@))]
      BY <2>2 DEF Late
    <3> DEFINE r == SubSeq(dev.reply, k + 1, Len(dev.reply))
    <3>2. /\ Listed(r) /\ Len(r) = Len(dev.reply) - (k + 1) + 1
          /\ \A i \in 1..Len(dev.reply) - (k + 1) + 1: r[i] = dev.reply[k + 1 + i - 1]
      <4> DEFINE n == Len(dev.reply)
      <4>1. k + 1 \in Nat /\ 1 <= k + 1 /\ k + 1 <= n + 1 /\ n \in Nat /\ n <= n
        BY <1>2
      <4> QED
        BY <1>2, <4>1, ListedPart
    <3> HIDE DEF r
    <3>3. \A i \in 1..Len(r): k + 1 + i - 1 \in 1..Len(dev.reply) /\ r[i] = dev.reply[k + 1 + i - 1]
      BY <1>2, <3>2
    <3>4. Packets(r)
      BY <1>2, <3>2, <3>3 DEF Packets
    <3>5. dev.reply # <<>>
      BY <1>2, ListedShort
    <3>6. faults' \in 0..MaxFaults
      BY <1>1, <2>2, FaultCounted DEF Late
    <3>7. dev' = [dev EXCEPT !.reply = r]
      BY <3>1 DEF r
    <3>8. host' = host /\ mode' = mode /\ port' = port
      BY <2>2 DEF Late
    <3> QED
      BY <3>4, <3>5, <3>6, <3>7, <3>8
  <2> QED
    BY <2>1, <2>2
<1>4. PICK r: dev' = [dev EXCEPT !.reply = r] /\ Packets(r)
  BY <1>3
<1>5. /\ DOMAIN dev' = DevFields /\ dev'.bank = dev.bank /\ dev'.cmd = dev.cmd /\ dev'.got = dev.got
      /\ dev'.reply = r /\ dev'.fw = dev.fw /\ dev'.strayed = dev.strayed
  BY <1>1, <1>4 DEF DevOK, DevFields
<1>6. DevOK(dev')
  BY <1>1, <1>3, <1>4, <1>5 DEF DevOK, DevFields
<1>7. ASSUME Orderly PROVE ~dev'.strayed /\ Aligned'
  <2>1. /\ Current' = Current /\ Before' = Before /\ Up' = Up
    BY <1>5 DEF Current, Before, Up
  <2>2. Midway' <=> Midway
    BY <1>3 DEF Midway, PacketsOf, Elements
  <2>3. Complete(Current, Before, Up)' <=> Complete(Current, Before, Up)
    BY <2>1 DEF Complete, TooLong, EndsWithEmpty
  <2>4. Head(host.todo)' = Head(host.todo) /\ host'.sent = host.sent
    BY <1>3
  <2>5. \A k: DataIn(k)' = DataIn(k)
    BY DEF DataIn
  <2> QED
    BY <1>1, <1>5, <1>7, <2>1, <2>2, <2>3, <2>4, <2>5 DEF Aligned
<1> QED
  BY <1>3, <1>6, <1>7, DeviceStep


\* The host as it starts.
LEMMA QuietOK ==
  ASSUME NEW h, DOMAIN h = DOMAIN Quiet, h.made \in 0..MaxJobs, h.good = TRUE, h.todo = <<>>, h.call = NoCall, h.sent = 0
  PROVE  HostOK(h)
<1>1. TodoOK(<<>>)
  BY MovesShort, TodoStarts
<1>2. h.good \in BOOLEAN /\ TodoOK(h.todo) /\ (h.todo = <<>> <=> h.call = NoCall)
  BY <1>1, Zenon
<1>3. h.sent \in Nat /\ ~(h.sent > 0)
  OBVIOUS
<1> QED
  BY <1>2, <1>3, Zenon DEF HostOK

\* The device as it starts.
LEMMA PoweredOK ==
  ASSUME NEW params
  PROVE  /\ DevOK(Powered(params)) /\ Powered(params).cmd = NoCmd /\ Powered(params).bank = Empty
         /\ Powered(params).strayed = FALSE
<1>1. FwOK(Start(params))
  BY DEF FwOK, Start
<1> DEFINE d == Powered(params)
<1>2. /\ DOMAIN d = DevFields /\ d.bank = Empty /\ d.cmd = NoCmd /\ d.got = <<>> /\ d.reply = <<>>
      /\ d.strayed = FALSE /\ d.fw = Start(params)
  BY DEF Powered, DevFields
<1> HIDE DEF d
<1>3. Packets(<<>>) /\ Listed(<<>>)
  BY FewPackets, ListedShort
<1>4. DevOK(d)
  BY <1>1, <1>2, <1>3, NothingOK DEF DevOK, DevFields
<1> QED
  BY <1>2, <1>4 DEF d

\* The program ends, or the device is unplugged.
LEMMA GoneStep ==
  ASSUME IInv, Killed \/ Unplug
  PROVE  IInv'
<1>1. DevOK(dev) /\ HostOK(host) /\ mode \in Modes /\ faults \in 0..MaxFaults
  BY InvTypes
<1>2. port' = "broken" /\ mode' = mode /\ Fault
  BY DEF Killed, Unplug
<1>3. /\ DOMAIN host' = DOMAIN Quiet /\ host'.made = host.made /\ host'.good = TRUE
      /\ host'.todo = <<>> /\ host'.call = NoCall /\ host'.sent = 0 /\ host'.entered = FALSE
      /\ Unplug \/ host'.clean = FALSE
  BY DEF Killed, Unplug, Quiet
<1>4. DevOK(dev')
  <2>1. dev' = dev \/ dev' = Powered(dev.fw.params)
    BY DEF Killed, Unplug
  <2> QED
    BY <1>1, <2>1, PoweredOK
<1>5. HostOK(host')
  BY <1>1, <1>3, QuietOK DEF HostOK
<1>6. HostTypes'
  BY <1>2, <1>3, <1>5 DEF HostTypes
<1>7. ASSUME Orderly' PROVE ~dev'.strayed /\ Aligned'
  <2>1. Unplug
    BY <1>2, <1>3, <1>7, Zenon DEF Orderly, AtRest
  <2>2. dev' = Powered(dev.fw.params)
    BY <2>1 DEF Unplug
  <2>3. dev'.cmd = NoCmd /\ ~dev'.bank.full /\ ~dev'.strayed
    BY <2>2, PoweredOK, NothingOK
  <2>4. ~Midway'
    BY <1>3 DEF Midway
  <2> QED
    BY <2>3, <2>4, Zenon DEF Aligned
<1>8. faults' \in 0..MaxFaults
  BY <1>1, <1>2, FaultCounted
<1> QED
  BY <1>1, <1>2, <1>4, <1>6, <1>7, <1>8, InvParts

\* Nothing happens.
LEMMA NothingHappens ==
  ASSUME IInv, UNCHANGED vars
  PROVE  IInv'
<1>1. DevOK(dev) /\ faults \in 0..MaxFaults /\ (Orderly => ~dev.strayed /\ Aligned)
  BY InvTypes
<1>2. host' = host /\ mode' = mode /\ port' = port /\ dev' = dev /\ faults' = faults
  BY DEF vars
<1>3. Aligned => Aligned'
  BY <1>2 DEF Aligned, Midway, Current, Before, Up, DataIn, Complete, TooLong, EndsWithEmpty, PacketsOf, Elements
<1> QED
  BY <1>1, <1>2, <1>3, DeviceStep

\* At the start the invariant holds.
LEMMA InitInv == Init => IInv
<1> SUFFICES ASSUME Init PROVE IInv
  OBVIOUS
<1>1. /\ mode \in Modes /\ host = Quiet /\ dev = Powered(Defaults) /\ port = "closed" /\ faults = 0
  BY DEF Init
<1>2. /\ host.made = 0 /\ host.good = TRUE /\ host.todo = <<>> /\ host.call = NoCall /\ host.sent = 0
      /\ host.entered = FALSE /\ host.clean = TRUE
  BY <1>1 DEF Quiet
<1>3. 0 \in 0..MaxJobs /\ 0 \in 0..MaxFaults
  BY AvrIspAssumption
<1>4. HostOK(host)
  BY <1>1, <1>2, <1>3, QuietOK
<1>5. DevOK(dev)
  BY <1>1, PoweredOK
<1>6. ~dev.strayed /\ Aligned
  <2>1. dev.cmd = NoCmd /\ ~dev.bank.full /\ ~dev.strayed
    BY <1>1, PoweredOK, NothingOK
  <2>2. ~Midway
    BY <1>2 DEF Midway
  <2> QED
    BY <2>1, <2>2, Zenon DEF Aligned
<1>8. HostTypes
  BY <1>1, <1>2, <1>4 DEF HostTypes
<1>7. TypesOK
  BY <1>1, <1>3, <1>5, <1>8 DEF TypesOK
<1> QED
  BY <1>6, <1>7 DEF IInv, InOrderInv

\* Every step keeps it.
LEMMA NextInv == IInv /\ [Next]_vars => IInv'
<1> SUFFICES ASSUME IInv, [Next]_vars PROVE IInv'
  OBVIOUS
<1>1. CASE Open
  BY <1>1, OpenStep
<1>2. CASE Close
  BY <1>2, CloseStep
<1>3. CASE \E j \in JobsOf(mode.bus): Make(j)
  BY <1>3, MakeStep
<1>4. CASE Usb
  BY <1>4, ConfigureStep, SendPacketStep, WriteDoneStep, ReceivePacketStep DEF Usb
<1>5. CASE TakePacket \/ StreamTimeout \/ DropReply
  BY <1>5, TakePacketStep, StreamTimeoutStep, DroppedStep
<1>6. CASE GiveUp \/ TimesOut \/ Late \/ TargetBusy
  BY <1>6, GiveUpStep, DroppedStep, TargetBusyStep
<1>7. CASE Killed \/ Unplug
  BY <1>7, GoneStep
<1>8. CASE UNCHANGED vars
  BY <1>8, NothingHappens
<1> QED
  BY <1>1, <1>2, <1>3, <1>4, <1>5, <1>6, <1>7, <1>8 DEF Next

\* The invariant holds in every state.
LEMMA SpecInv == Spec => []IInv
BY InitInv, NextInv, PTL DEF Spec

-----------------------------------------------------------------------------
(***************************************************************************)
(* Commands that clock several bytes, one after the other.                 *)
(***************************************************************************)
\* A set of numbers that has zero and with a number its successor has all.
LEMMA Induction ==
  ASSUME NEW T, 0 \in T, \A n \in Nat : n \in T => n + 1 \in T
  PROVE  \A n \in Nat : n \in T
<1>1. IsWellFoundedOn(OpToRel(<, Nat), Nat)
  BY NatLessThanWellFounded
<1> DEFINE R == {ss \in Nat \X Nat : ss[1] < ss[2]}
           Missed == {n \in Nat : n \notin T}
<1>2. OpToRel(<, Nat) = R
  BY DEF OpToRel
<1>3. IsWellFoundedOn(R, Nat)
  BY <1>1, <1>2, Zenon
<1> HIDE DEF R
<1>4. SUFFICES ASSUME Missed # {} PROVE FALSE
  OBVIOUS
<1>5. Missed \subseteq Nat
  OBVIOUS
<1> HIDE DEF Missed
<1>6. PICK x \in Missed : \A y \in Missed : ~(<<y, x>> \in R)
  BY <1>3, <1>4, <1>5, WFMin, Zenon
<1>7. \A y \in Missed : ~(y < x)
  BY <1>5, <1>6 DEF R
<1>8. x \in Nat /\ x # 0 /\ x - 1 \in Nat /\ x - 1 < x
  BY <1>5, <1>6 DEF Missed
<1>9. x - 1 \in T
  BY <1>7, <1>8 DEF Missed
<1>10. (x - 1) + 1 \in T
  BY <1>8, <1>9
<1> QED
  BY <1>6, <1>8, <1>10 DEF Missed

\* The same up to a bound.
LEMMA InductionUpTo ==
  ASSUME NEW T, NEW n \in Nat, 0 \in T, \A i \in 1..n : i - 1 \in T => i \in T
  PROVE  \A i \in 0..n : i \in T
<1> DEFINE Good == {i \in Nat : i <= n => i \in T}
<1>1. 0 \in Good
  OBVIOUS
<1>2. ASSUME NEW i \in Nat, i \in Good PROVE i + 1 \in Good
  <2>1. i + 1 <= n => i + 1 \in 1..n /\ (i + 1) - 1 = i /\ i <= n
    OBVIOUS
  <2> QED
    BY <1>2, <2>1
<1> HIDE DEF Good
<1>3. \A i \in Nat : i \in Good
  BY <1>1, <1>2, Induction
<1> QED
  BY <1>3 DEF Good

MWLeft(c, i) == c.bits - 8 * (i - 1)
MWClock(c, data, p, i) ==
  IF MWLeft(c, i) <= 0 THEN p ELSE mwSendData(p, data[i], IF MWLeft(c, i) < 8 THEN MWLeft(c, i) ELSE 8)
I2CClock(c, p, i) == IF i = c.n THEN i2c_stop(i2c_read_byte(p, "nack")) ELSE i2c_read_byte(p, "ack")
ProgramStep(c, data, fails, n, g, i) ==
  LET h == Writes(g, c, i, data[i]) IN IF fails /\ ~c.paged /\ i = n THEN h ELSE Advance(h, c, i)

\* What the i-th byte does, by the kind of the command.
ClockOf(k, x, i) ==
  CASE k.do = "SPIRead"  -> SPI_TransferByte(x, Sym("read"))
    [] k.do = "SPIWrite" -> SPI_TransferByte(x, k.data[i])
    [] k.do = "I2CRead"  -> I2CClock(k.c, x, i)
    [] k.do = "I2CWrite" -> i2c_send_byte(x, k.data[i])
    [] k.do = "MWRead"   -> mwReadByte(x)
    [] k.do = "MWWrite"  -> MWClock(k.c, k.data, x, i)
    [] k.do = "Reads"    -> Reads(x, k.c, i)
    [] k.do = "Program"  -> ProgramStep(k.c, k.data, k.fails, k.n, x, i)

\* The states after none, one, two, ... of the bytes.
Runs1(k, x, n, h) == h = [i \in 0..n |-> IF i = 0 THEN x ELSE ClockOf(k, h[i - 1], i)]

\* They exist.
LEMMA RunExists ==
  ASSUME NEW k, NEW x, NEW n \in Nat
  PROVE  \E h : Runs1(k, x, n, h)
<1> DEFINE Known == {m \in Nat : \E h : Runs1(k, x, m, h)}
<1>1. 0 \in Known
  <2> DEFINE h == [i \in 0..0 |-> x]
  <2>1. Runs1(k, x, 0, h)
    BY DEF Runs1
  <2> QED
    BY <2>1
<1>2. ASSUME NEW m \in Nat, m \in Known PROVE m + 1 \in Known
  <2>1. PICK h : Runs1(k, x, m, h)
    BY <1>2
  <2> DEFINE e == [i \in 0..m + 1 |-> IF i <= m THEN h[i] ELSE ClockOf(k, h[m], i)]
  <2>2. ASSUME NEW i \in 0..m + 1
        PROVE  e[i] = IF i = 0 THEN x ELSE ClockOf(k, e[i - 1], i)
    <3>1. CASE i <= m
      <4>1. i \in 0..m /\ e[i] = h[i] /\ (i # 0 => e[i - 1] = h[i - 1])
        BY <3>1
      <4>2. h[i] = IF i = 0 THEN x ELSE ClockOf(k, h[i - 1], i)
        BY <2>1, <4>1 DEF Runs1
      <4> QED
        BY <4>1, <4>2
    <3>2. CASE ~(i <= m)
      <4>1. i = m + 1 /\ i # 0 /\ i - 1 = m /\ m \in 0..m + 1 /\ m <= m
        BY <3>2
      <4>2. e[i] = ClockOf(k, h[m], i) /\ e[m] = h[m]
        BY <3>2, <4>1
      <4> QED
        BY <4>1, <4>2
    <3> QED
      BY <3>1, <3>2
  <2>3. e = [i \in 0..m + 1 |-> e[i]]
    OBVIOUS
  <2> HIDE DEF e
  <2>4. Runs1(k, x, m + 1, e)
    BY <2>2, <2>3 DEF Runs1
  <2> QED
    BY <2>4
<1> HIDE DEF Known
<1>3. n \in Known
  BY <1>1, <1>2, Induction
<1> QED
  BY <1>3 DEF Known

\* One state after the other.
LEMMA RunSteps ==
  ASSUME NEW k, NEW x, NEW n \in Nat, NEW h, Runs1(k, x, n, h)
  PROVE  h[0] = x /\ \A i \in 1..n : i - 1 \in 0..n /\ h[i] = ClockOf(k, h[i - 1], i)
<1>1. h[0] = x
  BY DEF Runs1
<1>2. ASSUME NEW i \in 1..n PROVE i - 1 \in 0..n /\ h[i] = ClockOf(k, h[i - 1], i)
  <2>1. i \in 0..n /\ i # 0 /\ i - 1 \in 0..n
    OBVIOUS
  <2> QED
    BY <2>1 DEF Runs1
<1> QED
  BY <1>1, <1>2

\* A read of a 25-series part.
SPIReadRun(f, c, after) ==
  /\ after[0] = SPI_Set_CS(f.pins, "low")
  /\ \A i \in 1..c.n : after[i] = SPI_TransferByte(after[i - 1], Sym("read"))
  /\ SPI_25Read(f, c).fw = On(f, IF after[c.n].hung THEN after[c.n] ELSE RaiseCS(c.cs, after[c.n]))
  /\ SPI_25Read(f, c).reply =
       IF after[c.n].hung THEN <<>>
       ELSE Chunks([i \in 1..c.n |-> MisoPlace(after[i - 1], after[i])], FALSE)

\* It has such states.
LEMMA SPIReadRuns ==
  ASSUME NEW f, NEW c, c.n \in Nat
  PROVE  \E after : SPIReadRun(f, c, after)
<1> DEFINE x == SPI_Set_CS(f.pins, "low")
           k == [do |-> "SPIRead"]
           Body(h) == [i \in 0..c.n |-> IF i = 0 THEN x ELSE SPI_TransferByte(h[i - 1], Sym("read"))]
           after == CHOOSE h : h = Body(h)
           r == SPI_25Read(f, c)
<1>1. \A p, i : ClockOf(k, p, i) = SPI_TransferByte(p, Sym("read"))
  BY DEF ClockOf
<1>2. /\ r.fw = On(f, IF after[c.n].hung THEN after[c.n] ELSE RaiseCS(c.cs, after[c.n]))
      /\ r.reply = IF after[c.n].hung THEN <<>>
                   ELSE Chunks([i \in 1..c.n |-> MisoPlace(after[i - 1], after[i])], FALSE)
  BY DEF SPI_25Read, After
<1> HIDE DEF k, x, r
<1>3. PICK h : Runs1(k, x, c.n, h)
  BY RunExists
<1>4. h = Body(h)
  BY <1>1, <1>3 DEF Runs1
<1>5. after = Body(after)
  <2> HIDE DEF Body
  <2> QED
    BY <1>4, Zenon
<1> HIDE DEF after
<1>6. Runs1(k, x, c.n, after)
  BY <1>1, <1>5 DEF Runs1
<1>7. after[0] = x /\ \A i \in 1..c.n : after[i] = SPI_TransferByte(after[i - 1], Sym("read"))
  <2>1. after[0] = x
    BY <1>6, RunSteps
  <2>2. ASSUME NEW i \in 1..c.n PROVE after[i] = ClockOf(k, after[i - 1], i)
    BY <1>6, RunSteps
  <2> QED
    BY <1>1, <2>1, <2>2
<1>8. SPIReadRun(f, c, after)
  BY <1>2, <1>7 DEF x, r, SPIReadRun
<1> QED
  BY <1>8

\* A write to one.
SPIWriteRun(f, c, data, after) ==
  /\ after[0] = SPI_Set_CS(f.pins, "low")
  /\ \A i \in 1..c.len : after[i] = SPI_TransferByte(after[i - 1], data[i])
  /\ SPI_25Write(f, c, data) =
       Silent(On(f, IF after[c.len].hung THEN after[c.len] ELSE RaiseCS(c.cs, after[c.len])))

\* It has such states.
LEMMA SPIWriteRuns ==
  ASSUME NEW f, NEW c, c.len \in Nat, NEW data
  PROVE  \E after : SPIWriteRun(f, c, data, after)
<1> DEFINE x == SPI_Set_CS(f.pins, "low")
           k == [do |-> "SPIWrite", data |-> data]
           Body(h) == [i \in 0..c.len |-> IF i = 0 THEN x ELSE SPI_TransferByte(h[i - 1], data[i])]
           after == CHOOSE h : h = Body(h)
           r == SPI_25Write(f, c, data)
<1>1. \A p, i : ClockOf(k, p, i) = SPI_TransferByte(p, data[i])
  BY DEF ClockOf
<1>2. r = Silent(On(f, IF after[c.len].hung THEN after[c.len] ELSE RaiseCS(c.cs, after[c.len])))
  BY DEF SPI_25Write, After
<1> HIDE DEF k, x, r
<1>3. PICK h : Runs1(k, x, c.len, h)
  BY RunExists
<1>4. h = Body(h)
  BY <1>1, <1>3 DEF Runs1
<1>5. after = Body(after)
  <2> HIDE DEF Body
  <2> QED
    BY <1>4, Zenon
<1> HIDE DEF after
<1>6. Runs1(k, x, c.len, after)
  BY <1>1, <1>5 DEF Runs1
<1>7. after[0] = x /\ \A i \in 1..c.len : after[i] = SPI_TransferByte(after[i - 1], data[i])
  <2>1. after[0] = x
    BY <1>6, RunSteps
  <2>2. ASSUME NEW i \in 1..c.len PROVE after[i] = ClockOf(k, after[i - 1], i)
    BY <1>6, RunSteps
  <2> QED
    BY <1>1, <2>1, <2>2
<1>8. SPIWriteRun(f, c, data, after)
  BY <1>2, <1>7 DEF x, r, SPIWriteRun
<1> QED
  BY <1>8

\* A read over I2C.
I2CReadRun(f, c, after) ==
  /\ after[0] = i2c_address(i2c_init(f.pins), "R")
  /\ \A i \in 1..c.n : after[i] = I2CClock(c, after[i - 1], i)
  /\ i2c_read(f, c).fw = On(f, after[c.n])
  /\ i2c_read(f, c).reply =
       Chunks([i \in 1..c.n |-> IF after[i].wire = after[i - 1].wire THEN 0
                                ELSE Len(after[i - 1].wire) + 1], FALSE)

\* It has such states.
LEMMA I2CReadRuns ==
  ASSUME NEW f, NEW c, c.n \in Nat
  PROVE  \E after : I2CReadRun(f, c, after)
<1> DEFINE x == i2c_address(i2c_init(f.pins), "R")
           k == [do |-> "I2CRead", c |-> c]
           Body(h) == [i \in 0..c.n |-> IF i = 0 THEN x
                         ELSE IF i = c.n THEN i2c_stop(i2c_read_byte(h[i - 1], "nack")) ELSE i2c_read_byte(h[i - 1], "ack")]
           after == CHOOSE h : h = Body(h)
           r == i2c_read(f, c)
<1>1. \A p, i : ClockOf(k, p, i) = I2CClock(c, p, i)
  BY DEF ClockOf
<1>2. /\ r.fw = On(f, after[c.n])
      /\ r.reply = Chunks([i \in 1..c.n |-> IF after[i].wire = after[i - 1].wire THEN 0
                                            ELSE Len(after[i - 1].wire) + 1], FALSE)
  BY DEF i2c_read, After
<1> HIDE DEF k, x, r
<1>3. PICK h : Runs1(k, x, c.n, h)
  BY RunExists
<1>4. h = Body(h)
  BY <1>1, <1>3 DEF Runs1, I2CClock
<1>5. after = Body(after)
  <2> HIDE DEF Body
  <2> QED
    BY <1>4, Zenon
<1> HIDE DEF after
<1>6. Runs1(k, x, c.n, after)
  BY <1>1, <1>5 DEF Runs1, I2CClock
<1>7. after[0] = x /\ \A i \in 1..c.n : after[i] = I2CClock(c, after[i - 1], i)
  <2>1. after[0] = x
    BY <1>6, RunSteps
  <2>2. ASSUME NEW i \in 1..c.n PROVE after[i] = ClockOf(k, after[i - 1], i)
    BY <1>6, RunSteps
  <2> QED
    BY <1>1, <2>1, <2>2
<1>8. I2CReadRun(f, c, after)
  BY <1>2, <1>7 DEF x, r, I2CReadRun
<1> QED
  BY <1>8

\* A write over I2C.
I2CWriteRun(f, c, data, after) ==
  /\ after[0] = i2c_address(i2c_start(i2c_init(f.pins)), "W")
  /\ \A i \in 1..c.len : after[i] = i2c_send_byte(after[i - 1], data[i])
  /\ i2c_write(f, c, data) =
       Silent(On(f, IF c.stop = 1 THEN i2c_stop(after[c.len]) ELSE i2c_start(after[c.len])))

\* It has such states.
LEMMA I2CWriteRuns ==
  ASSUME NEW f, NEW c, c.len \in Nat, NEW data
  PROVE  \E after : I2CWriteRun(f, c, data, after)
<1> DEFINE x == i2c_address(i2c_start(i2c_init(f.pins)), "W")
           k == [do |-> "I2CWrite", data |-> data]
           Body(h) == [i \in 0..c.len |-> IF i = 0 THEN x ELSE i2c_send_byte(h[i - 1], data[i])]
           after == CHOOSE h : h = Body(h)
           r == i2c_write(f, c, data)
<1>1. \A p, i : ClockOf(k, p, i) = i2c_send_byte(p, data[i])
  BY DEF ClockOf
<1>2. r = Silent(On(f, IF c.stop = 1 THEN i2c_stop(after[c.len]) ELSE i2c_start(after[c.len])))
  BY DEF i2c_write, After
<1> HIDE DEF k, x, r
<1>3. PICK h : Runs1(k, x, c.len, h)
  BY RunExists
<1>4. h = Body(h)
  BY <1>1, <1>3 DEF Runs1
<1>5. after = Body(after)
  <2> HIDE DEF Body
  <2> QED
    BY <1>4, Zenon
<1> HIDE DEF after
<1>6. Runs1(k, x, c.len, after)
  BY <1>1, <1>5 DEF Runs1
<1>7. after[0] = x /\ \A i \in 1..c.len : after[i] = i2c_send_byte(after[i - 1], data[i])
  <2>1. after[0] = x
    BY <1>6, RunSteps
  <2>2. ASSUME NEW i \in 1..c.len PROVE after[i] = ClockOf(k, after[i - 1], i)
    BY <1>6, RunSteps
  <2> QED
    BY <1>1, <2>1, <2>2
<1>8. I2CWriteRun(f, c, data, after)
  BY <1>2, <1>7 DEF x, r, I2CWriteRun
<1> QED
  BY <1>8

\* A read of a Microwire part.
MWReadRun(f, c, after) ==
  /\ after[0] = f.pins
  /\ \A i \in 1..c.n : after[i] = mwReadByte(after[i - 1])
  /\ mw_read(f, c).fw = On(f, IF c.cs = 1 THEN mwEnd(after[c.n]) ELSE after[c.n])
  /\ mw_read(f, c).reply =
       Chunks(IF c.n = 0 THEN <<0>> ELSE [i \in 1..c.n |-> MisoPlace(after[i - 1], after[i])], FALSE)

\* It has such states.
LEMMA MWReadRuns ==
  ASSUME NEW f, NEW c, c.n \in Nat
  PROVE  \E after : MWReadRun(f, c, after)
<1> DEFINE x == f.pins
           k == [do |-> "MWRead"]
           Body(h) == [i \in 0..c.n |-> IF i = 0 THEN x ELSE mwReadByte(h[i - 1])]
           after == CHOOSE h : h = Body(h)
           r == mw_read(f, c)
<1>1. \A p, i : ClockOf(k, p, i) = mwReadByte(p)
  BY DEF ClockOf
<1>2. /\ r.fw = On(f, IF c.cs = 1 THEN mwEnd(after[c.n]) ELSE after[c.n])
      /\ r.reply = Chunks(IF c.n = 0 THEN <<0>> ELSE [i \in 1..c.n |-> MisoPlace(after[i - 1], after[i])], FALSE)
  BY DEF mw_read, After
<1> HIDE DEF k, x, r
<1>3. PICK h : Runs1(k, x, c.n, h)
  BY RunExists
<1>4. h = Body(h)
  BY <1>1, <1>3 DEF Runs1
<1>5. after = Body(after)
  <2> HIDE DEF Body
  <2> QED
    BY <1>4, Zenon
<1> HIDE DEF after
<1>6. Runs1(k, x, c.n, after)
  BY <1>1, <1>5 DEF Runs1
<1>7. after[0] = x /\ \A i \in 1..c.n : after[i] = mwReadByte(after[i - 1])
  <2>1. after[0] = x
    BY <1>6, RunSteps
  <2>2. ASSUME NEW i \in 1..c.n PROVE after[i] = ClockOf(k, after[i - 1], i)
    BY <1>6, RunSteps
  <2> QED
    BY <1>1, <2>1, <2>2
<1>8. MWReadRun(f, c, after)
  BY <1>2, <1>7 DEF x, r, MWReadRun
<1> QED
  BY <1>8

\* A write to one.
MWWriteRun(f, c, data, after) ==
  /\ after[0] = [f.pins EXCEPT !.cs = "high"]
  /\ \A i \in 1..c.len : after[i] = MWClock(c, data, after[i - 1], i)
  /\ mw_write(f, c, data) = Silent(On(f, IF c.cs = 1 THEN mwEnd(after[c.len]) ELSE after[c.len]))

\* It has such states.
LEMMA MWWriteRuns ==
  ASSUME NEW f, NEW c, c.len \in Nat, NEW data
  PROVE  \E after : MWWriteRun(f, c, data, after)
<1> DEFINE x == [f.pins EXCEPT !.cs = "high"]
           k == [do |-> "MWWrite", c |-> c, data |-> data]
           Of(i) == c.bits - 8 * (i - 1)
           Clock(p, i) == IF Of(i) <= 0 THEN p ELSE mwSendData(p, data[i], IF Of(i) < 8 THEN Of(i) ELSE 8)
           Body(h) == [i \in 0..c.len |-> IF i = 0 THEN x ELSE Clock(h[i - 1], i)]
           after == CHOOSE h : h = Body(h)
           r == mw_write(f, c, data)
<1>1. \A p, i : ClockOf(k, p, i) = MWClock(c, data, p, i) /\ Clock(p, i) = MWClock(c, data, p, i)
  BY DEF ClockOf, MWClock, MWLeft
<1>2. r = Silent(On(f, IF c.cs = 1 THEN mwEnd(after[c.len]) ELSE after[c.len]))
  BY Zenon DEF mw_write, After
<1> HIDE DEF k, x, r, Clock
<1>3. PICK h : Runs1(k, x, c.len, h)
  BY RunExists
<1>4. h = Body(h)
  BY <1>1, <1>3 DEF Runs1
<1>5. after = Body(after)
  <2> HIDE DEF Body
  <2> QED
    BY <1>4, Zenon
<1> HIDE DEF after
<1>6. Runs1(k, x, c.len, after)
  BY <1>1, <1>5 DEF Runs1
<1>7. after[0] = x /\ \A i \in 1..c.len : after[i] = MWClock(c, data, after[i - 1], i)
  <2>1. after[0] = x
    BY <1>6, RunSteps
  <2>2. ASSUME NEW i \in 1..c.len PROVE after[i] = ClockOf(k, after[i - 1], i)
    BY <1>6, RunSteps
  <2> QED
    BY <1>1, <2>1, <2>2
<1>8. MWWriteRun(f, c, data, after)
  BY <1>2, <1>7 DEF x, r, MWWriteRun
<1> QED
  BY <1>8

\* A read of the memory of an AVR.
MemoryReadRun(f, c, after) ==
  /\ after[0] = f
  /\ \A i \in 1..c.n : after[i] = Reads(after[i - 1], c, i)
  /\ ReadMemory(f, c).fw = Moved(f, after[c.n])

\* It has such states.
LEMMA MemoryReadRuns ==
  ASSUME NEW f, NEW c, c.n \in Nat
  PROVE  \E after : MemoryReadRun(f, c, after)
<1> DEFINE k == [do |-> "Reads", c |-> c]
           Body(h) == [i \in 0..c.n |-> IF i = 0 THEN f ELSE Reads(h[i - 1], c, i)]
           after == CHOOSE h : h = Body(h)
           done == Moved(f, after[c.n])
           r == ReadMemory(f, c)
<1>1. \A p, i : ClockOf(k, p, i) = Reads(p, c, i)
  BY DEF ClockOf
<1>2. r.fw = done
  <2> DEFINE reply == Chunks(<<STATUS_CMD_OK>>
                             \o [i \in 1..c.n |-> Place(after[i - 1].pins, after[i].pins)]
                             \o <<STATUS_CMD_OK>>, TRUE)
  <2>1. r = IF done.pins.hung THEN Silent(done) ELSE [fw |-> done, reply |-> reply]
    BY Zenon DEF ReadMemory, After
  <2> HIDE DEF done, reply, r
  <2> QED
    BY <2>1 DEF Silent
<1> HIDE DEF k, r
<1>3. PICK h : Runs1(k, f, c.n, h)
  BY RunExists
<1>4. h = Body(h)
  BY <1>1, <1>3 DEF Runs1
<1>5. after = Body(after)
  <2> HIDE DEF Body
  <2> QED
    BY <1>4, Zenon
<1> HIDE DEF after
<1>6. Runs1(k, f, c.n, after)
  BY <1>1, <1>5 DEF Runs1
<1>7. after[0] = f /\ \A i \in 1..c.n : after[i] = Reads(after[i - 1], c, i)
  <2>1. after[0] = f
    BY <1>6, RunSteps
  <2>2. ASSUME NEW i \in 1..c.n PROVE after[i] = ClockOf(k, after[i - 1], i)
    BY <1>6, RunSteps
  <2> QED
    BY <1>1, <2>1, <2>2
<1>8. MemoryReadRun(f, c, after)
  BY <1>2, <1>7 DEF r, MemoryReadRun
<1> QED
  BY <1>8

\* Programming it.
Fails(c, stuck) == c.polled /\ stuck > 0
StepsOf(c, stuck) == IF Fails(c, stuck) /\ ~c.paged THEN stuck ELSE c.len
ProgramRun(f, c, data, stuck, after) ==
  LET n == StepsOf(c, stuck)
  IN  /\ after[0] = f
      /\ \A i \in 1..n : after[i] = ProgramStep(c, data, Fails(c, stuck), n, after[i - 1], i)
      /\ ProgramMemory(f, c, data, stuck).fw.pins = Moved(f, Commit(after[n], c, f.addr)).pins

\* It has such states.
LEMMA ProgramRuns ==
  ASSUME NEW f, NEW c, c.len \in Nat, NEW data, NEW stuck \in Nat
  PROVE  \E after : ProgramRun(f, c, data, stuck, after)
<1> DEFINE fails == c.polled /\ stuck > 0
           n     == IF fails /\ ~c.paged THEN stuck ELSE c.len
           k == [do |-> "Program", c |-> c, data |-> data, fails |-> fails, n |-> n]
           Stp(g, i) == LET h == Writes(g, c, i, data[i]) IN IF fails /\ ~c.paged /\ i = n THEN h ELSE Advance(h, c, i)
           Body(h) == [i \in 0..n |-> IF i = 0 THEN f ELSE Stp(h[i - 1], i)]
           after == CHOOSE h : h = Body(h)
           done == Moved(f, Commit(after[n], c, f.addr))
           loads == c.commit /\ Flash(c) /\ done.addr % SegWords = 0
           bad   == fails /\ (c.paged => c.commit)
           r == ProgramMemory(f, c, data, stuck)
<1>0. n \in Nat
  OBVIOUS
<1>2. r.fw.pins = done.pins
  <2>1. r = IF done.pins.hung THEN Silent(done)
            ELSE Answer([done EXCEPT !.mustLoad = @ \/ loads], <<IF bad THEN STATUS_RDY_BSY_TOUT ELSE STATUS_CMD_OK>>)
    BY Zenon DEF ProgramMemory, After
  <2> HIDE DEF done, loads, bad, r
  <2>2. [done EXCEPT !.mustLoad = @ \/ loads].pins = done.pins
    OBVIOUS
  <2> QED
    BY <2>1, <2>2 DEF Silent, Answer
<1> HIDE DEF fails
<1>1. \A p, i : ClockOf(k, p, i) = ProgramStep(c, data, fails, n, p, i) /\ Stp(p, i) = ProgramStep(c, data, fails, n, p, i)
  BY DEF ClockOf, ProgramStep
<1> HIDE DEF k, r, n, Stp
<1>3. PICK h : Runs1(k, f, n, h)
  BY <1>0, RunExists
<1>4. h = Body(h)
  BY <1>1, <1>3 DEF Runs1
<1>5. after = Body(after)
  <2> HIDE DEF Body
  <2> QED
    BY <1>4, Zenon
<1> HIDE DEF after
<1>6. Runs1(k, f, n, after)
  BY <1>1, <1>5 DEF Runs1
<1>7. after[0] = f /\ \A i \in 1..n : after[i] = ProgramStep(c, data, fails, n, after[i - 1], i)
  <2>1. after[0] = f
    BY <1>0, <1>6, RunSteps
  <2>2. ASSUME NEW i \in 1..n PROVE after[i] = ClockOf(k, after[i - 1], i)
    BY <1>0, <1>6, RunSteps
  <2> QED
    BY <1>1, <2>1, <2>2
<1>8. fails = Fails(c, stuck) /\ n = StepsOf(c, stuck)
  BY DEF n, fails, Fails, StepsOf
<1>9. ProgramRun(f, c, data, stuck, after)
  BY <1>2, <1>7, <1>8 DEF r, ProgramRun
<1> QED
  BY <1>9

-----------------------------------------------------------------------------
(***************************************************************************)
(* Who pulls SDA low.  Only I2C commands do, and only those that end with  *)
(* the line taken: a start, a write without a stop, an acknowledge.        *)
(***************************************************************************)
PinsOK(p) == DOMAIN p = DOMAIN PowerUp

\* SDA is not pulled low where it was not before.
KeepsSda(p, q) == PinsOK(q) /\ (q.sdaLow => p.sdaLow)

\* What keeps it does so step by step.
LEMMA KeepsOn ==
  /\ \A p: PinsOK(p) => KeepsSda(p, p)
  /\ \A p, q, r: KeepsSda(p, q) /\ KeepsSda(q, r) => KeepsSda(p, r)
BY Zenon DEF KeepsSda

\* The SPI and Microwire code never pulls it low.
LEMMA PinsKeep ==
  ASSUME NEW p, PinsOK(p)
  PROVE  /\ \A s: KeepsSda(p, See(p, s)) /\ KeepsSda(p, MWSee(p, s)) /\ KeepsSda(p, SPI_TransferByte(p, s))
                  /\ KeepsSda(p, Instruct(p, s))
         /\ \A level: KeepsSda(p, SPI_Set_CS(p, level)) /\ KeepsSda(p, [p EXCEPT !.cs = level])
                      /\ KeepsSda(p, Reset(p, level))
         /\ \A n: KeepsSda(p, EnableTargetISP(p, n)) /\ KeepsSda(p, LoadExtendedAddress(p, n))
         /\ \A b: KeepsSda(p, Fresh(p, b))
         /\ KeepsSda(p, DisableTargetISP(p)) /\ KeepsSda(p, mwInit(p)) /\ KeepsSda(p, mwEnd(p))
         /\ KeepsSda(p, mwBusy(p))
<1> DEFINE F == DOMAIN PowerUp
<1>1. ASSUME NEW q, PinsOK(q)
      PROVE  /\ \A w: KeepsSda(q, [q EXCEPT !.wire = w])
             /\ \A level: KeepsSda(q, [q EXCEPT !.cs = level])
             /\ \A b: KeepsSda(q, [q EXCEPT !.hung = b]) /\ KeepsSda(q, [q EXCEPT !.out = b])
                      /\ KeepsSda(q, [q EXCEPT !.spi = b, !.out = b])
             /\ \A b, n: KeepsSda(q, [q EXCEPT !.hw = b, !.speed = n]) 
             /\ \A level, b, n: KeepsSda(q, [q EXCEPT !.cs = level, !.prog = b, !.ext = n])
             /\ \A n, w: KeepsSda(q, [q EXCEPT !.ext = n, !.wire = w])
             /\ KeepsSda(q, [q EXCEPT !.spi = TRUE, !.out = TRUE, !.sdaLow = FALSE])
             /\ KeepsSda(q, q)
  BY <1>1 DEF PinsOK, KeepsSda, PowerUp
<1>2. ASSUME NEW q, PinsOK(q), NEW s PROVE KeepsSda(q, See(q, s))
  BY <1>1, <1>2 DEF See
<1>3. ASSUME NEW s
      PROVE  /\ KeepsSda(p, MWSee(p, s)) /\ KeepsSda(p, SPI_TransferByte(p, s)) /\ KeepsSda(p, Instruct(p, s))
  <2>1. KeepsSda(p, See(p, s)) /\ KeepsSda(p, p) /\ KeepsSda(p, [p EXCEPT !.hung = TRUE])
    BY <1>1, <1>2
  <2> QED
    BY <2>1, Zenon DEF MWSee, SPI_TransferByte, Instruct
<1>4. ASSUME NEW level PROVE KeepsSda(p, SPI_Set_CS(p, level)) /\ KeepsSda(p, Reset(p, level))
  <2> DEFINE q == [p EXCEPT !.cs = level]
  <2>1. KeepsSda(p, q)
    BY <1>1
  <2>2. PinsOK(q)
    BY <2>1 DEF KeepsSda
  <2>3. KeepsSda(p, See(q, Sym("end")))
    BY <1>2, <2>1, <2>2, KeepsOn
  <2>4. KeepsSda(p, SPI_Set_CS(p, level))
    BY <2>1, <2>3, Zenon DEF SPI_Set_CS
  <2>5. KeepsSda(p, Reset(p, level))
    <3> DEFINE b == p.prog /\ level = "low"
               n == IF level = "low" THEN p.ext ELSE 0
    <3>1. Reset(p, level) = [p EXCEPT !.cs = level, !.prog = b, !.ext = n]
      BY DEF Reset
    <3> HIDE DEF b, n
    <3>2. KeepsSda(p, [p EXCEPT !.cs = level, !.prog = b, !.ext = n])
      BY DEF PinsOK, KeepsSda, PowerUp
    <3> QED
      BY <3>1, <3>2
  <2> QED
    BY <2>4, <2>5
<1>5. ASSUME NEW n PROVE KeepsSda(p, EnableTargetISP(p, n)) /\ KeepsSda(p, LoadExtendedAddress(p, n))
  <2>1. KeepsSda(p, EnableTargetISP(p, n))
    <3> DEFINE b == n < HardwareSpeeds
               q == [p EXCEPT !.hw = b, !.speed = n]
    <3>1. EnableTargetISP(p, n) \in {SPI_Init(q), [q EXCEPT !.out = TRUE]}
      BY Zenon DEF EnableTargetISP
    <3> HIDE DEF b
    <3>2. KeepsSda(p, q)
      BY <1>1
    <3> HIDE DEF q
    <3>3. KeepsSda(q, SPI_Init(q)) /\ KeepsSda(q, [q EXCEPT !.out = TRUE])
      BY <1>1, <3>2 DEF SPI_Init, KeepsSda
    <3>4. KeepsSda(p, SPI_Init(q)) /\ KeepsSda(p, [q EXCEPT !.out = TRUE])
      BY <3>2, <3>3, KeepsOn
    <3> QED
      BY <3>1, <3>4
  <2>2. KeepsSda(p, LoadExtendedAddress(p, n))
    <3> DEFINE q == Instruct(p, Sym("extended"))
    <3>1. KeepsSda(p, q)
      BY <1>3
    <3>2. LoadExtendedAddress(p, n) \in {q, [q EXCEPT !.ext = n \div SegWords, !.wire = p.wire]}
      BY Zenon DEF LoadExtendedAddress
    <3> HIDE DEF q
    <3>3. KeepsSda(q, [q EXCEPT !.ext = n \div SegWords, !.wire = p.wire])
      BY <1>1, <3>1 DEF KeepsSda
    <3> QED
      BY <3>1, <3>2, <3>3, KeepsOn
  <2> QED
    BY <2>1, <2>2
<1>6. KeepsSda(p, DisableTargetISP(p)) /\ KeepsSda(p, SPI_Disable(p))
  BY <1>1, Zenon DEF DisableTargetISP, SPI_Disable
<1>7. KeepsSda(p, mwInit(p))
  <2> DEFINE q == SPI_Disable(p)
  <2>1. KeepsSda(p, q) /\ mwInit(p) = [q EXCEPT !.out = TRUE]
    BY <1>6 DEF mwInit
  <2> HIDE DEF q
  <2>2. KeepsSda(q, [q EXCEPT !.out = TRUE])
    BY <1>1, <2>1 DEF KeepsSda
  <2> QED
    BY <2>1, <2>2, KeepsOn
<1>8. KeepsSda(p, mwEnd(p)) /\ KeepsSda(p, mwBusy(p))
  <2> DEFINE q == [p EXCEPT !.cs = "low"]
             h == [p EXCEPT !.cs = "high"]
             m == MWSee(h, Sym("busy"))
  <2>1. KeepsSda(p, q) /\ KeepsSda(p, h)
    BY <1>1
  <2>2. mwEnd(p) \in {q, See(q, Sym("end"))} /\ mwBusy(p) = [m EXCEPT !.cs = "low"]
    BY Zenon DEF mwEnd, mwBusy
  <2>5. m \in {h, See(h, Sym("busy"))}
    BY Zenon DEF MWSee
  <2> HIDE DEF q, h, m
  <2>3. KeepsSda(q, See(q, Sym("end"))) /\ KeepsSda(h, See(h, Sym("busy"))) /\ KeepsSda(h, h)
    BY <1>1, <1>2, <2>1 DEF KeepsSda
  <2>4. KeepsSda(p, mwEnd(p))
    BY <2>1, <2>2, <2>3, KeepsOn
  <2>6. KeepsSda(p, m)
    BY <2>1, <2>3, <2>5, KeepsOn
  <2>7. KeepsSda(m, [m EXCEPT !.cs = "low"])
    BY <1>1, <2>6 DEF KeepsSda
  <2> QED
    BY <2>2, <2>4, <2>6, <2>7, KeepsOn
<1>9. ASSUME NEW b PROVE KeepsSda(p, Fresh(p, b))
  <2> DEFINE w == IF b THEN <<>> ELSE <<Sym("stale")>>
  <2>1. Fresh(p, b) = [p EXCEPT !.wire = w]
    BY DEF Fresh
  <2> HIDE DEF w
  <2>2. KeepsSda(p, [p EXCEPT !.wire = w])
    BY DEF PinsOK, KeepsSda, PowerUp
  <2> QED
    BY <2>1, <2>2
<1> QED
  BY <1>1, <1>2, <1>3, <1>4, <1>5, <1>6, <1>7, <1>8, <1>9

\* The I2C code leaves it as the command says.
LEMMA PinsI2C ==
  ASSUME NEW p, PinsOK(p)
  PROVE  /\ PinsOK(i2c_init(p)) /\ ~i2c_init(p).sdaLow
         /\ PinsOK(i2c_start(p))
         /\ PinsOK(i2c_stop(p)) /\ ~i2c_stop(p).sdaLow
         /\ \A s: PinsOK(i2c_send_byte(p, s)) /\ ~i2c_send_byte(p, s).sdaLow
         /\ \A ack: PinsOK(i2c_read_byte(p, ack)) /\ (i2c_read_byte(p, ack).sdaLow => ack = "ack")
<1>1. ASSUME NEW q, PinsOK(q), NEW s PROVE KeepsSda(q, I2CSee(q, s))
  BY <1>1, PinsKeep, KeepsOn, Zenon DEF I2CSee
<1>2. ASSUME NEW q, PinsOK(q), NEW b
      PROVE  PinsOK([q EXCEPT !.sdaLow = b]) /\ [q EXCEPT !.sdaLow = b].sdaLow = b
  BY <1>2 DEF PinsOK, PowerUp
<1>3. \A s: PinsOK(I2CSee(p, s))
  BY <1>1 DEF KeepsSda
<1>4. PinsOK(i2c_init(p)) /\ ~i2c_init(p).sdaLow
  <2> DEFINE q == [p EXCEPT !.sdaLow = FALSE, !.out = FALSE]
  <2>1. i2c_init(p) \in {q, I2CSee(q, Sym("P"))}
    BY Zenon DEF i2c_init
  <2>2. PinsOK(q) /\ ~q.sdaLow
    BY DEF PinsOK, PowerUp
  <2> HIDE DEF q
  <2>3. PinsOK(I2CSee(q, Sym("P"))) /\ ~I2CSee(q, Sym("P")).sdaLow
    BY <1>1, <2>2, Zenon DEF KeepsSda
  <2> QED
    BY <2>1, <2>2, <2>3
<1>5. PinsOK(i2c_start(p))
  BY <1>2, <1>3 DEF i2c_start
<1>6. PinsOK(i2c_stop(p)) /\ ~i2c_stop(p).sdaLow
  <2> DEFINE q == I2CSee(p, Sym("P"))
  <2>1. i2c_stop(p) = [q EXCEPT !.sdaLow = FALSE] /\ PinsOK(q)
    BY <1>3 DEF i2c_stop
  <2> HIDE DEF q
  <2> QED
    BY <2>1 DEF PinsOK, PowerUp
<1>7. ASSUME NEW s PROVE PinsOK(i2c_send_byte(p, s)) /\ ~i2c_send_byte(p, s).sdaLow
  <2> DEFINE q == I2CSee(p, s)
  <2>1. i2c_send_byte(p, s) = [q EXCEPT !.sdaLow = FALSE] /\ PinsOK(q)
    BY <1>3 DEF i2c_send_byte
  <2> HIDE DEF q
  <2> QED
    BY <2>1 DEF PinsOK, PowerUp
<1>8. ASSUME NEW ack PROVE PinsOK(i2c_read_byte(p, ack)) /\ (i2c_read_byte(p, ack).sdaLow => ack = "ack")
  <2> DEFINE q == I2CSee(p, Sym(ack))
             b == ack = "ack"
  <2>1. i2c_read_byte(p, ack) = [q EXCEPT !.sdaLow = b] /\ PinsOK(q)
    BY <1>3 DEF i2c_read_byte
  <2>2. b \in BOOLEAN
    OBVIOUS
  <2> HIDE DEF q, b
  <2>3. PinsOK(i2c_read_byte(p, ack)) /\ (i2c_read_byte(p, ack).sdaLow => b)
    BY <2>1, <2>2 DEF PinsOK, PowerUp
  <2> QED
    BY <2>3 DEF b
<1> QED
  BY <1>4, <1>5, <1>6, <1>7, <1>8

I2CCommands ==
  {"I2C_INIT", "I2C_START", "I2C_STOP", "I2C_READBYTE", "I2C_WRITEBYTE", "I2C_READ", "I2C_WRITE"}

\* A command after which SDA may be low, and one after which it is not.
Pulls(c) ==
  \/ c.cmd = "I2C_START"
  \/ c.cmd = "I2C_READBYTE" /\ c.ack = "ack"
  \/ c.cmd = "I2C_WRITE" /\ c.stop # 1

\* Whether it may be low after command c, when sda says so of before.
SdaAfter(c, sda) == IF c.cmd \in I2CCommands THEN Pulls(c) ELSE sda

\* What a session ends with.
Leaves == {"LEAVE_SPI25", "LEAVE_ISP"}
Released(p) == ~p.out /\ p.cs = "float" /\ ~p.sdaLow /\ ~p.prog

\* The I2C commands that clock several bytes.
LEMMA I2CRunPins ==
  ASSUME NEW f, FwOK(f), PinsOK(f.pins), NEW c, NEW data
  PROVE  /\ c.n \in Nat => PinsOK(i2c_read(f, c).fw.pins) /\ ~i2c_read(f, c).fw.pins.sdaLow
         /\ c.len \in Nat => /\ PinsOK(i2c_write(f, c, data).fw.pins)
                             /\ i2c_write(f, c, data).fw.pins.sdaLow => c.stop # 1
<1>1. \A p: On(f, p).pins = p
  BY DEF On, FwOK
<1>2. ASSUME c.n \in Nat PROVE PinsOK(i2c_read(f, c).fw.pins) /\ ~i2c_read(f, c).fw.pins.sdaLow
  <2>0. PICK after : I2CReadRun(f, c, after)
    BY <1>2, I2CReadRuns
  <2>1. /\ after[0] = i2c_address(i2c_init(f.pins), "R")
        /\ \A i \in 1..c.n : after[i] = I2CClock(c, after[i - 1], i)
        /\ i2c_read(f, c).fw = On(f, after[c.n])
    BY <2>0 DEF I2CReadRun
  <2> DEFINE T == {i \in 0..c.n : PinsOK(after[i]) /\ (i = c.n => ~after[i].sdaLow)}
  <2>2. 0 \in T
    <3>1. PinsOK(after[0]) /\ ~after[0].sdaLow
      BY <2>1, PinsI2C DEF i2c_address
    <3> QED
      BY <1>2, <3>1
  <2>3. ASSUME NEW i \in 1..c.n, i - 1 \in T PROVE i \in T
    <3>1. PinsOK(after[i - 1]) /\ after[i] = I2CClock(c, after[i - 1], i)
      BY <2>1, <2>3
    <3> DEFINE q == after[i - 1]
    <3> HIDE DEF q
    <3>2. PinsOK(q) /\ after[i] = I2CClock(c, q, i)
      BY <3>1 DEF q
    <3>3. PinsOK(i2c_read_byte(q, "nack")) /\ PinsOK(i2c_read_byte(q, "ack"))
      BY <3>2, PinsI2C
    <3>4. PinsOK(i2c_stop(i2c_read_byte(q, "nack"))) /\ ~i2c_stop(i2c_read_byte(q, "nack")).sdaLow
      BY <3>3, PinsI2C
    <3>5. PinsOK(after[i]) /\ (i = c.n => ~after[i].sdaLow)
      BY <3>2, <3>3, <3>4 DEF I2CClock
    <3> QED
      BY <1>2, <3>5
  <2>4. \A i \in 0..c.n : i \in T
    <3> HIDE DEF T
    <3> QED
      BY <1>2, <2>2, <2>3, InductionUpTo
  <2>5. c.n \in T
    BY <1>2, <2>4
  <2> QED
    BY <1>1, <2>1, <2>5
<1>3. ASSUME c.len \in Nat
      PROVE  /\ PinsOK(i2c_write(f, c, data).fw.pins)
             /\ i2c_write(f, c, data).fw.pins.sdaLow => c.stop # 1
  <2>0. PICK after : I2CWriteRun(f, c, data, after)
    BY <1>3, I2CWriteRuns
  <2>1. /\ after[0] = i2c_address(i2c_start(i2c_init(f.pins)), "W")
        /\ \A i \in 1..c.len : after[i] = i2c_send_byte(after[i - 1], data[i])
        /\ i2c_write(f, c, data) =
             Silent(On(f, IF c.stop = 1 THEN i2c_stop(after[c.len]) ELSE i2c_start(after[c.len])))
    BY <2>0 DEF I2CWriteRun
  <2> DEFINE T == {i \in 0..c.len : PinsOK(after[i])}
  <2>2. 0 \in T
    <3>1. PinsOK(after[0])
      BY <2>1, PinsI2C DEF i2c_address
    <3> QED
      BY <1>3, <3>1
  <2>3. ASSUME NEW i \in 1..c.len, i - 1 \in T PROVE i \in T
    <3>1. PinsOK(after[i - 1]) /\ after[i] = i2c_send_byte(after[i - 1], data[i])
      BY <2>1, <2>3
    <3>2. PinsOK(after[i])
      BY <3>1, PinsI2C
    <3> QED
      BY <1>3, <3>2
  <2>4. \A i \in 0..c.len : i \in T
    <3> HIDE DEF T
    <3> QED
      BY <1>3, <2>2, <2>3, InductionUpTo
  <2> DEFINE p == after[c.len]
             q == IF c.stop = 1 THEN i2c_stop(p) ELSE i2c_start(p)
  <2>5. PinsOK(p)
    BY <1>3, <2>4
  <2>6. i2c_write(f, c, data).fw.pins = q
    BY <1>1, <2>1 DEF Silent
  <2> HIDE DEF p
  <2>7. PinsOK(q) /\ (c.stop = 1 => ~q.sdaLow)
    BY <2>5, PinsI2C
  <2> HIDE DEF q
  <2> QED
    BY <2>6, <2>7
<1> QED
  BY <1>2, <1>3

\* The other commands that clock several bytes.
LEMMA RunsKeep ==
  ASSUME NEW f, FwOK(f), PinsOK(f.pins), NEW c, NEW data
  PROVE  /\ c.n \in Nat => /\ KeepsSda(f.pins, SPI_25Read(f, c).fw.pins)
                           /\ KeepsSda(f.pins, mw_read(f, c).fw.pins)
         /\ c.len \in Nat => /\ KeepsSda(f.pins, SPI_25Write(f, c, data).fw.pins)
                             /\ KeepsSda(f.pins, mw_write(f, c, data).fw.pins)
<1>1. \A p: On(f, p).pins = p /\ Silent(On(f, p)).fw.pins = p
  BY DEF On, FwOK, Silent
<1>2. \A p, q: KeepsSda(p, q) => PinsOK(q)
  BY DEF KeepsSda
<1>3. ASSUME NEW p, KeepsSda(f.pins, p), NEW cs
      PROVE  KeepsSda(f.pins, IF p.hung THEN p ELSE RaiseCS(cs, p)) /\ KeepsSda(f.pins, IF cs = 1 THEN mwEnd(p) ELSE p)
  <2>1. KeepsSda(p, SPI_Set_CS(p, "high")) /\ KeepsSda(p, mwEnd(p))
    BY <1>2, <1>3, PinsKeep
  <2>2. KeepsSda(f.pins, SPI_Set_CS(p, "high")) /\ KeepsSda(f.pins, mwEnd(p))
    BY <1>3, <2>1, KeepsOn
  <2> QED
    BY <1>3, <2>2, Zenon DEF RaiseCS
<1>4. ASSUME c.n \in Nat PROVE KeepsSda(f.pins, SPI_25Read(f, c).fw.pins)
  <2>1. PICK after : SPIReadRun(f, c, after)
    BY <1>4, SPIReadRuns
  <2>2. /\ after[0] = SPI_Set_CS(f.pins, "low")
        /\ \A i \in 1..c.n : after[i] = SPI_TransferByte(after[i - 1], Sym("read"))
        /\ SPI_25Read(f, c).fw = On(f, IF after[c.n].hung THEN after[c.n] ELSE RaiseCS(c.cs, after[c.n]))
    BY <2>1 DEF SPIReadRun
  <2> DEFINE T == {i \in 0..c.n : KeepsSda(f.pins, after[i])}
  <2>3. 0 \in T
    <3>1. KeepsSda(f.pins, SPI_Set_CS(f.pins, "low"))
      BY PinsKeep
    <3> QED
      BY <1>4, <2>2, <3>1
  <2>4. ASSUME NEW i \in 1..c.n, i - 1 \in T PROVE i \in T
    <3> DEFINE q == after[i - 1]
    <3>1. KeepsSda(f.pins, q) /\ after[i] = SPI_TransferByte(q, Sym("read"))
      BY <2>2, <2>4
    <3> HIDE DEF q
    <3>2. KeepsSda(q, SPI_TransferByte(q, Sym("read")))
      BY <1>2, <3>1, PinsKeep
    <3>3. KeepsSda(f.pins, after[i])
      BY <3>1, <3>2, KeepsOn
    <3> QED
      BY <1>4, <3>3
  <2>5. \A i \in 0..c.n : i \in T
    <3> HIDE DEF T
    <3> QED
      BY <1>4, <2>3, <2>4, InductionUpTo
  <2>6. KeepsSda(f.pins, after[c.n])
    BY <1>4, <2>5
  <2> QED
    BY <1>1, <1>3, <2>2, <2>6
<1>5. ASSUME c.len \in Nat PROVE KeepsSda(f.pins, SPI_25Write(f, c, data).fw.pins)
  <2>1. PICK after : SPIWriteRun(f, c, data, after)
    BY <1>5, SPIWriteRuns
  <2>2. /\ after[0] = SPI_Set_CS(f.pins, "low")
        /\ \A i \in 1..c.len : after[i] = SPI_TransferByte(after[i - 1], data[i])
        /\ SPI_25Write(f, c, data) =
             Silent(On(f, IF after[c.len].hung THEN after[c.len] ELSE RaiseCS(c.cs, after[c.len])))
    BY <2>1 DEF SPIWriteRun
  <2> DEFINE T == {i \in 0..c.len : KeepsSda(f.pins, after[i])}
  <2>3. 0 \in T
    <3>1. KeepsSda(f.pins, SPI_Set_CS(f.pins, "low"))
      BY PinsKeep
    <3> QED
      BY <1>5, <2>2, <3>1
  <2>4. ASSUME NEW i \in 1..c.len, i - 1 \in T PROVE i \in T
    <3> DEFINE q == after[i - 1]
    <3>1. KeepsSda(f.pins, q) /\ after[i] = SPI_TransferByte(q, data[i])
      BY <2>2, <2>4
    <3> HIDE DEF q
    <3>2. KeepsSda(q, SPI_TransferByte(q, data[i]))
      BY <1>2, <3>1, PinsKeep
    <3>3. KeepsSda(f.pins, after[i])
      BY <3>1, <3>2, KeepsOn
    <3> QED
      BY <1>5, <3>3
  <2>5. \A i \in 0..c.len : i \in T
    <3> HIDE DEF T
    <3> QED
      BY <1>5, <2>3, <2>4, InductionUpTo
  <2>6. KeepsSda(f.pins, after[c.len])
    BY <1>5, <2>5
  <2> QED
    BY <1>1, <1>3, <2>2, <2>6
<1>6. ASSUME c.n \in Nat PROVE KeepsSda(f.pins, mw_read(f, c).fw.pins)
  <2>1. PICK after : MWReadRun(f, c, after)
    BY <1>6, MWReadRuns
  <2>2. /\ after[0] = f.pins
        /\ \A i \in 1..c.n : after[i] = mwReadByte(after[i - 1])
        /\ mw_read(f, c).fw = On(f, IF c.cs = 1 THEN mwEnd(after[c.n]) ELSE after[c.n])
    BY <2>1 DEF MWReadRun
  <2> DEFINE T == {i \in 0..c.n : KeepsSda(f.pins, after[i])}
  <2>3. 0 \in T
    BY <1>6, <2>2, KeepsOn
  <2>4. ASSUME NEW i \in 1..c.n, i - 1 \in T PROVE i \in T
    <3> DEFINE q == after[i - 1]
    <3>1. KeepsSda(f.pins, q) /\ after[i] = mwReadByte(q)
      BY <2>2, <2>4
    <3> HIDE DEF q
    <3>2. KeepsSda(q, mwReadByte(q))
      BY <1>2, <3>1, PinsKeep DEF mwReadByte
    <3>3. KeepsSda(f.pins, after[i])
      BY <3>1, <3>2, KeepsOn
    <3> QED
      BY <1>6, <3>3
  <2>5. \A i \in 0..c.n : i \in T
    <3> HIDE DEF T
    <3> QED
      BY <1>6, <2>3, <2>4, InductionUpTo
  <2>6. KeepsSda(f.pins, after[c.n])
    BY <1>6, <2>5
  <2> QED
    BY <1>1, <1>3, <2>2, <2>6
<1>7. ASSUME c.len \in Nat PROVE KeepsSda(f.pins, mw_write(f, c, data).fw.pins)
  <2>1. PICK after : MWWriteRun(f, c, data, after)
    BY <1>7, MWWriteRuns
  <2>2. /\ after[0] = [f.pins EXCEPT !.cs = "high"]
        /\ \A i \in 1..c.len : after[i] = MWClock(c, data, after[i - 1], i)
        /\ mw_write(f, c, data) = Silent(On(f, IF c.cs = 1 THEN mwEnd(after[c.len]) ELSE after[c.len]))
    BY <2>1 DEF MWWriteRun
  <2> DEFINE T == {i \in 0..c.len : KeepsSda(f.pins, after[i])}
  <2>3. 0 \in T
    <3>1. KeepsSda(f.pins, [f.pins EXCEPT !.cs = "high"])
      BY PinsKeep
    <3> QED
      BY <1>7, <2>2, <3>1
  <2>4. ASSUME NEW i \in 1..c.len, i - 1 \in T PROVE i \in T
    <3> DEFINE q == after[i - 1]
    <3>1. KeepsSda(f.pins, q) /\ after[i] = MWClock(c, data, q, i)
      BY <2>2, <2>4
    <3> HIDE DEF q
    <3>4. \A s: KeepsSda(q, MWSee(q, s))
      BY <1>2, <3>1, PinsKeep
    <3>2. KeepsSda(q, MWClock(c, data, q, i))
      <4> DEFINE n == IF MWLeft(c, i) < 8 THEN MWLeft(c, i) ELSE 8
      <4>1. MWClock(c, data, q, i) \in {q, MWSee(q, [data[i] EXCEPT ![4] = n])}
        BY Zenon DEF MWClock, mwSendData
      <4> HIDE DEF n
      <4>2. KeepsSda(q, q)
        BY <1>2, <3>1, KeepsOn
      <4> QED
        BY <3>4, <4>1, <4>2
    <3>3. KeepsSda(f.pins, after[i])
      BY <3>1, <3>2, KeepsOn
    <3> QED
      BY <1>7, <3>3
  <2>5. \A i \in 0..c.len : i \in T
    <3> HIDE DEF T
    <3> QED
      BY <1>7, <2>3, <2>4, InductionUpTo
  <2>6. KeepsSda(f.pins, after[c.len])
    BY <1>7, <2>5
  <2> QED
    BY <1>1, <1>3, <2>2, <2>6
<1> QED
  BY <1>4, <1>5, <1>6, <1>7

\* A step of a command on the memory of an AVR: the fields stay, SDA is not pulled low.
FwFields == {"pins", "addr", "mustLoad", "params"}
FwKeeps(f, g) == DOMAIN g = FwFields /\ KeepsSda(f.pins, g.pins)

\* One byte of it.
LEMMA MemoryStepKeeps ==
  ASSUME NEW f, DOMAIN f = FwFields, PinsOK(f.pins), NEW c, NEW i
  PROVE  /\ FwKeeps(f, Reads(f, c, i))
         /\ \A data, fails, n: FwKeeps(f, ProgramStep(c, data, fails, n, f, i))
         /\ \A page: FwKeeps(f, Commit(f, c, page))
<1>1. ASSUME NEW g, DOMAIN g = FwFields
      PROVE  /\ \A p: DOMAIN On(g, p) = FwFields /\ On(g, p).pins = p
             /\ DOMAIN Advance(g, c, i) = FwFields /\ Advance(g, c, i).pins = g.pins
  <2>1. \A p: DOMAIN On(g, p) = FwFields /\ On(g, p).pins = p
    BY <1>1 DEF On, FwFields
  <2>2. DOMAIN Advance(g, c, i) = FwFields /\ Advance(g, c, i).pins = g.pins
    <3> DEFINE due == g.mustLoad \/ (Flash(c) /\ (g.addr + 1) % SegWords = 0)
               h == [g EXCEPT !.addr = @ + 1, !.mustLoad = due]
    <3>1. Advance(g, c, i) \in {g, h}
      BY Zenon DEF Advance
    <3> HIDE DEF due
    <3>2. DOMAIN h = FwFields /\ h.pins = g.pins
      BY <1>1 DEF FwFields
    <3> HIDE DEF h
    <3> QED
      BY <1>1, <3>1, <3>2
  <2> QED
    BY <2>1, <2>2
<1> DEFINE g == LoadIfDue(f)
<1>2. FwKeeps(f, g)
  <2> DEFINE h == On(f, LoadExtendedAddress(f.pins, f.addr))
  <2>1. g \in {f, [h EXCEPT !.mustLoad = FALSE]}
    BY Zenon DEF LoadIfDue
  <2>2. DOMAIN h = FwFields /\ KeepsSda(f.pins, h.pins)
    BY <1>1, PinsKeep
  <2> HIDE DEF h
  <2>3. DOMAIN [h EXCEPT !.mustLoad = FALSE] = FwFields /\ [h EXCEPT !.mustLoad = FALSE].pins = h.pins
    BY <2>2 DEF FwFields
  <2>4. FwKeeps(f, [h EXCEPT !.mustLoad = FALSE]) /\ FwKeeps(f, f)
    BY <2>2, <2>3, KeepsOn DEF FwKeeps
  <2> QED
    BY <2>1, <2>4
<1> HIDE DEF g
<1>3. ASSUME NEW s PROVE FwKeeps(f, On(g, Instruct(g.pins, s)))
  <2>1. PinsOK(g.pins) /\ DOMAIN g = FwFields
    BY <1>2 DEF FwKeeps, KeepsSda
  <2>2. KeepsSda(g.pins, Instruct(g.pins, s))
    BY <2>1, PinsKeep
  <2>3. KeepsSda(f.pins, Instruct(g.pins, s))
    BY <1>2, <2>2, KeepsOn DEF FwKeeps
  <2> QED
    BY <1>1, <2>1, <2>3 DEF FwKeeps
<1>4. ASSUME NEW h, FwKeeps(f, h) PROVE FwKeeps(f, Advance(h, c, i))
  BY <1>1, <1>4 DEF FwKeeps
<1>5. FwKeeps(f, Reads(f, c, i))
  <2> DEFINE h == On(g, Instruct(g.pins, <<c.cmd, 0, 0, Target(g, c, i)>>))
  <2>1. Reads(f, c, i) = Advance(h, c, i) /\ FwKeeps(f, h)
    BY <1>3 DEF Reads, g
  <2> HIDE DEF h
  <2> QED
    BY <1>4, <2>1
<1>6. ASSUME NEW data, NEW fails, NEW n PROVE FwKeeps(f, ProgramStep(c, data, fails, n, f, i))
  <2> DEFINE h == Writes(f, c, i, data[i])
  <2>1. FwKeeps(f, h)
    <3> DEFINE kind == IF c.paged THEN "load" ELSE c.cmd
               s == <<kind, data[i][2], data[i][3], Target(g, c, i)>>
    <3>1. h = On(g, Instruct(g.pins, s))
      BY DEF Writes, g
    <3> HIDE DEF s, h
    <3> QED
      BY <1>3, <3>1
  <2>2. ProgramStep(c, data, fails, n, f, i) \in {h, Advance(h, c, i)}
    BY Zenon DEF ProgramStep
  <2> HIDE DEF h
  <2> QED
    BY <1>4, <2>1, <2>2
<1>7. ASSUME NEW page PROVE FwKeeps(f, Commit(f, c, page))
  <2> DEFINE at == IF Flash(c) THEN Located(f.pins, page) ELSE page % SegWords
             p == Instruct(f.pins, <<"commit", 0, 0, at>>)
  <2>1. Commit(f, c, page) \in {f, On(f, p)}
    BY Zenon DEF Commit
  <2>2. KeepsSda(f.pins, p)
    BY PinsKeep
  <2> HIDE DEF p
  <2>3. FwKeeps(f, f) /\ FwKeeps(f, On(f, p))
    BY <1>1, <2>2, KeepsOn DEF FwKeeps
  <2> QED
    BY <2>1, <2>3
<1> QED
  BY <1>5, <1>6, <1>7

\* The whole of it.
LEMMA MemoryKeeps ==
  ASSUME NEW f, FwOK(f), PinsOK(f.pins), NEW c
  PROVE  /\ c.n \in Nat => KeepsSda(f.pins, ReadMemory(f, c).fw.pins)
         /\ c.len \in Nat => \A data: \A stuck \in Nat: KeepsSda(f.pins, ProgramMemory(f, c, data, stuck).fw.pins)
<1>1. DOMAIN f = FwFields /\ FwKeeps(f, f)
  BY KeepsOn DEF FwOK, FwFields, FwKeeps
<1>2. \A g, h: FwKeeps(f, g) /\ FwKeeps(g, h) => FwKeeps(f, h)
  BY KeepsOn DEF FwKeeps
<1>3. \A g: FwKeeps(f, g) => DOMAIN g = FwFields /\ PinsOK(g.pins)
  BY DEF FwKeeps, KeepsSda
<1>4. \A g: Moved(f, g).pins = g.pins
  BY <1>1 DEF Moved, FwFields
<1>5. ASSUME c.n \in Nat PROVE KeepsSda(f.pins, ReadMemory(f, c).fw.pins)
  <2>1. PICK after : MemoryReadRun(f, c, after)
    BY <1>5, MemoryReadRuns
  <2>2. /\ after[0] = f
        /\ \A i \in 1..c.n : after[i] = Reads(after[i - 1], c, i)
        /\ ReadMemory(f, c).fw = Moved(f, after[c.n])
    BY <2>1 DEF MemoryReadRun
  <2> DEFINE T == {i \in 0..c.n : FwKeeps(f, after[i])}
  <2>3. 0 \in T
    BY <1>1, <1>5, <2>2
  <2>4. ASSUME NEW i \in 1..c.n, i - 1 \in T PROVE i \in T
    <3> DEFINE q == after[i - 1]
    <3>1. FwKeeps(f, q) /\ after[i] = Reads(q, c, i)
      BY <2>2, <2>4
    <3> HIDE DEF q
    <3>2. FwKeeps(q, Reads(q, c, i))
      BY <1>3, <3>1, MemoryStepKeeps
    <3>3. FwKeeps(f, after[i])
      BY <1>2, <3>1, <3>2
    <3> QED
      BY <1>5, <3>3
  <2>5. \A i \in 0..c.n : i \in T
    <3> HIDE DEF T
    <3> QED
      BY <1>5, <2>3, <2>4, InductionUpTo
  <2>6. FwKeeps(f, after[c.n])
    BY <1>5, <2>5
  <2> QED
    BY <1>4, <2>2, <2>6 DEF FwKeeps
<1>6. ASSUME c.len \in Nat, NEW data, NEW stuck \in Nat
      PROVE  KeepsSda(f.pins, ProgramMemory(f, c, data, stuck).fw.pins)
  <2>1. PICK after : ProgramRun(f, c, data, stuck, after)
    BY <1>6, ProgramRuns
  <2> DEFINE n == StepsOf(c, stuck)
             fails == Fails(c, stuck)
  <2>0. n \in Nat
    BY <1>6 DEF StepsOf
  <2>2. /\ after[0] = f
        /\ \A i \in 1..n : after[i] = ProgramStep(c, data, fails, n, after[i - 1], i)
        /\ ProgramMemory(f, c, data, stuck).fw.pins = Moved(f, Commit(after[n], c, f.addr)).pins
    BY <2>1 DEF ProgramRun
  <2> HIDE DEF n, fails
  <2> DEFINE T == {i \in 0..n : FwKeeps(f, after[i])}
  <2>3. 0 \in T
    BY <1>1, <2>0, <2>2
  <2>4. ASSUME NEW i \in 1..n, i - 1 \in T PROVE i \in T
    <3> DEFINE q == after[i - 1]
    <3>1. FwKeeps(f, q) /\ after[i] = ProgramStep(c, data, fails, n, q, i)
      BY <2>2, <2>4
    <3> HIDE DEF q
    <3>2. FwKeeps(q, ProgramStep(c, data, fails, n, q, i))
      BY <1>3, <3>1, MemoryStepKeeps
    <3>3. FwKeeps(f, after[i])
      BY <1>2, <3>1, <3>2
    <3> QED
      BY <2>0, <3>3
  <2>5. \A i \in 0..n : i \in T
    <3> HIDE DEF T
    <3> QED
      BY <2>0, <2>3, <2>4, InductionUpTo
  <2> DEFINE g == after[n]
  <2>6. FwKeeps(f, g)
    BY <2>0, <2>5
  <2> HIDE DEF g
  <2>7. FwKeeps(g, Commit(g, c, f.addr))
    BY <1>3, <2>6, MemoryStepKeeps
  <2>8. FwKeeps(f, Commit(g, c, f.addr))
    BY <1>2, <2>6, <2>7
  <2> QED
    BY <1>4, <2>2, <2>8 DEF FwKeeps, g
<1> QED
  BY <1>5, <1>6

\* Whatever is taken for a command.
LEMMA CommandPins ==
  ASSUME NEW f, FwOK(f), PinsOK(f.pins), NEW c, CommandOK(c), NEW data, NEW stuck \in Nat
  PROVE  LET q == ProcessCommand(f, c, data, stuck).fw.pins
         IN  /\ PinsOK(q)
             /\ q.sdaLow => SdaAfter(c, f.pins.sdaLow)
             /\ c.cmd \in Leaves /\ ~f.pins.sdaLow => Released(q)
<1> DEFINE p == f.pins
           r == ProcessCommand(f, c, data, stuck)
           q == r.fw.pins
           Goal == /\ PinsOK(q)
                   /\ q.sdaLow => SdaAfter(c, p.sdaLow)
                   /\ c.cmd \in Leaves /\ ~p.sdaLow => Released(q)
<1>1. /\ \A x: On(f, x).pins = x /\ Silent(On(f, x)).fw.pins = x
      /\ \A x, a: Answer(On(f, x), <<a>>).fw.pins = x /\ Answer([On(f, x) EXCEPT !.addr = 0], <<a>>).fw.pins = x
      /\ \A b: Answer(f, b).fw.pins = p /\ Silent(f).fw.pins = p
  BY DEF On, FwOK, Silent, Answer
<1>2. c.len \in Nat /\ (c.cmd \in Counted => c.n \in Nat)
  BY DEF CommandOK
<1>3. ASSUME KeepsSda(p, q), c.cmd \notin I2CCommands, c.cmd \notin Leaves PROVE Goal
  BY <1>3, Zenon DEF KeepsSda, SdaAfter
<1>4. KeepsSda(p, p)
  BY KeepsOn
<1> SUFFICES Goal
  BY DEF Goal
<1> HIDE DEF p, Goal
<1>5. CASE c.cmd \in {"SIGN_ON", "RESET_PROTECTION", "FIRMWARE_VER"}
  <2>1. r = Answer(f, <<STATUS_CMD_OK>>)
    BY <1>5 DEF ProcessCommand
  <2>2. q = p
    BY <1>1, <2>1
  <2> QED
    BY <1>3, <1>4, <1>5, <2>2 DEF I2CCommands, Leaves
<1>6. CASE c.cmd \in {"SET_PARAMETER", "GET_PARAMETER"}
  <2>1. r = GetSetParam(f, c)
    BY <1>6 DEF ProcessCommand
  <2> DEFINE g == [f EXCEPT !.params[c.param] = c.value]
  <2>2. GetSetParam(f, c) \in
          {Answer(g, <<STATUS_CMD_OK>>), Answer(f, <<STATUS_CMD_OK, f.params[c.param]>>),
           Answer(f, <<STATUS_CMD_OK, 0>>), Answer(f, <<STATUS_CMD_FAILED>>)}
    <3>1. c.param \in DOMAIN Defaults => c.param \notin ReadOnly
      BY DEF Defaults, ReadOnly
    <3> QED
      BY <3>1, Zenon DEF GetSetParam
  <2>3. g.pins = p
    BY DEF FwOK, p
  <2> HIDE DEF g
  <2>4. Answer(g, <<STATUS_CMD_OK>>).fw.pins = p
    BY <2>3 DEF Answer
  <2>5. q = p
    BY <1>1, <2>1, <2>2, <2>4
  <2> QED
    BY <1>3, <1>4, <1>6, <2>5 DEF I2CCommands, Leaves
<1>7. CASE c.cmd = "LOAD_ADDRESS"
  <2> DEFINE g == [f EXCEPT !.addr = c.addr, !.mustLoad = @ \/ c.extended]
  <2>1. r = Answer(g, <<STATUS_CMD_OK>>)
    BY <1>7 DEF ProcessCommand, LoadAddress
  <2>2. g.pins = p
    BY DEF FwOK, p
  <2> HIDE DEF g
  <2>3. q = p
    BY <2>1, <2>2 DEF Answer
  <2> QED
    BY <1>3, <1>4, <1>7, <2>3 DEF I2CCommands, Leaves
<1>8. CASE c.cmd = "ENTER_SPI25"
  <2> DEFINE e == EnableTargetISP(f.pins, f.params.SCK_DURATION)
             x == SPI_Set_CS(e, "high")
             y == Fresh(x, x.cs = "high")
  <2>1. r = Answer(On(f, y), <<STATUS_CMD_OK>>)
    BY <1>8 DEF ProcessCommand, SPI_Enter25Mode
  <2>2. KeepsSda(p, e)
    BY PinsKeep DEF p
  <2> HIDE DEF e
  <2>3. KeepsSda(e, x)
    BY <2>2, PinsKeep DEF KeepsSda
  <2>4. KeepsSda(p, x)
    BY <2>2, <2>3, KeepsOn
  <2> HIDE DEF x
  <2>5. KeepsSda(x, y)
    BY <2>4, PinsKeep DEF KeepsSda
  <2> HIDE DEF y
  <2>6. q = y /\ KeepsSda(p, y)
    BY <1>1, <2>1, <2>4, <2>5, KeepsOn
  <2> QED
    BY <1>3, <1>8, <2>6 DEF I2CCommands, Leaves
<1>9. CASE c.cmd \in Leaves
  <2>1. PinsOK(p) /\ DOMAIN p = DOMAIN PowerUp
    BY DEF p, PinsOK
  <2> DEFINE d == DisableTargetISP(p)
             x == Reset(d, "float")
             e == Reset(p, "float")
             y == DisableTargetISP(e)
  <2>2. q = x \/ q = y
    <3>1. CASE c.cmd = "LEAVE_SPI25"
      <4>1. r = Answer(On(f, x), <<STATUS_CMD_OK>>)
        BY <3>1 DEF ProcessCommand, SPI_Leave25Mode, p
      <4> HIDE DEF x
      <4> QED
        BY <1>1, <4>1
    <3>2. CASE c.cmd = "LEAVE_ISP"
      <4>1. r = Answer(On(f, y), <<STATUS_CMD_OK>>)
        BY <3>2 DEF ProcessCommand, LeaveISPMode, ChangeTargetResetLine, p
      <4> HIDE DEF y
      <4> QED
        BY <1>1, <4>1
    <3> QED
      BY <1>9, <3>1, <3>2 DEF Leaves
  <2>3. ASSUME NEW z, PinsOK(z)
        PROVE  /\ PinsOK(Reset(z, "float")) /\ Reset(z, "float").cs = "float" /\ ~Reset(z, "float").prog
               /\ Reset(z, "float").out = z.out /\ Reset(z, "float").sdaLow = z.sdaLow
               /\ PinsOK(DisableTargetISP(z)) /\ ~DisableTargetISP(z).out
               /\ DisableTargetISP(z).cs = z.cs /\ DisableTargetISP(z).sdaLow = z.sdaLow
               /\ DisableTargetISP(z).prog = z.prog
    <3>1. /\ PinsOK(Reset(z, "float")) /\ Reset(z, "float").cs = "float" /\ ~Reset(z, "float").prog
          /\ Reset(z, "float").out = z.out /\ Reset(z, "float").sdaLow = z.sdaLow
      <4> DEFINE b == z.prog /\ "float" = "low"
                 n == IF "float" = "low" THEN z.ext ELSE 0
      <4>1. Reset(z, "float") = [z EXCEPT !.cs = "float", !.prog = b, !.ext = n]
        BY DEF Reset
      <4>2. b = FALSE
        OBVIOUS
      <4> HIDE DEF b, n
      <4> QED
        BY <2>3, <4>1, <4>2 DEF PinsOK, PowerUp
    <3>2. DisableTargetISP(z) \in {[z EXCEPT !.spi = FALSE, !.out = FALSE], [z EXCEPT !.out = FALSE]}
      BY Zenon DEF DisableTargetISP, SPI_Disable
    <3>3. ASSUME NEW w \in {[z EXCEPT !.spi = FALSE, !.out = FALSE], [z EXCEPT !.out = FALSE]}
          PROVE  PinsOK(w) /\ ~w.out /\ w.cs = z.cs /\ w.sdaLow = z.sdaLow /\ w.prog = z.prog
      BY <2>3 DEF PinsOK, PowerUp
    <3> QED
      BY <3>1, <3>2, <3>3
  <2>4. PinsOK(x) /\ x.cs = "float" /\ ~x.prog /\ ~x.out /\ (x.sdaLow => p.sdaLow)
    <3>1. PinsOK(d) /\ ~d.out /\ d.sdaLow = p.sdaLow
      BY <2>1, <2>3
    <3> HIDE DEF d
    <3>2. PinsOK(x) /\ x.cs = "float" /\ ~x.prog /\ x.out = d.out /\ x.sdaLow = d.sdaLow
      BY <2>3, <3>1
    <3> HIDE DEF x
    <3> QED
      BY <3>1, <3>2
  <2>5. PinsOK(y) /\ y.cs = "float" /\ ~y.prog /\ ~y.out /\ (y.sdaLow => p.sdaLow)
    <3>1. PinsOK(e) /\ e.cs = "float" /\ ~e.prog /\ e.sdaLow = p.sdaLow
      BY <2>1, <2>3
    <3> HIDE DEF e
    <3>2. PinsOK(y) /\ y.cs = e.cs /\ y.prog = e.prog /\ ~y.out /\ y.sdaLow = e.sdaLow
      BY <2>3, <3>1
    <3> HIDE DEF y
    <3> QED
      BY <3>1, <3>2
  <2> HIDE DEF x, y, q
  <2>6. PinsOK(q) /\ q.cs = "float" /\ ~q.prog /\ ~q.out /\ (q.sdaLow => p.sdaLow)
    BY <2>2, <2>4, <2>5
  <2>7. c.cmd \notin I2CCommands
    BY <1>9 DEF Leaves, I2CCommands
  <2> QED
    BY <2>6, <2>7, Zenon DEF Released, SdaAfter, Goal
<1>10. CASE c.cmd \in {"SPI25_READ", "SPI25_WRITE", "MW_READ", "MW_WRITE"}
  <2>1. c.cmd \in {"SPI25_READ", "MW_READ"} => c.n \in Nat
    BY <1>2 DEF Counted
  <2>2. KeepsSda(p, q)
    <3>1. CASE c.cmd = "SPI25_READ"
      BY <2>1, <3>1, RunsKeep DEF ProcessCommand, p
    <3>2. CASE c.cmd = "SPI25_WRITE"
      BY <1>2, <3>2, RunsKeep DEF ProcessCommand, p
    <3>3. CASE c.cmd = "MW_READ"
      BY <2>1, <3>3, RunsKeep DEF ProcessCommand, p
    <3>4. CASE c.cmd = "MW_WRITE"
      BY <1>2, <3>4, RunsKeep DEF ProcessCommand, p
    <3> QED
      BY <1>10, <3>1, <3>2, <3>3, <3>4
  <2> QED
    BY <1>3, <1>10, <2>2 DEF I2CCommands, Leaves
<1>11. CASE c.cmd \in {"I2C_INIT", "I2C_START", "I2C_STOP", "I2C_READBYTE", "I2C_WRITEBYTE"}
  <2> HIDE DEF r
  <2>1.. PinsOK(q) /\ (q.sdaLow => Pulls(c))
    <3>1. CASE c.cmd = "I2C_INIT"
      <4> DEFINE y == i2c_init(f.pins)
                 x == Fresh(y, TRUE)
      <4>1. PinsOK(y) /\ ~y.sdaLow
        BY PinsI2C
      <4>2. r = Silent(On(f, x))
        BY <3>1 DEF ProcessCommand, r
      <4> HIDE DEF y
      <4>3. KeepsSda(y, x)
        BY <4>1, PinsKeep
      <4> HIDE DEF x
      <4>4. q = x
        BY <1>1, <4>2
      <4>5. PinsOK(x) /\ ~x.sdaLow
        BY <4>1, <4>3, Zenon DEF KeepsSda
      <4> QED
        BY <4>4, <4>5, Zenon
    <3>2. CASE c.cmd = "I2C_START"
      <4> DEFINE x == i2c_start(f.pins)
      <4>1. r = Silent(On(f, x))
        BY <3>2 DEF ProcessCommand, r
      <4>2. PinsOK(x)
        BY PinsI2C
      <4>3. Pulls(c)
        BY <3>2 DEF Pulls
      <4> HIDE DEF x
      <4>4. q = x
        BY <1>1, <4>1
      <4> QED
        BY <4>2, <4>3, <4>4, Zenon
    <3>3. CASE c.cmd = "I2C_STOP"
      <4> DEFINE x == i2c_stop(f.pins)
      <4>1. r = Silent(On(f, x))
        BY <3>3 DEF ProcessCommand, r
      <4>2. PinsOK(x) /\ ~x.sdaLow
        BY PinsI2C
      <4> HIDE DEF x
      <4>4. q = x
        BY <1>1, <4>1
      <4> QED
        BY <4>2, <4>4, Zenon
    <3>4. CASE c.cmd = "I2C_READBYTE"
      <4> DEFINE x == i2c_read_byte(f.pins, c.ack)
      <4>1. r = Answer(On(f, x), <<Place(f.pins, x)>>)
        BY <3>4 DEF ProcessCommand, OneByte, r
      <4>2. PinsOK(x) /\ (x.sdaLow => c.ack = "ack")
        BY PinsI2C
      <4> HIDE DEF x
      <4>4. q = x
        BY <1>1, <4>1
      <4> QED
        BY <3>4, <4>2, <4>4, Zenon DEF Pulls
    <3>5. CASE c.cmd = "I2C_WRITEBYTE"
      <4> DEFINE x == i2c_send_byte(f.pins, c.byte)
      <4>1. r = Answer(On(f, x), <<Place(f.pins, x)>>)
        BY <3>5 DEF ProcessCommand, OneByte, r
      <4>2. PinsOK(x) /\ ~x.sdaLow
        BY PinsI2C
      <4> HIDE DEF x
      <4>4. q = x
        BY <1>1, <4>1
      <4> QED
        BY <4>2, <4>4, Zenon
    <3> QED
      BY <1>11, <3>1, <3>2, <3>3, <3>4, <3>5
  <2>2. c.cmd \in I2CCommands /\ c.cmd \notin Leaves
    BY <1>11 DEF I2CCommands, Leaves
  <2> HIDE DEF q
  <2> QED
    BY <2>1, <2>2, Zenon DEF SdaAfter, Goal
<1>12. CASE c.cmd \in {"I2C_READ", "I2C_WRITE"}
  <2>1. PinsOK(q) /\ (q.sdaLow => Pulls(c))
    <3>1. CASE c.cmd = "I2C_READ"
      <4>1. c.n \in Nat
        BY <1>2, <3>1 DEF Counted
      <4>2. r = i2c_read(f, c)
        BY <3>1 DEF ProcessCommand
      <4> QED
        BY <4>1, <4>2, I2CRunPins
    <3>2. CASE c.cmd = "I2C_WRITE"
      <4>2. r = i2c_write(f, c, data)
        BY <3>2 DEF ProcessCommand
      <4>3. PinsOK(q) /\ (q.sdaLow => c.stop # 1)
        BY <1>2, <4>2, I2CRunPins
      <4> HIDE DEF q
      <4> QED
        BY <3>2, <4>3, Zenon DEF Pulls
    <3> QED
      BY <1>12, <3>1, <3>2
  <2>2. c.cmd \in I2CCommands /\ c.cmd \notin Leaves
    BY <1>12 DEF I2CCommands, Leaves
  <2> HIDE DEF q
  <2> QED
    BY <2>1, <2>2, Zenon DEF SdaAfter, Goal
<1>13. CASE c.cmd \in {"MW_INIT", "MW_BUSY"}
  <2>1. KeepsSda(p, q)
    <3>1. CASE c.cmd = "MW_INIT"
      <4> DEFINE y == mwInit(f.pins)
                 x == Fresh(y, f.pins.cs # "high")
      <4>1. r = Silent(On(f, x))
        BY <3>1 DEF ProcessCommand
      <4>2. KeepsSda(p, y)
        BY PinsKeep DEF p
      <4> HIDE DEF y
      <4>3. KeepsSda(y, x)
        BY <4>2, PinsKeep DEF KeepsSda
      <4> HIDE DEF x
      <4> QED
        BY <1>1, <4>1, <4>2, <4>3, KeepsOn
    <3>2. CASE c.cmd = "MW_BUSY"
      <4> DEFINE x == mwBusy(f.pins)
      <4>1. r = Answer(On(f, x), <<MisoPlace(f.pins, x)>>)
        BY <3>2 DEF ProcessCommand, OneByte
      <4>2. KeepsSda(p, x)
        BY PinsKeep DEF p
      <4> HIDE DEF x
      <4> QED
        BY <1>1, <4>1, <4>2
    <3> QED
      BY <1>13, <3>1, <3>2
  <2> QED
    BY <1>3, <1>13, <2>1 DEF I2CCommands, Leaves
<1>14. CASE c.cmd = "ENTER_ISP"
  <2> DEFINE e == EnableTargetISP(f.pins, f.params.SCK_DURATION)
             x == ChangeTargetResetLine(e, TRUE, f.params.RESET_POLARITY)
             h == Hears(x)
             y == [x EXCEPT !.prog = h, !.ext = 0, !.wire = <<>>]
             status == IF y.prog THEN STATUS_CMD_OK ELSE STATUS_CMD_FAILED
  <2>1. r = Answer([On(f, y) EXCEPT !.addr = 0], <<status>>)
    BY <1>14 DEF ProcessCommand, EnterISPMode
  <2> HIDE DEF status
  <2>2. KeepsSda(p, e)
    BY PinsKeep DEF p
  <2> HIDE DEF e
  <2>3. KeepsSda(e, x)
    BY <2>2, PinsKeep DEF KeepsSda, ChangeTargetResetLine
  <2>4. KeepsSda(p, x)
    BY <2>2, <2>3, KeepsOn
  <2> HIDE DEF x, h
  <2>5. KeepsSda(x, y)
    BY <2>4 DEF KeepsSda, PinsOK, PowerUp
  <2> HIDE DEF y
  <2>6. q = y /\ KeepsSda(p, y)
    BY <1>1, <2>1, <2>4, <2>5, KeepsOn
  <2> QED
    BY <1>3, <1>14, <2>6 DEF I2CCommands, Leaves
<1>15. CASE c.cmd \in {"PROGRAM_FLASH", "PROGRAM_EEPROM"}
  <2>1. r \in {Answer(f, <<STATUS_CMD_FAILED>>), ProgramMemory(f, c, data, stuck)}
    BY <1>15, Zenon DEF ProcessCommand
  <2>2. KeepsSda(p, ProgramMemory(f, c, data, stuck).fw.pins)
    BY <1>2, MemoryKeeps DEF p
  <2>3. KeepsSda(p, q)
    BY <1>1, <1>4, <2>1, <2>2
  <2> QED
    BY <1>3, <1>15, <2>3 DEF I2CCommands, Leaves
<1>16. CASE c.cmd \in {"READ_FLASH", "READ_EEPROM"}
  <2>1. c.n \in Nat
    BY <1>2, <1>16 DEF Counted
  <2>2. r = ReadMemory(f, c)
    BY <1>16 DEF ProcessCommand
  <2>3. KeepsSda(p, q)
    BY <2>1, <2>2, MemoryKeeps DEF p
  <2> QED
    BY <1>3, <1>16, <2>3 DEF I2CCommands, Leaves
<1>17. CASE c.cmd \in {"CHIP_ERASE", "READ_FUSE", "PROGRAM_FUSE", "SPI_MULTI"}
  <2>1. \E s: q = Instruct(f.pins, s)
    <3>1. CASE c.cmd = "CHIP_ERASE"
      <4> DEFINE x == Instruct(f.pins, Sym("erase"))
                 status == IF c.polled /\ stuck > 0 THEN STATUS_RDY_BSY_TOUT ELSE STATUS_CMD_OK
      <4>1. r \in {Silent(On(f, x)), Answer(On(f, x), <<status>>)}
        BY <3>1, Zenon DEF ProcessCommand, ChipErase
      <4> HIDE DEF status
      <4>2. q = x
        BY <1>1, <4>1
      <4> QED
        BY <4>2
    <3>2. ASSUME NEW s PROVE Instruction(f, c, s).fw.pins = Instruct(f.pins, s)
      BY <1>1 DEF Instruction
    <3>3. CASE c.cmd = "READ_FUSE"
      BY <3>2, <3>3 DEF ProcessCommand
    <3>4. CASE c.cmd = "PROGRAM_FUSE"
      BY <3>2, <3>4 DEF ProcessCommand
    <3>5. CASE c.cmd = "SPI_MULTI"
      BY <3>2, <3>5 DEF ProcessCommand
    <3> QED
      BY <1>17, <3>1, <3>3, <3>4, <3>5
  <2>2. KeepsSda(p, q)
    BY <2>1, PinsKeep DEF p
  <2> QED
    BY <1>3, <1>17, <2>2 DEF I2CCommands, Leaves
<1>18. CASE c.cmd \notin {"SIGN_ON", "RESET_PROTECTION", "FIRMWARE_VER", "SET_PARAMETER", "GET_PARAMETER",
                          "LOAD_ADDRESS", "ENTER_SPI25", "LEAVE_SPI25", "SPI25_READ", "I2C_READ", "MW_READ",
                          "SPI25_WRITE", "I2C_WRITE", "MW_WRITE", "I2C_INIT", "I2C_START", "I2C_STOP",
                          "MW_INIT", "I2C_READBYTE", "I2C_WRITEBYTE", "MW_BUSY", "ENTER_ISP", "LEAVE_ISP",
                          "PROGRAM_FLASH", "PROGRAM_EEPROM", "READ_FLASH", "READ_EEPROM", "CHIP_ERASE",
                          "READ_FUSE", "PROGRAM_FUSE", "SPI_MULTI"}
  <2>1. r = Answer(f, <<STATUS_CMD_UNKNOWN>>)
    BY <1>18 DEF ProcessCommand
  <2>2. q = p
    BY <1>1, <2>1
  <2> QED
    BY <1>3, <1>4, <1>18, <2>2 DEF I2CCommands, Leaves
<1> QED
  BY <1>5, <1>6, <1>7, <1>8, <1>9, <1>10, <1>11, <1>12, <1>13, <1>14, <1>15, <1>16, <1>17, <1>18 DEF Leaves

-----------------------------------------------------------------------------
(***************************************************************************)
(* What the transfers of a call do to SDA.  Every command that pulls it    *)
(* low is followed, in the same call, by one that frees it, unless the     *)
(* call is one of those that leave a frame open.                           *)
(***************************************************************************)
Frees(c) == c.cmd \in {"I2C_INIT", "I2C_STOP", "I2C_READ"} \/ (c.cmd = "I2C_WRITE" /\ c.stop = 1)

\* No transfer is an I2C command.
Foreign(t) == t.ep = "out" => t.head.cmd \notin I2CCommands
Plain(s)   == \A k \in 1..Len(s): Foreign(s[k])

\* A later transfer frees the line.
FreedAfter(s, k) == \E l \in k + 1..Len(s): s[l].ep = "out" /\ Frees(s[l].head)
Paid(s, inFrame) == \A k \in 1..Len(s): s[k].ep = "out" /\ Pulls(s[k].head) => inFrame \/ FreedAfter(s, k)

\* Where there is no I2C command SDA is not pulled low.
LEMMA PlainPaid ==
  ASSUME NEW s, Plain(s), NEW inFrame
  PROVE  Paid(s, inFrame)
<1>1. \A c: Pulls(c) => c.cmd \in I2CCommands
  BY DEF Pulls, I2CCommands
<1> QED
  BY <1>1 DEF Plain, Paid, Foreign

\* What holds of all transfers holds of those left.
LEMMA PaidTail ==
  ASSUME NEW s, Listed(s), s # <<>>
  PROVE  /\ Plain(s) => Plain(Tail(s)) /\ Foreign(Head(s))
         /\ \A inFrame: Paid(s, inFrame) => Paid(Tail(s), inFrame)
         /\ \A k \in 1..Len(s) - 1: FreedAfter(s, k + 1) => FreedAfter(Tail(s), k)
         /\ FreedAfter(s, 1) => \E l \in 1..Len(Tail(s)): Tail(s)[l].ep = "out" /\ Frees(Tail(s)[l].head)
<1>1. /\ Listed(Tail(s)) /\ Len(Tail(s)) = Len(s) - 1 /\ Len(s) >= 1 /\ Len(s) \in Nat
      /\ Head(s) = s[1]
      /\ \A k \in 1..Len(s) - 1: Tail(s)[k] = s[k + 1]
  BY ListedTail, ListedLen
<1>2. \A k \in 1..Len(s) - 1: k + 1 \in 1..Len(s)
  BY <1>1
<1>3. Plain(s) => Plain(Tail(s)) /\ Foreign(Head(s))
  <2>1. 1 \in 1..Len(s)
    BY <1>1
  <2> QED
    BY <1>1, <1>2, <2>1 DEF Plain
<1>4. ASSUME NEW k \in 1..Len(s) - 1, FreedAfter(s, k + 1) PROVE FreedAfter(Tail(s), k)
  <2>1. PICK l \in k + 1 + 1..Len(s): s[l].ep = "out" /\ Frees(s[l].head)
    BY <1>4 DEF FreedAfter
  <2> DEFINE i == l - 1
  <2>2. i \in k + 1..Len(s) - 1 /\ i \in 1..Len(s) - 1 /\ i + 1 = l
    BY <1>1
  <2> HIDE DEF i
  <2>3. Tail(s)[i] = s[l]
    BY <1>1, <2>2
  <2> QED
    BY <1>1, <2>1, <2>2, <2>3 DEF FreedAfter
<1>5. ASSUME NEW inFrame, Paid(s, inFrame) PROVE Paid(Tail(s), inFrame)
  <2> SUFFICES ASSUME NEW k \in 1..Len(Tail(s)), Tail(s)[k].ep = "out", Pulls(Tail(s)[k].head), ~inFrame
               PROVE  FreedAfter(Tail(s), k)
    BY DEF Paid
  <2>1. k \in 1..Len(s) - 1 /\ Tail(s)[k] = s[k + 1] /\ k + 1 \in 1..Len(s)
    BY <1>1, <1>2
  <2>2. FreedAfter(s, k + 1)
    BY <1>5, <2>1 DEF Paid
  <2> QED
    BY <1>4, <2>1, <2>2
<1>6. ASSUME FreedAfter(s, 1)
      PROVE  \E l \in 1..Len(Tail(s)): Tail(s)[l].ep = "out" /\ Frees(Tail(s)[l].head)
  <2>1. PICK l \in 1 + 1..Len(s): s[l].ep = "out" /\ Frees(s[l].head)
    BY <1>6 DEF FreedAfter
  <2> DEFINE i == l - 1
  <2>2. i \in 1..Len(s) - 1 /\ i + 1 = l
    BY <1>1
  <2> HIDE DEF i
  <2> QED
    BY <1>1, <2>1, <2>2
<1> QED
  BY <1>3, <1>4, <1>5, <1>6

\* Short sequences without I2C commands, and longer ones made of these.
LEMMA PlainShort ==
  /\ Plain(<<>>)
  /\ \A a: Foreign(a) => Plain(<<a>>)
  /\ \A a, b: Foreign(a) /\ Foreign(b) => Plain(<<a, b>>)
  /\ \A s, t: Listed(s) /\ Listed(t) /\ Plain(s) /\ Plain(t) => Plain(s \o t)
<1>1. Plain(<<>>)
  BY ListedShort DEF Plain
<1>2. ASSUME NEW a, Foreign(a) PROVE Plain(<<a>>)
  <2>1. Len(<<a>>) = 1
    BY ListedShort
  <2> QED
    BY <1>2, <2>1 DEF Plain
<1>3. ASSUME NEW a, NEW b, Foreign(a), Foreign(b) PROVE Plain(<<a, b>>)
  <2>1. Len(<<a, b>>) = 2
    BY ListedShort
  <2>2. \A k \in 1..2: Foreign(<<a, b>>[k])
    BY <1>3
  <2> QED
    BY <2>1, <2>2 DEF Plain
<1>4. ASSUME NEW s, NEW t, Listed(s), Listed(t), Plain(s), Plain(t) PROVE Plain(s \o t)
  <2>1. /\ Len(s \o t) = Len(s) + Len(t)
        /\ \A k \in 1..Len(s) + Len(t): (s \o t)[k] = IF k <= Len(s) THEN s[k] ELSE t[k - Len(s)]
    BY <1>4, ListedConcat
  <2>2. Len(s) \in Nat /\ Len(t) \in Nat
    BY <1>4, ListedLen
  <2>3. ASSUME NEW k \in 1..Len(s \o t) PROVE Foreign((s \o t)[k])
    <3>1. CASE k <= Len(s)
      <4>1. k \in 1..Len(s) /\ (s \o t)[k] = s[k]
        BY <2>1, <2>2, <3>1
      <4> QED
        BY <1>4, <4>1 DEF Plain
    <3>2. CASE ~(k <= Len(s))
      <4>1. k - Len(s) \in 1..Len(t) /\ (s \o t)[k] = t[k - Len(s)]
        BY <2>1, <2>2, <3>2
      <4> QED
        BY <1>4, <4>1 DEF Plain
    <3> QED
      BY <3>1, <3>2
  <2> QED
    BY <2>3 DEF Plain
<1> QED
  BY <1>1, <1>2, <1>3, <1>4

\* Transfers that are not I2C commands.
LEMMA ForeignOK ==
  /\ Foreign(Config)
  /\ \A n: Foreign(In(n)) /\ Foreign([In(n) EXCEPT !.must = TRUE]) /\ Foreign([In(n) EXCEPT !.ver = TRUE])
           /\ Foreign([In(n) EXCEPT !.short = TRUE, !.must = TRUE])
  /\ \A c: c.cmd \notin I2CCommands => Foreign(Out(c))
  /\ \A c, off, n: c.cmd \notin I2CCommands =>
       Plain(Tool(c, off, n)) /\ \A h \in {1, 2}: Foreign(Tool(c, off, n)[h])
<1>1. Foreign(Config)
  BY DEF Config, Foreign
<1>2. \A n: /\ Foreign(In(n)) /\ Foreign([In(n) EXCEPT !.must = TRUE]) /\ Foreign([In(n) EXCEPT !.ver = TRUE])
            /\ Foreign([In(n) EXCEPT !.short = TRUE, !.must = TRUE])
  BY DEF In, Foreign
<1>3. \A c: c.cmd \notin I2CCommands => Foreign(Out(c))
  BY DEF Out, Foreign
<1>4. ASSUME NEW c, NEW off, NEW n, c.cmd \notin I2CCommands
      PROVE  Plain(Tool(c, off, n)) /\ \A h \in {1, 2}: Foreign(Tool(c, off, n)[h])
  <2> DEFINE t == [Out(c) EXCEPT !.off = off, !.short = TRUE, !.must = TRUE]
             u == [In(n) EXCEPT !.short = TRUE, !.must = TRUE]
  <2>1. t.head = c
    BY DEF Out
  <2>2. Foreign(u)
    BY <1>2
  <2>3. Tool(c, off, n) = <<t, u>>
    BY DEF Tool
  <2> HIDE DEF t, u
  <2>4. Foreign(t)
    BY <1>4, <2>1 DEF Foreign
  <2> QED
    BY <2>2, <2>3, <2>4, PlainShort
<1> QED
  BY <1>1, <1>2, <1>3, <1>4

\* A sequence without I2C commands, made of others.
Calm(s) == Listed(s) /\ Plain(s)

\* What is made of calm parts is calm.
LEMMA CalmOK ==
  /\ \A a: Foreign(a) => Calm(<<a>>)
  /\ \A a, b: Foreign(a) /\ Foreign(b) => Calm(<<a, b>>)
  /\ \A s, t: Calm(s) /\ Calm(t) => Calm(s \o t)
  /\ \A c, off, n: c.cmd \notin I2CCommands => Calm(Tool(c, off, n))
<1>1. /\ \A a: Foreign(a) => Calm(<<a>>)
      /\ \A a, b: Foreign(a) /\ Foreign(b) => Calm(<<a, b>>)
  BY PlainShort, ListedShort DEF Calm
<1>2. ASSUME NEW s, NEW t, Calm(s), Calm(t) PROVE Calm(s \o t)
  <2>1. Listed(s \o t)
    BY <1>2, ListedConcat DEF Calm
  <2> QED
    BY <1>2, <2>1, PlainShort DEF Calm
<1>3. ASSUME NEW c, NEW off, NEW n, c.cmd \notin I2CCommands PROVE Calm(Tool(c, off, n))
  <2> DEFINE t == [Out(c) EXCEPT !.off = off, !.short = TRUE, !.must = TRUE]
             u == [In(n) EXCEPT !.short = TRUE, !.must = TRUE]
  <2>1. Plain(Tool(c, off, n))
    BY <1>3, ForeignOK
  <2>2. Tool(c, off, n) = <<t, u>>
    BY DEF Tool
  <2> HIDE DEF t, u
  <2> QED
    BY <2>1, <2>2, ListedShort DEF Calm
<1> QED
  BY <1>1, <1>2, <1>3

\* Commands without parameters or data.
LEMMA BareForeign ==
  /\ \A name: name \notin I2CCommands => Foreign(Out(Bare(name)))
  /\ \A p, v: Foreign(Out(SetParameter(p, v)))
  /\ \A name: Bare(name).cmd = name
  /\ \A p, v: SetParameter(p, v).cmd \notin I2CCommands
  /\ \A p: GetParameter(p).cmd \notin I2CCommands
<1>1. /\ \A name: Bare(name).cmd = name
      /\ \A p, v: SetParameter(p, v).cmd \notin I2CCommands
      /\ \A p: GetParameter(p).cmd \notin I2CCommands
  BY DEF Bare, SetParameter, GetParameter, I2CCommands
<1> QED
  BY <1>1, ForeignOK

\* What opens a session: for I2C it frees the line last.
LEMMA SetUpCalm ==
  ASSUME NEW m \in Modes
  PROVE  /\ m.bus # "i2c" => Plain(SetUp(m))
         /\ m.bus = "i2c" => (\A inFrame: Paid(SetUp(m), inFrame)) /\ FreedAfter(Tail(SetUp(m)), 1)
<1>1. m.bus \in {"spi", "i2c", "mw", "isp"}
  BY AvrIspAssumption
<1> DEFINE a == Out(Bare("FIRMWARE_VER"))
           b == [In(1) EXCEPT !.ver = TRUE]
<1>2. Foreign(Config) /\ Foreign(a) /\ Foreign(b)
  BY BareForeign, ForeignOK DEF I2CCommands
<1>3. DevOpen = <<Config, a, b>>
  BY DEF DevOpen
<1> HIDE DEF a, b
<1>4. Calm(DevOpen)
  <2> DEFINE s == <<Config, a, b>>
  <2>1. s = [k \in 1..3 |-> s[k]] /\ \A k \in 1..3: s[k] \in {Config, a, b}
    OBVIOUS
  <2> HIDE DEF s
  <2>2. Listed(s) /\ Len(s) = 3
    BY <2>1, ListedTable
  <2>3. Calm(s)
    BY <1>2, <2>1, <2>2 DEF Calm, Plain
  <2> QED
    BY <1>3, <2>3 DEF s
<1>5. Calm(SetSpeed(m))
  BY BareForeign, ForeignOK, CalmOK DEF SetSpeed
<1>6. CASE m.bus = "spi"
  <2>1. Calm(<<Out(Bare("ENTER_SPI25")), In(1)>>)
    BY BareForeign, ForeignOK, CalmOK DEF I2CCommands
  <2>2. SetUp(m) = DevOpen \o SetSpeed(m) \o <<Out(Bare("ENTER_SPI25")), In(1)>>
    BY <1>6 DEF SetUp
  <2>3. Calm(DevOpen \o SetSpeed(m))
    BY <1>4, <1>5, CalmOK
  <2>4. Calm(SetUp(m))
    BY <2>1, <2>2, <2>3, CalmOK
  <2> QED
    BY <1>6, <2>4 DEF Calm
<1>7. CASE m.bus = "mw"
  <2>1. Calm(<<Out(Bare("MW_INIT"))>>)
    BY BareForeign, CalmOK DEF I2CCommands
  <2>2. SetUp(m) = DevOpen \o SetSpeed(m) \o <<Out(Bare("MW_INIT"))>>
    BY <1>7 DEF SetUp
  <2>3. Calm(DevOpen \o SetSpeed(m))
    BY <1>4, <1>5, CalmOK
  <2>4. Calm(SetUp(m))
    BY <2>1, <2>2, <2>3, CalmOK
  <2> QED
    BY <1>7, <2>4 DEF Calm
<1>8. CASE m.bus = "isp"
  <2> DEFINE p == Tool(Bare("SIGN_ON"), 0, 1)
             q == Tool(GetParameter("VTARGET"), 0, 2)
             r == Tool(SetParameter("SCK_DURATION", m.sck), 0, 1)
             s == Tool(SetParameter("RESET_POLARITY", 1), 0, 1)
             e == Tool(Bare("ENTER_ISP"), 0, 1)
  <2>1. Calm(p) /\ Calm(q) /\ Calm(r) /\ Calm(s) /\ Calm(e) /\ Calm(<<Config>>)
    BY BareForeign, ForeignOK, CalmOK DEF I2CCommands
  <2>2. SetUp(m) = <<Config>> \o p \o q \o r \o s \o e
    BY <1>8 DEF SetUp, ToolOpen
  <2> HIDE DEF p, q, r, s, e
  <2>3. Calm(<<Config>> \o p)
    BY <2>1, CalmOK
  <2>4. Calm(<<Config>> \o p \o q)
    BY <2>1, <2>3, CalmOK
  <2>5. Calm(<<Config>> \o p \o q \o r)
    BY <2>1, <2>4, CalmOK
  <2>6. Calm(<<Config>> \o p \o q \o r \o s)
    BY <2>1, <2>5, CalmOK
  <2>7. Calm(SetUp(m))
    BY <2>1, <2>2, <2>6, CalmOK
  <2> QED
    BY <1>8, <2>7 DEF Calm
<1>9. CASE m.bus = "i2c"
  <2> DEFINE i == Out(Bare("I2C_INIT"))
             s == DevOpen \o <<i>>
  <2>1. i.ep = "out" /\ i.head.cmd = "I2C_INIT"
    BY DEF Out, Bare
  <2> HIDE DEF i
  <2>2. SetUp(m) = s
    BY <1>9 DEF SetUp, i
  <2>3. /\ Len(s) = 4 /\ Listed(s) /\ s[4] = i
        /\ \A k \in 1..4: Foreign(s[k]) \/ s[k] = i
    <3>1. Listed(DevOpen) /\ Len(DevOpen) = 3 /\ \A k \in 1..3: Foreign(DevOpen[k])
      <4>1. Len(DevOpen) = 3
        BY <1>3
      <4> QED
        BY <1>4, <4>1 DEF Calm, Plain
    <3>2. Listed(<<i>>) /\ Len(<<i>>) = 1 /\ <<i>>[1] = i
      BY ListedShort
    <3>3. /\ Listed(s) /\ Len(s) = 3 + 1
          /\ \A k \in 1..3 + 1: s[k] = IF k <= 3 THEN DevOpen[k] ELSE <<i>>[k - 3]
      <4> DEFINE w == <<i>>
      <4>1. Listed(w) /\ Len(w) = 1 /\ s = DevOpen \o w
        BY <3>2
      <4> HIDE DEF w, s
      <4>2. /\ Listed(DevOpen \o w) /\ Len(DevOpen \o w) = Len(DevOpen) + Len(w)
            /\ \A k \in 1..Len(DevOpen) + Len(w):
                 (DevOpen \o w)[k] = IF k <= Len(DevOpen) THEN DevOpen[k] ELSE w[k - Len(DevOpen)]
        BY <3>1, <4>1, ListedConcat
      <4>3. Len(DevOpen) = 3
        BY <3>1
      <4> QED
        BY <4>1, <4>2, <4>3 DEF w
    <3> HIDE DEF s
    <3>4. \A k \in 1..4: k \in 1..3 \/ k = 4
      OBVIOUS
    <3> QED
      BY <3>1, <3>2, <3>3, <3>4
  <2>5. ~Pulls(i.head) /\ Frees(i.head)
    BY <2>1 DEF Pulls, Frees
  <2>6. \A c: Pulls(c) => c.cmd \in I2CCommands
    BY DEF Pulls, I2CCommands
  <2> HIDE DEF s
  <2>7. \A k \in 1..Len(s): ~(s[k].ep = "out" /\ Pulls(s[k].head))
    BY <1>2, <2>3, <2>5, <2>6 DEF Foreign
  <2>8. \A inFrame: Paid(s, inFrame)
    BY <2>7 DEF Paid
  <2>9. FreedAfter(Tail(s), 1)
    <3>1. 4 \in 2 + 1..Len(s) /\ s # <<>> /\ 1 \in 1..Len(s) - 1
      BY <2>3, ListedShort
    <3>2. FreedAfter(s, 1 + 1)
      BY <2>1, <2>3, <2>5, <3>1 DEF FreedAfter
    <3> QED
      BY <2>3, <3>1, <3>2, PaidTail
  <2> QED
    BY <1>9, <2>2, <2>8, <2>9
<1> QED
  BY <1>1, <1>6, <1>7, <1>8, <1>9

\* What ends a session is a command that leaves, in one packet, and for an
\* AVR its reply.
LEMMA TearDownShape ==
  ASSUME NEW m
  PROVE  LET s == TearDown(m)
         IN  /\ Plain(s) /\ s # <<>>
             /\ Head(s).ep = "out" /\ Head(s).head.cmd \in Leaves /\ PacketsOf(Head(s)) = 1
             /\ Tail(s) # <<>> => Head(Tail(s)).ep = "in" /\ Tail(Tail(s)) = <<>>
<1> DEFINE c == Bare("LEAVE_ISP")
           d == Bare("LEAVE_SPI25")
           t == [Out(c) EXCEPT !.off = 0, !.short = TRUE, !.must = TRUE]
           u == [In(1) EXCEPT !.short = TRUE, !.must = TRUE]
           o == Out(d)
<1>1. c.cmd = "LEAVE_ISP" /\ c.len = 0 /\ d.cmd = "LEAVE_SPI25" /\ d.len = 0
  BY DEF Bare
<1> HIDE DEF c, d
<1>2. /\ t.ep = "out" /\ t.head = c /\ t.short = TRUE /\ u.ep = "in"
      /\ o.ep = "out" /\ o.head = d /\ o.short = FALSE
  BY DEF Out, In
<1>3. TearDown(m) = <<t, u>> \/ TearDown(m) = <<o>>
  BY DEF TearDown, Tool, c, d
<1> HIDE DEF t, u, o
<1>4. ASSUME NEW x, x.head.len = 0 PROVE PacketsOf(x) = 1
  <2>1. Elements(x) = 1
    BY <1>4 DEF Elements
  <2>2. 1 % PacketSize = 1 /\ (1 + PacketSize - 1) \div PacketSize = 1
    BY BankSize
  <2> QED
    BY <2>1, <2>2 DEF PacketsOf
<1>5. PacketsOf(t) = 1 /\ PacketsOf(o) = 1
  BY <1>1, <1>2, <1>4
<1>6. Foreign(t) /\ Foreign(u) /\ Foreign(o)
  BY <1>1, <1>2 DEF Foreign, I2CCommands
<1>7. Plain(<<t, u>>) /\ Plain(<<o>>)
  BY <1>6, PlainShort
<1>8. /\ Head(<<t, u>>) = t /\ Tail(<<t, u>>) = <<u>> /\ Head(<<u>>) = u /\ Tail(<<u>>) = <<>>
      /\ Head(<<o>>) = o /\ Tail(<<o>>) = <<>> /\ <<t, u>> # <<>> /\ <<o>> # <<>>
  OBVIOUS
<1>9. c.cmd \in Leaves /\ d.cmd \in Leaves
  BY <1>1 DEF Leaves
<1> QED
  BY <1>2, <1>3, <1>5, <1>7, <1>8, <1>9

\* A memory of an AVR is read and written without an I2C command.
LEMMA MemoryCalm ==
  ASSUME NEW c, c.op \in MemoryOps, c.blocks \in Seq(1..BlockMax)
  PROVE  Plain(Transfers(c))
<1> DEFINE a == [cmd |-> "LOAD_ADDRESS", len |-> 0, addr |-> c.addr, extended |-> c.extended]
           R(b) == Tool([cmd |-> c.op, len |-> 0, n |-> c.blocks[b]], 0, c.blocks[b] + 2)
           W(b) == Tool([cmd |-> c.op, len |-> c.blocks[b], paged |-> c.paged,
                         commit |-> c.paged, polled |-> TRUE], Offset(c, b), 1)
           Part(k) == (k + 1) \div 2
           Half(k) == IF k % 2 = 1 THEN 1 ELSE 2
           m == Len(c.blocks)
           r == [k \in 1..2 * m |-> R(Part(k))[Half(k)]]
           w == [k \in 1..2 * m |-> W(Part(k))[Half(k)]]
<1>1. m \in Nat
  BY LenProperties
<1>2. Calm(Tool(a, 0, 1))
  BY CalmOK DEF I2CCommands
<1>3. \A k: Half(k) \in {1, 2}
  OBVIOUS
<1>4. c.op \notin I2CCommands
  BY DEF MemoryOps, I2CCommands
<1>5. ASSUME NEW b, NEW h \in {1, 2} PROVE Foreign(R(b)[h]) /\ Foreign(W(b)[h])
  <2> DEFINE d == [cmd |-> c.op, len |-> 0, n |-> c.blocks[b]]
             e == [cmd |-> c.op, len |-> c.blocks[b], paged |-> c.paged, commit |-> c.paged, polled |-> TRUE]
             n == c.blocks[b] + 2
             off == Offset(c, b)
  <2>1. d.cmd \notin I2CCommands /\ e.cmd \notin I2CCommands
    BY <1>4
  <2> HIDE DEF d, e, n, off
  <2>2. Foreign(Tool(d, 0, n)[h]) /\ Foreign(Tool(e, off, 1)[h])
    BY <2>1, ForeignOK
  <2> QED
    BY <2>2 DEF d, e, n, off
<1>6. Transfers(c) = Tool(a, 0, 1) \o r \/ Transfers(c) = Tool(a, 0, 1) \o w
  <2>1. CASE c.op \in {"READ_FLASH", "READ_EEPROM"}
    BY <2>1 DEF Transfers, Blocks
  <2>2. CASE c.op \in {"PROGRAM_FLASH", "PROGRAM_EEPROM"}
    BY <2>2 DEF Transfers, Blocks
  <2> QED
    BY <2>1, <2>2 DEF MemoryOps
<1> HIDE DEF R, W, Half, Part, m, a
<1>7. /\ \A k \in 1..2 * m: Foreign(r[k]) /\ Foreign(w[k])
      /\ r = [k \in 1..2 * m |-> r[k]] /\ w = [k \in 1..2 * m |-> w[k]] /\ 2 * m \in Nat
  BY <1>1, <1>3, <1>5
<1> HIDE DEF r, w
<1>8. Listed(r) /\ Len(r) = 2 * m /\ Listed(w) /\ Len(w) = 2 * m
  BY <1>7, ListedTable
<1>9. Calm(r) /\ Calm(w)
  BY <1>7, <1>8 DEF Calm, Plain
<1>10. Calm(Tool(a, 0, 1) \o r) /\ Calm(Tool(a, 0, 1) \o w)
  BY <1>2, <1>9, CalmOK
<1> QED
  BY <1>6, <1>10 DEF Calm

\* What a call on an AVR sends.
LEMMA AvrCalm ==
  ASSUME NEW c \in AvrJobs
  PROVE  Plain(Transfers(c))
<1> DEFINE S == [op: MemoryOps, addr: Nat, extended: BOOLEAN, paged: BOOLEAN, blocks: Seq(1..BlockMax), id: Nat]
           T == [op: {"CHIP_ERASE", "READ_FUSE", "PROGRAM_FUSE"}, id: Nat]
           U == [op: {"SPI_MULTI"}, n: Nat, id: Nat]
<1>1. c \in S \/ c \in T \/ c \in U
  BY Zenon DEF AvrJobs
<1>2. CASE c \in S
  <2>1. c.op \in MemoryOps /\ c.blocks \in Seq(1..BlockMax)
    BY <1>2
  <2> QED
    BY <2>1, MemoryCalm
<1>3. CASE c \in T
  <2> DEFINE d == [cmd |-> c.op, len |-> 0, polled |-> TRUE]
             e == [cmd |-> c.op, len |-> 0, id |-> c.id]
  <2>1. c.op \in {"CHIP_ERASE", "READ_FUSE", "PROGRAM_FUSE"}
    BY <1>3
  <2>2. Transfers(c) \in {Tool(d, 0, 1), Tool(Bare(c.op), 0, 2), Tool(e, 0, 1)}
    <3>1. CASE c.op = "CHIP_ERASE"
      BY <3>1 DEF Transfers
    <3>2. CASE c.op = "READ_FUSE"
      BY <3>2 DEF Transfers
    <3>3. CASE c.op = "PROGRAM_FUSE"
      BY <3>3 DEF Transfers
    <3> QED
      BY <2>1, <3>1, <3>2, <3>3
  <2>3. d.cmd \notin I2CCommands /\ e.cmd \notin I2CCommands /\ Bare(c.op).cmd \notin I2CCommands
    BY <2>1 DEF I2CCommands, Bare
  <2> HIDE DEF d, e
  <2> QED
    BY <2>2, <2>3, ForeignOK
<1>4. CASE c \in U
  <2> DEFINE d == [cmd |-> c.op, len |-> 1, n |-> c.n]
  <2>1. c.op = "SPI_MULTI"
    BY <1>4
  <2>2. Transfers(c) = Tool(d, 0, c.n + 2)
    BY <2>1 DEF Transfers
  <2>3. d.cmd \notin I2CCommands
    BY <2>1 DEF I2CCommands
  <2> HIDE DEF d
  <2> QED
    BY <2>2, <2>3, ForeignOK
<1> QED
  BY <1>1, <1>2, <1>3, <1>4

\* What a call on a 25-series or Microwire part sends.
LEMMA SerialCalm ==
  ASSUME NEW c, c.op \in {"SPIWrite", "SPIRead", "MWWrite", "MWRead", "MWIsBusy"}
  PROVE  Plain(Transfers(c))
<1> DEFINE s == [cmd |-> "SPI25_WRITE", len |-> c.n, cs |-> c.cs]
           r == [cmd |-> "SPI25_READ", len |-> 0, n |-> c.n, cs |-> c.cs]
           w == [cmd |-> "MW_WRITE", len |-> ByteNum(c.bits), cs |-> c.cs, bits |-> c.bits]
           d == [cmd |-> "MW_READ", len |-> 0, n |-> c.n, cs |-> c.cs]
           n == IF c.n = 0 THEN 1 ELSE c.n
           b == Bare("MW_BUSY")
<1>1. Transfers(c) \in {<<Out(s)>>, <<Out(r), In(c.n)>>, <<Out(w)>>, <<Out(d), In(n)>>, <<Out(b), In(1)>>}
  <2>1. CASE c.op = "SPIWrite"
    BY <2>1 DEF Transfers
  <2>2. CASE c.op = "SPIRead"
    BY <2>2 DEF Transfers
  <2>3. CASE c.op = "MWWrite"
    BY <2>3 DEF Transfers
  <2>4. CASE c.op = "MWRead"
    BY <2>4 DEF Transfers
  <2>5. CASE c.op = "MWIsBusy"
    BY <2>5 DEF Transfers
  <2> QED
    BY <2>1, <2>2, <2>3, <2>4, <2>5
<1>2. \A x \in {s, r, w, d, b}: x.cmd \notin I2CCommands
  BY DEF I2CCommands, Bare
<1> HIDE DEF s, r, w, d, n, b
<1>3. /\ Foreign(Out(s)) /\ Foreign(Out(r)) /\ Foreign(Out(w)) /\ Foreign(Out(d)) /\ Foreign(Out(b))
      /\ Foreign(In(c.n)) /\ Foreign(In(n)) /\ Foreign(In(1))
  BY <1>2, ForeignOK
<1> QED
  BY <1>1, <1>3, PlainShort

\* What a call on an I2C part sends: what it pulls low it frees, unless it
\* leaves the frame open; the stop frees the line.
LEMMA I2CPaid ==
  ASSUME NEW c \in I2CJobs
  PROVE  /\ Paid(Transfers(c), LeavesOpen(c))
         /\ c.op = "I2CStop" => Head(Transfers(c)).ep = "out" /\ Frees(Head(Transfers(c)).head)
         /\ c.op \in {"I2CStart", "I2CWriteByte", "I2CReadByte"} => LeavesOpen(c)
<1>1. /\ c.op \in {"I2CReadWrite", "I2CStart", "I2CStop", "I2CWriteByte", "I2CReadByte"}
      /\ c.op = "I2CReadWrite" => c.w \in Nat /\ c.r \in Nat /\ c.w + c.r > 0
  BY I2CJob
<1>2. CASE c.op \in {"I2CStart", "I2CWriteByte", "I2CReadByte"}
  <2>1. LeavesOpen(c)
    BY <1>2 DEF LeavesOpen
  <2> QED
    BY <1>2, <2>1 DEF Paid
<1>3. CASE c.op = "I2CStop"
  <2> DEFINE t == Out(Bare("I2C_STOP"))
  <2>1. t.ep = "out" /\ t.head.cmd = "I2C_STOP"
    BY DEF Out, Bare
  <2>2. Transfers(c) = <<t>>
    BY <1>3 DEF Transfers
  <2> HIDE DEF t
  <2>3. Frees(t.head) /\ ~Pulls(t.head)
    BY <2>1 DEF Frees, Pulls
  <2>4. Len(<<t>>) = 1 /\ <<t>>[1] = t /\ Head(<<t>>) = t
    OBVIOUS
  <2>5. Paid(<<t>>, LeavesOpen(c))
    BY <2>3, <2>4 DEF Paid
  <2> QED
    BY <1>3, <2>1, <2>2, <2>3, <2>4, <2>5
<1>4. CASE c.op = "I2CReadWrite"
  <2> DEFINE d == [cmd |-> "I2C_WRITE", len |-> c.w, stop |-> IF c.r > 0 THEN 0 ELSE 1]
             e == [cmd |-> "I2C_READ", len |-> 0, n |-> c.r]
             u == Out(d)
             v == Out(e)
             x == In(c.r)
             s == IF c.w > 0 THEN <<u>> ELSE <<>>
             t == IF c.r > 0 THEN <<v, x>> ELSE <<>>
  <2>1. Transfers(c) = s \o t
    BY <1>4 DEF Transfers
  <2>2. /\ u.ep = "out" /\ v.ep = "out" /\ x.ep = "in"
        /\ ~(c.r > 0) => ~Pulls(u.head)
        /\ Frees(v.head) /\ ~Pulls(v.head)
    BY DEF Out, In, Pulls, Frees
  <2> HIDE DEF u, v, x, d, e
  <2>3. Listed(s) /\ Listed(t) /\ Len(s) = (IF c.w > 0 THEN 1 ELSE 0) /\ Len(t) = (IF c.r > 0 THEN 2 ELSE 0)
    BY ListedShort
  <2>4. (c.w > 0 => s[1] = u) /\ (c.r > 0 => t[1] = v /\ t[2] = x)
    OBVIOUS
  <2> HIDE DEF s, t
  <2>5. /\ Listed(s \o t) /\ Len(s \o t) = Len(s) + Len(t)
        /\ \A k \in 1..Len(s) + Len(t): (s \o t)[k] = IF k <= Len(s) THEN s[k] ELSE t[k - Len(s)]
    BY <2>3, ListedConcat
  <2>6. ASSUME NEW k \in 1..Len(s \o t), (s \o t)[k].ep = "out", Pulls((s \o t)[k].head)
        PROVE  FreedAfter(s \o t, k)
    <3>1. k = 1 /\ c.w > 0 /\ c.r > 0
      <4>1. CASE c.w > 0
        <5>1. k = 1 => (s \o t)[k] = u
          BY <2>3, <2>4, <2>5, <4>1
        <5>2. k # 1 => c.r > 0 /\ (s \o t)[k] \in {v, x}
          BY <1>1, <1>4, <2>3, <2>4, <2>5, <4>1
        <5> QED
          BY <2>2, <2>6, <4>1, <5>1, <5>2
      <4>2. CASE ~(c.w > 0)
        <5>1. c.r > 0 /\ (s \o t)[k] \in {v, x}
          BY <1>1, <1>4, <2>3, <2>4, <2>5, <4>2
        <5> QED
          BY <2>2, <2>6, <5>1
      <4> QED
        BY <4>1, <4>2
    <3>2. Len(s \o t) = 3 /\ (s \o t)[2] = v
      BY <2>3, <2>4, <2>5, <3>1
    <3>3. 2 \in k + 1..Len(s \o t)
      BY <3>1, <3>2
    <3> QED
      BY <2>2, <3>2, <3>3 DEF FreedAfter
  <2>7. Paid(s \o t, LeavesOpen(c))
    BY <2>6 DEF Paid
  <2> QED
    BY <1>4, <2>1, <2>7
<1> QED
  BY <1>1, <1>2, <1>3, <1>4

\* A call with its number, on each bus.
LEMMA CallsPaid ==
  ASSUME NEW b \in {"spi", "i2c", "mw", "isp"}, NEW j \in JobsOf(b), NEW k \in Nat
  PROVE  LET c == [j EXCEPT !.id = k]
         IN  /\ c.op = j.op
             /\ b # "i2c" => Plain(Transfers(c))
             /\ b = "i2c" => c \in I2CJobs
<1> DEFINE c == [j EXCEPT !.id = k]
<1>1. j \in JobType(b)
  BY AvrIspAssumption
<1>2. CASE b = "spi"
  <2>1. j \in SpiJobs
    BY <1>1, <1>2, JobsByBus
  <2>2. c.op \in {"SPIWrite", "SPIRead"} /\ c.op = j.op
    BY <2>1 DEF SpiJobs
  <2> HIDE DEF c
  <2>3. Plain(Transfers(c))
    BY <2>2, SerialCalm
  <2> QED
    BY <1>2, <2>2, <2>3 DEF c
<1>3. CASE b = "i2c"
  <2> DEFINE S == {i \in [op: {"I2CReadWrite"}, w: Word, r: Word, id: Nat]: i.w + i.r > 0}
             T == [op: {"I2CStart", "I2CStop", "I2CWriteByte"}, id: Nat]
             U == [op: {"I2CReadByte"}, ack: {"ack", "nack"}, id: Nat]
  <2>1. I2CJobs = S \cup T \cup U
    BY DEF I2CJobs
  <2>2. j \in I2CJobs
    BY <1>1, <1>3, JobsByBus
  <2>3. /\ j \in S => c \in S /\ c.op = j.op
        /\ j \in T => c \in T /\ c.op = j.op
        /\ j \in U => c \in U /\ c.op = j.op
    OBVIOUS
  <2> HIDE DEF S, T, U, c
  <2>4. c \in I2CJobs /\ c.op = j.op
    BY <2>1, <2>2, <2>3, Zenon
  <2> QED
    BY <1>3, <2>4 DEF c
<1>4. CASE b = "mw"
  <2> DEFINE S == [op: {"MWWrite"}, cs: {0, 1}, bits: Word, id: Nat]
             T == [op: {"MWRead"}, cs: {0, 1}, n: Word, id: Nat]
             U == [op: {"MWIsBusy"}, id: Nat]
  <2>1. MWJobs = S \cup T \cup U
    BY DEF MWJobs
  <2>2. j \in MWJobs
    BY <1>1, <1>4, JobsByBus
  <2>3. /\ j \in S => c.op = "MWWrite" /\ c.op = j.op
        /\ j \in T => c.op = "MWRead" /\ c.op = j.op
        /\ j \in U => c.op = "MWIsBusy" /\ c.op = j.op
    OBVIOUS
  <2> HIDE DEF S, T, U, c
  <2>4. c.op \in {"MWWrite", "MWRead", "MWIsBusy"} /\ c.op = j.op
    BY <2>1, <2>2, <2>3, Zenon
  <2>5. Plain(Transfers(c))
    BY <2>4, SerialCalm
  <2> QED
    BY <1>4, <2>4, <2>5 DEF c
<1>5. CASE b = "isp"
  <2> DEFINE S == [op: MemoryOps, addr: Nat, extended: BOOLEAN, paged: BOOLEAN, blocks: Seq(1..BlockMax), id: Nat]
             T == [op: {"CHIP_ERASE", "READ_FUSE", "PROGRAM_FUSE"}, id: Nat]
             U == [op: {"SPI_MULTI"}, n: Nat, id: Nat]
  <2>1. AvrJobs = S \cup T \cup U
    BY DEF AvrJobs
  <2>2. j \in AvrJobs
    BY <1>1, <1>5, JobsByBus
  <2>3. /\ j \in S => c \in S /\ c.op = j.op
        /\ j \in T => c \in T /\ c.op = j.op
        /\ j \in U => c \in U /\ c.op = j.op
    OBVIOUS
  <2> HIDE DEF S, T, U, c
  <2>4. c \in AvrJobs /\ c.op = j.op
    BY <2>1, <2>2, <2>3, Zenon
  <2>5. Plain(Transfers(c))
    BY <2>4, AvrCalm
  <2> QED
    BY <1>5, <2>4, <2>5 DEF c
<1> QED
  BY <1>2, <1>3, <1>4, <1>5

-----------------------------------------------------------------------------
(***************************************************************************)
(* What a session does to the pins.  A header that is at rest is released, *)
(* or will be by the command in the bank, which is the last of a session.  *)
(* In an I2C session that is in order SDA is low only within a frame, or   *)
(* while the call under way still has to free it; on other buses it never  *)
(* is.                                                                     *)
(***************************************************************************)
CallsInv ==
  /\ Now("config") => host.call.op = "Open" /\ host.todo = SetUp(mode)
  /\ host.call.op = "Close" => host.todo \in {TearDown(mode), Tail(TearDown(mode))} /\ ~host.inFrame

OffBusInv ==
  mode.bus # "i2c" =>
    /\ dev.cmd.cmd \notin I2CCommands /\ dev.bank.head.cmd \notin I2CCommands
    /\ ~dev.fw.pins.sdaLow
    /\ Plain(host.todo)

\* Whether SDA may be low once the device has worked off what it accepted.
SdaNow ==
  IF dev.bank.full /\ ~Midway THEN SdaAfter(Current, dev.fw.pins.sdaLow) ELSE dev.fw.pins.sdaLow

\* The call under way has still to free it.
Owed ==
  \/ Sending /\ Frees(Head(host.todo).head)
  \/ FreedAfter(host.todo, 1)

SdaInv ==
  mode.bus = "i2c" =>
    /\ Paid(host.todo, host.inFrame)
    /\ Orderly /\ ~AtRest /\ SdaNow => host.inFrame \/ Owed

Left ==
  IF dev.bank.full THEN Current.cmd \in Leaves /\ ~dev.fw.pins.sdaLow ELSE Released(dev.fw.pins)

\* The command that ends a session has been sent, after all went well.
Leaving == host.call.op = "Close" /\ host.good /\ (Now("in") \/ host.sent = 1)

LeftInv == AtRest \/ Leaving => Left

PinsInv == PinsOK(dev.fw.pins) /\ CallsInv /\ OffBusInv /\ SdaInv /\ LeftInv

\* The host is in no command.
LEMMA AtRestFacts ==
  ASSUME IInv
  PROVE  /\ AtRest => ~Midway /\ host.sent = 0 /\ Orderly
         /\ host.call = NoCall => ~Midway /\ host.sent = 0 /\ host.todo = <<>> /\ host.call.op = "none"
         /\ Now("in") \/ Now("config") => ~Midway /\ host.sent = 0
         /\ ~Sending => ~Midway
         /\ host.todo = <<>> <=> host.call = NoCall
         /\ Listed(host.todo) /\ TodoOK(host.todo) /\ host.sent \in Nat
         /\ DOMAIN host = DOMAIN Quiet
         /\ host.entered => ~host.clean
         /\ host.clean => host.call = NoCall \/ host.call.op = "Open"
<1>1. HostOK(host) /\ HostTypes
  BY InvTypes
<1>2. /\ host.sent > 0 => host.todo # <<>> /\ Head(host.todo).ep = "out"
      /\ host.todo = <<>> <=> host.call = NoCall
      /\ host.sent \in Nat /\ TodoOK(host.todo) /\ DOMAIN host = DOMAIN Quiet
  BY <1>1 DEF HostOK
<1>3. host.call = NoCall => host.sent = 0
  BY <1>2
<1>4. Now("in") \/ Now("config") => host.sent = 0
  BY <1>2 DEF Now
<1>5. AtRest => host.sent = 0 /\ Orderly
  BY <1>3, <1>4, Zenon DEF AtRest, Orderly
<1>6. host.sent = 0 => ~Midway
  BY DEF Midway
<1>7. ~Sending => ~Midway
  BY <1>2 DEF Midway, Sending, Now
<1>8. Listed(host.todo)
  BY <1>2 DEF TodoOK
<1>9. (host.entered => ~host.clean) /\ (host.clean => host.call = NoCall \/ host.call.op = "Open")
  BY <1>1, Zenon DEF HostTypes
<1>10. NoCall.op = "none"
  BY DEF NoCall
<1> QED
  BY <1>2, <1>3, <1>4, <1>5, <1>6, <1>7, <1>8, <1>9, <1>10

\* A session that ends with all well is in order.
LEMMA LeavingOrderly ==
  ASSUME IInv, PinsInv, AtRest \/ Leaving
  PROVE  Orderly /\ ~Midway
<1>1. CASE AtRest
  BY <1>1, AtRestFacts
<1>2. CASE Leaving
  <2>1. host.call.op = "Close" /\ host.good /\ (Now("in") \/ host.sent = 1)
    BY <1>2 DEF Leaving
  <2>2. host.todo # <<>>
    <3>1. host.call # NoCall
      BY <2>1 DEF NoCall
    <3> QED
      BY <3>1, AtRestFacts
  <2>3. Orderly
    BY <2>1, <2>2 DEF Orderly
  <2>4. ~Midway
    <3>1. CASE Now("in")
      BY <3>1, AtRestFacts
    <3>2. CASE host.sent = 1 /\ ~Now("in")
      <4>1. host.todo \in {TearDown(mode), Tail(TearDown(mode))}
        BY <2>1 DEF PinsInv, CallsInv
      <4>2. host.todo = TearDown(mode)
        BY <2>2, <3>2, <4>1, TearDownShape DEF Now
      <4>3. PacketsOf(Head(host.todo)) = 1
        BY <4>2, TearDownShape
      <4> QED
        BY <3>2, <4>3 DEF Midway
    <3> QED
      BY <2>1, <3>1, <3>2
  <2> QED
    BY <2>3, <2>4
<1> QED
  BY <1>1, <1>2

\* What the device holds, once it has worked it off, is the same whatever
\* the host goes to next.
LEMMA SameDevice ==
  ASSUME dev'.bank = dev.bank, dev'.cmd = dev.cmd, dev'.fw = dev.fw
  PROVE  /\ Left' <=> Left
         /\ (Midway' <=> Midway) => (SdaNow' <=> SdaNow)
<1>1. Current' = Current
  BY DEF Current
<1>2. Left' <=> Left
  BY <1>1, Zenon DEF Left, Released
<1>3. SdaAfter(Current, dev.fw.pins.sdaLow)' = SdaAfter(Current, dev.fw.pins.sdaLow)
  BY <1>1 DEF SdaAfter, Pulls
<1>4. ASSUME Midway' <=> Midway PROVE SdaNow' <=> SdaNow
  BY <1>3, <1>4, Zenon DEF SdaNow
<1> QED
  BY <1>2, <1>4

\* What the pins depend on of the host has not changed.
LEMMA HostSame ==
  ASSUME host'.todo = host.todo, host'.call = host.call, host'.clean = host.clean, host'.good = host.good,
         host'.sent = host.sent, host'.inFrame = host.inFrame, mode' = mode,
         port' = port \/ port' = "broken"
  PROVE  /\ CallsInv => CallsInv'
         /\ Midway' <=> Midway
         /\ Owed => Owed'
         /\ AtRest' <=> AtRest
         /\ Leaving' <=> Leaving
         /\ Orderly' => Orderly
         /\ Plain(host.todo) => Plain(host'.todo)
         /\ Paid(host.todo, host.inFrame) => Paid(host'.todo, host'.inFrame)
<1>1. \A ep: Now(ep)' <=> Now(ep)
  BY DEF Now
<1>2. Now("config")' <=> Now("config")
  BY DEF Now
<1>3. Now("in")' <=> Now("in")
  BY DEF Now
<1>4. Now("out")' <=> Now("out")
  BY DEF Now
<1>5. (Midway' <=> Midway) /\ (Sending' <=> Sending)
  BY <1>4 DEF Midway, Sending, PacketsOf, Elements
<1>6. Owed => Owed'
  BY <1>5 DEF Owed, FreedAfter, Frees
<1>7. CallsInv => CallsInv'
  BY <1>2 DEF CallsInv, SetUp, TearDown
<1>8. (AtRest' <=> AtRest) /\ (Leaving' <=> Leaving)
  BY <1>2, <1>3, Zenon DEF AtRest, Leaving
<1>9. Orderly' => Orderly
  BY <1>8 DEF Orderly
<1> QED
  BY <1>5, <1>6, <1>7, <1>8, <1>9, Zenon

\* Neither has what the device holds.
LEMMA NothingMoves ==
  ASSUME PinsInv,
         host'.todo = host.todo, host'.call = host.call, host'.clean = host.clean, host'.good = host.good,
         host'.sent = host.sent, host'.inFrame = host.inFrame, mode' = mode,
         port' = port \/ port' = "broken",
         dev'.bank = dev.bank, dev'.cmd = dev.cmd, dev'.fw = dev.fw
  PROVE  PinsInv'
<1>1. /\ CallsInv => CallsInv'
      /\ Midway' <=> Midway
      /\ Owed => Owed'
      /\ AtRest' <=> AtRest
      /\ Leaving' <=> Leaving
      /\ Orderly' => Orderly
      /\ Plain(host.todo) => Plain(host'.todo)
      /\ Paid(host.todo, host.inFrame) => Paid(host'.todo, host'.inFrame)
  BY HostSame
<1>2. (Left' <=> Left) /\ (SdaNow' <=> SdaNow)
  BY <1>1, SameDevice
<1>3. PinsOK(dev.fw.pins)'
  BY DEF PinsInv, PinsOK
<1>4. OffBusInv'
  BY <1>1, Zenon DEF PinsInv, OffBusInv
<1>5. SdaInv'
  BY <1>1, <1>2, Zenon DEF PinsInv, SdaInv
<1>6. LeftInv'
  BY <1>1, <1>2, Zenon DEF PinsInv, LeftInv
<1> QED
  BY <1>1, <1>3, <1>4, <1>5, <1>6, Zenon DEF PinsInv

\* What the end of a transfer leaves.
LEMMA EndsKeeps ==
  ASSUME HostTypes, host.todo # <<>>, NEW ok \in BOOLEAN, NEW got, Ends(ok, got)
  PROVE  /\ host'.inFrame = host.inFrame
         /\ \/ /\ host'.todo = Tail(host.todo) /\ host'.todo # <<>>
               /\ host'.call = host.call
               /\ host'.good => host.good /\ ok
            \/ /\ host'.todo = <<>> /\ host'.call = NoCall
               /\ ok => Tail(host.todo) = <<>>
               /\ host'.clean => ok /\ host.good /\ host.call.op = "Close"
<1> DEFINE t == Head(host.todo)
           good == host.good /\ ok
           g == [host EXCEPT !.todo = Tail(@), !.sent = 0, !.got = <<>>, !.replies = @ \o got, !.good = good]
           stop == ~ok /\ t.must
           refusals == IF ~ok /\ t.ep = "in" /\ t.ver THEN BOOLEAN ELSE {FALSE}
<1>1. PICK refused \in refusals:
        IF g.todo = <<>> \/ stop \/ refused THEN Settled(g, good, refused) ELSE host' = g
  BY DEF Ends
<1>2. refused \in BOOLEAN /\ (ok => ~refused) /\ (ok => ~stop)
  OBVIOUS
<1>3. DOMAIN host = DOMAIN Quiet /\ host.good \in BOOLEAN /\ host.call # NoCall
  BY DEF HostTypes, HostOK
<1>4. good \in BOOLEAN /\ (good => ok /\ host.good)
  BY <1>3
<1> HIDE DEF good
<1>7. /\ DOMAIN g = DOMAIN Quiet /\ g.made = host.made /\ g.good = good /\ g.todo = Tail(host.todo)
      /\ g.call = host.call /\ g.sent = 0 /\ g.entered = host.entered /\ g.clean = host.clean
      /\ g.inFrame = host.inFrame
  BY <1>3 DEF Quiet
<1> HIDE DEF g, refusals, stop
<1>8. CASE Settled(g, good, refused) /\ (g.todo = <<>> \/ stop \/ refused)
  <2>1. good => ~refused
    BY <1>2, <1>4
  <2>2. g.made \in 0..MaxJobs /\ (g.entered <=> host.entered) /\ (g.clean <=> host.clean)
    BY <1>7 DEF HostTypes, HostOK
  <2>3. /\ host'.todo = <<>> /\ host'.call = NoCall
        /\ host'.clean => good /\ g.call.op = "Close"
    <3>1. g.good = good /\ g.call = host.call /\ g.sent = 0 /\ DOMAIN g = DOMAIN Quiet
      BY <1>7
    <3> QED
      BY <1>2, <1>3, <1>4, <1>8, <2>1, <2>2, <3>1, SettledOK
  <2>4. host'.inFrame = g.inFrame
    <3> DEFINE clean == (g.call.op = "Close" /\ good) \/ (g.clean /\ g.call.op # "Open")
               entered == CASE g.call.op = "Open"  -> ~refused /\ (mode.bus = "isp" => good)
                            [] g.call.op = "Close" -> FALSE
                            [] OTHER               -> g.entered
    <3>1. host' = [g EXCEPT !.call = NoCall, !.todo = <<>>, !.clean = clean, !.entered = entered]
      BY <1>8 DEF Settled
    <3> HIDE DEF clean, entered
    <3> QED
      BY <1>7, <3>1 DEF Quiet
  <2>5. ok => Tail(host.todo) = <<>>
    BY <1>2, <1>7, <1>8
  <2> QED
    BY <1>4, <1>7, <2>3, <2>4, <2>5
<1>9. CASE host' = g /\ g.todo # <<>>
  BY <1>4, <1>7, <1>9
<1> QED
  BY <1>1, <1>8, <1>9

\* A command that is to be sent needs a packet at least.
LEMMA SendingStarts ==
  ASSUME NEW s, TodoOK(s), s # <<>>, Head(s).ep = "out"
  PROVE  0 < PacketsOf(Head(s))
<1>1. TransferOK(Head(s))
  BY TodoGoesOn
<1>2. Head(s).head.len \in Nat
  BY <1>1 DEF TransferOK, OutOK, CommandOK
<1>3. PacketsOf(Head(s)) \in Nat \ {0}
  BY <1>2, PacketsCount
<1> QED
  BY <1>3

\* A transfer is over.
LEMMA EndsPins ==
  ASSUME IInv, PinsInv, host.todo # <<>>, NEW ok \in BOOLEAN, NEW got, Ends(ok, got), mode' = mode,
         dev'.bank = dev.bank, dev'.cmd = dev.cmd, dev'.fw = dev.fw,
         ok => ~Sending
  PROVE  PinsInv'
<1> DEFINE s == host.todo
           td == TearDown(mode)
           continues == /\ host'.todo = Tail(s) /\ host'.todo # <<>> /\ host'.call = host.call
                        /\ host'.good => host.good /\ ok
           settles == /\ host'.todo = <<>> /\ host'.call = NoCall
                      /\ ok => Tail(s) = <<>>
                      /\ host'.clean => ok /\ host.good /\ host.call.op = "Close"
<1>1. HostTypes /\ HostOK(host)
  BY InvTypes
<1>2. /\ HostTypes' /\ host'.sent = 0
      /\ host'.todo # <<>> => Head(host'.todo).ep # "config"
      /\ Orderly' => ok /\ (Orderly \/ Head(host.todo).ep = "config")
  BY <1>1, EndsOK
<1>3. host'.inFrame = host.inFrame /\ (continues \/ settles)
  BY <1>1, EndsKeeps
<1>4. ~Now("config")' /\ ~Midway' /\ NoCall.op = "none"
  BY <1>2 DEF Now, Midway, NoCall
<1>5. Listed(s) /\ TodoOK(s) /\ host.call # NoCall /\ host.sent \in Nat
  BY AtRestFacts
<1>6. PinsOK(dev.fw.pins) /\ CallsInv /\ OffBusInv /\ SdaInv /\ LeftInv
  BY DEF PinsInv
<1>7. (Left' <=> Left) /\ (~Midway => (SdaNow' <=> SdaNow))
  BY <1>4, SameDevice
<1>8. TransferOK(Head(s)) /\ Moves(Tail(s)) /\ TodoOK(Tail(s))
  BY <1>5, TodoGoesOn, TodoStarts
<1>9. CallsInv'
  <2>1. ASSUME host'.call.op = "Close"
        PROVE  host'.todo \in {td, Tail(td)} /\ ~host'.inFrame
    <3>1. continues
      BY <1>3, <1>4, <2>1
    <3>2. s \in {td, Tail(td)} /\ ~host.inFrame
      BY <1>6, <2>1, <3>1 DEF CallsInv
    <3>3. s = td
      BY <3>1, <3>2, TearDownShape
    <3> QED
      BY <1>3, <3>1, <3>2, <3>3
  <2>2. TearDown(mode)' = td
    BY DEF TearDown
  <2> HIDE DEF td
  <2> QED
    BY <1>4, <2>1, <2>2 DEF CallsInv
<1>10. /\ Plain(s) => Plain(host'.todo)
       /\ Paid(s, host.inFrame) => Paid(host'.todo, host.inFrame)
  <2>1. Plain(<<>>) /\ Paid(<<>>, host.inFrame)
    BY PlainShort, PlainPaid
  <2>2. /\ Plain(s) => Plain(Tail(s))
        /\ Paid(s, host.inFrame) => Paid(Tail(s), host.inFrame)
    BY <1>5, PaidTail
  <2> QED
    BY <1>3, <2>1, <2>2
<1>11. OffBusInv'
  BY <1>6, <1>10, Zenon DEF OffBusInv
<1>12. SdaInv'
  <2>1. ASSUME mode.bus = "i2c", Orderly', ~AtRest', SdaNow', ~host.inFrame
        PROVE  Owed'
    <3>1. ok /\ ~Sending /\ ~Midway
      BY <1>2, <2>1, AtRestFacts
    <3>2. SdaNow
      BY <1>7, <2>1, <3>1
    <3>3. FreedAfter(s, 1) \/ (Now("config") /\ s = SetUp(mode))
      <4>1. CASE Now("config")
        BY <1>6, <4>1 DEF CallsInv
      <4>2. CASE ~Now("config")
        <5>1. Orderly /\ ~AtRest
          BY <1>2, <1>5, <2>1, <4>2 DEF Now, AtRest
        <5>2. Owed
          BY <1>6, <2>1, <3>2, <5>1, Zenon DEF SdaInv
        <5> QED
          BY <3>1, <5>2, Zenon DEF Owed
      <4> QED
        BY <4>1, <4>2
    <3>4. \E l \in 1..Len(Tail(s)): Tail(s)[l].ep = "out" /\ Frees(Tail(s)[l].head)
      <4>1. CASE FreedAfter(s, 1)
        BY <1>5, <4>1, PaidTail
      <4>2. CASE Now("config") /\ s = SetUp(mode)
        <5>1. mode \in Modes
          BY InvTypes
        <5>2. FreedAfter(Tail(s), 1)
          BY <2>1, <4>2, <5>1, SetUpCalm
        <5>3. \A l \in 1 + 1..Len(Tail(s)): l \in 1..Len(Tail(s))
          OBVIOUS
        <5> QED
          BY <5>2, <5>3 DEF FreedAfter
      <4> QED
        BY <3>3, <4>1, <4>2
    <3>5. PICK l \in 1..Len(Tail(s)): Tail(s)[l].ep = "out" /\ Frees(Tail(s)[l].head)
      BY <3>4
    <3>6. Tail(s) # <<>> /\ continues
      <4>1. Tail(s) # <<>>
        <5>1. Len(Tail(s)) # 0
          BY <3>5
        <5> QED
          BY <1>8, <5>1, ListedLen DEF Moves
      <4> QED
        BY <1>3, <3>1, <4>1
    <3>7. CASE l = 1
      <4>1. Head(Tail(s)) = Tail(s)[1]
        BY <1>8, <3>6, ListedTail DEF Moves
      <4>2. 0 < PacketsOf(Head(Tail(s)))
        BY <1>8, <3>5, <3>6, <3>7, <4>1, SendingStarts
      <4>3. Sending'
        BY <1>2, <3>5, <3>6, <3>7, <4>1, <4>2 DEF Sending, Now, PacketsOf, Elements
      <4>4. Frees(Head(host.todo).head)'
        BY <3>5, <3>6, <3>7, <4>1 DEF Frees
      <4> QED
        BY <4>3, <4>4 DEF Owed
    <3>8. CASE l # 1
      <4>1. l \in 1 + 1..Len(Tail(s))
        BY <3>8
      <4>2. FreedAfter(host.todo, 1)'
        BY <3>5, <3>6, <4>1 DEF FreedAfter, Frees
      <4> QED
        BY <4>2 DEF Owed
    <3> QED
      BY <3>7, <3>8
  <2>2. mode.bus = "i2c" => Paid(host.todo, host.inFrame)'
    BY <1>3, <1>6, <1>10 DEF SdaInv, Paid, FreedAfter, Frees, Pulls
  <2> QED
    BY <1>3, <2>1, <2>2, Zenon DEF SdaInv
<1>13. ASSUME ok, host.good, host.call.op = "Close" PROVE Left
  <2>1. s \in {td, Tail(td)}
    BY <1>6, <1>13 DEF CallsInv
  <2>2. ~Now("config") /\ ~Sending
    BY <1>6, <1>13 DEF CallsInv
  <2>3. Head(s).ep \in {"in", "out"}
    BY <1>8, <2>2 DEF TransferOK, Now
  <2>4. CASE Head(s).ep = "in"
    BY <1>6, <1>13, <2>4 DEF LeftInv, Leaving, Now
  <2>5. CASE Head(s).ep = "out"
    <3>1. s = td
      BY <2>1, <2>5, TearDownShape
    <3>2. PacketsOf(Head(s)) = 1
      BY <3>1, TearDownShape
    <3>3. host.sent = 1
      BY <1>1, <1>5, <2>2, <2>5, <3>2 DEF Sending, Now, HostOK
    <3> QED
      BY <1>6, <1>13, <3>3 DEF LeftInv, Leaving
  <2> QED
    BY <2>3, <2>4, <2>5
<1>14. LeftInv'
  <2>1. ASSUME AtRest' PROVE ok /\ host.good /\ host.call.op = "Close"
    <3>1. host'.clean /\ host'.call = NoCall
      BY <1>4, <2>1, Zenon DEF AtRest
    <3> QED
      BY <1>3, <1>5, <3>1
  <2>2. ASSUME Leaving' PROVE ok /\ host.good /\ host.call.op = "Close"
    BY <1>3, <1>4, <2>2 DEF Leaving
  <2> QED
    BY <1>7, <1>13, <2>1, <2>2, Zenon DEF LeftInv
<1>15. PinsOK(dev.fw.pins)'
  BY <1>6 DEF PinsOK
<1> QED
  BY <1>9, <1>11, <1>12, <1>14, <1>15 DEF PinsInv

\* The actions that end a transfer, and those that change only a reply.
LEMMA TransferPins ==
  ASSUME IInv, PinsInv, Configure \/ WriteDone \/ ReceivePacket \/ GiveUp \/ TimesOut
  PROVE  PinsInv'
<1>1. DevOK(dev) /\ HostOK(host)
  BY InvTypes
<1>2. CASE Configure
  <2>1. /\ host.todo # <<>> /\ Now("config") /\ dev' = [dev EXCEPT !.strayed = FALSE]
        /\ Ends(TRUE, <<>>) /\ mode' = mode
    BY <1>2 DEF Configure, Now
  <2>2. dev'.bank = dev.bank /\ dev'.cmd = dev.cmd /\ dev'.fw = dev.fw
    BY <1>1, <2>1 DEF DevOK
  <2>3. ~Sending
    BY <2>1 DEF Sending, Now
  <2> QED
    BY <2>1, <2>2, <2>3, EndsPins
<1>3. CASE WriteDone
  <2>1. host.todo # <<>> /\ ~Sending /\ Ends(TRUE, <<>>) /\ mode' = mode /\ dev' = dev
    BY <1>3 DEF WriteDone, Now
  <2> QED
    BY <2>1, EndsPins
<1>4. CASE ReceivePacket
  <2> DEFINE t   == Head(host.todo)
             got == host.got \o Head(dev.reply)
             ok  == Len(got) = t.n /\ (t.must => got[1] = STATUS_CMD_OK)
  <2>1. /\ host.todo # <<>> /\ t.ep = "in"
        /\ dev' = [dev EXCEPT !.reply = Tail(@)] /\ mode' = mode
        /\ Ends(ok, got) \/ (host' = [host EXCEPT !.got = got] /\ port' = port)
    BY <1>4 DEF ReceivePacket, Now
  <2>2. dev'.bank = dev.bank /\ dev'.cmd = dev.cmd /\ dev'.fw = dev.fw
    BY <1>1, <2>1 DEF DevOK
  <2>3. ~Sending /\ ok \in BOOLEAN
    BY <2>1 DEF Sending, Now
  <2> HIDE DEF ok, got
  <2>4. CASE Ends(ok, got)
    BY <2>1, <2>2, <2>3, <2>4, EndsPins
  <2>5. CASE host' = [host EXCEPT !.got = got] /\ port' = port
    <3>1. /\ host'.todo = host.todo /\ host'.call = host.call /\ host'.clean = host.clean
          /\ host'.good = host.good /\ host'.sent = host.sent /\ host'.inFrame = host.inFrame
      BY <1>1, <2>5 DEF HostOK, Quiet
    <3> QED
      BY <2>1, <2>2, <2>5, <3>1, NothingMoves
  <2> QED
    BY <2>1, <2>4, <2>5
<1>5. CASE GiveUp \/ TimesOut
  <2>1. host.todo # <<>> /\ Ends(FALSE, <<>>) /\ mode' = mode /\ dev' = dev
    BY <1>5, Zenon DEF GiveUp, TimesOut, Now
  <2> QED
    BY <2>1, EndsPins
<1> QED
  BY <1>2, <1>3, <1>4, <1>5

\* A reply is dropped, or nothing happens.
LEMMA DroppedPins ==
  ASSUME IInv, PinsInv, DropReply \/ Late \/ UNCHANGED vars
  PROVE  PinsInv'
<1>1. DevOK(dev)
  BY InvTypes
<1>2. host' = host /\ mode' = mode /\ port' = port
  BY Zenon DEF DropReply, Late, vars
<1>3. dev'.bank = dev.bank /\ dev'.cmd = dev.cmd /\ dev'.fw = dev.fw
  <2>1. dev' = dev \/ \E r: dev' = [dev EXCEPT !.reply = r]
    BY DEF DropReply, Late, vars
  <2> QED
    BY <1>1, <2>1 DEF DevOK
<1> QED
  BY <1>2, <1>3, NothingMoves

\* What the beginning of a call leaves as it is.
LEMMA BeginPins ==
  ASSUME IInv, PinsInv, NEW c, host.call = NoCall, host'.call = c, host'.sent = 0, c # NoCall,
         dev' = dev
  PROVE  /\ ~Midway' /\ ~Midway /\ host.todo = <<>> /\ host.sent = 0
         /\ Left' <=> Left
         /\ SdaNow' <=> SdaNow
         /\ ~Owed
<1>1. ~Midway /\ host.sent = 0 /\ host.todo = <<>>
  BY AtRestFacts
<1>2. ~Midway'
  BY DEF Midway
<1>3. (Left' <=> Left) /\ (SdaNow' <=> SdaNow)
  BY <1>1, <1>2, SameDevice
<1>4. ~Owed
  BY <1>1 DEF Owed, Sending, Now, FreedAfter
<1> QED
  BY <1>1, <1>2, <1>3, <1>4

\* A session is opened.  The bus may be another, if the last session left
\* the header at rest.
LEMMA OpenPins ==
  ASSUME IInv, PinsInv, Open
  PROVE  PinsInv'
<1> DEFINE c == [op |-> "Open"]
           todo == SetUp(mode')
<1>1. HostTypes /\ DevOK(dev) /\ (Orderly => ~dev.strayed /\ Aligned)
  BY InvTypes
<1>2. /\ ~host.entered /\ mode' \in Modes /\ Begin(c, todo, FALSE, TRUE)
      /\ ~host.clean => mode' = mode
      /\ dev' = dev /\ port' = port
  <2>1. mode \in Modes
    BY InvTypes
  <2> QED
    BY <2>1 DEF Open
<1>3. Opening(todo)
  BY <1>2, SetUpOpening
<1>4. TodoOK(todo) /\ todo # <<>> /\ Head(todo).ep = "config"
  BY <1>3, TodoStarts
<1>5. c # NoCall /\ ~IsJob(c) /\ c.op = "Open"
  BY DEF NoCall, IsJob
<1>6. /\ mode'.bus # "i2c" => Plain(todo)
      /\ mode'.bus = "i2c" => Paid(todo, FALSE)
  BY <1>2, SetUpCalm
<1>14. SetUp(mode)' = todo
  BY DEF SetUp, ToolOpen, SetSpeed
<1> HIDE DEF c, todo
<1>7. /\ host'.todo = todo /\ host'.call = c /\ host'.inFrame = FALSE
      /\ host'.clean = host.clean /\ host'.sent = 0 /\ host.call = NoCall
  BY <1>1, <1>2, <1>4, <1>5, BeginOK
<1>8. ~Midway' /\ ~Midway /\ (Left' <=> Left)
  BY <1>2, <1>5, <1>7, BeginPins
<1>9. PinsOK(dev.fw.pins) /\ OffBusInv /\ LeftInv
  BY DEF PinsInv
<1>10. CallsInv'
  BY <1>5, <1>7, <1>14 DEF CallsInv
<1>11. LeftInv'
  <2>1. AtRest' => AtRest
    BY <1>7, Zenon DEF AtRest
  <2>2. ~Leaving'
    BY <1>5, <1>7 DEF Leaving
  <2> QED
    BY <1>8, <1>9, <2>1, <2>2, Zenon DEF LeftInv
<1>12. OffBusInv'
  <2> SUFFICES ASSUME mode'.bus # "i2c"
               PROVE  /\ dev.cmd.cmd \notin I2CCommands /\ dev.bank.head.cmd \notin I2CCommands
                      /\ ~dev.fw.pins.sdaLow
    <3>1. mode'.bus # "i2c" => Plain(host'.todo)
      BY <1>6, <1>7
    <3>2. dev.cmd.cmd \notin I2CCommands /\ dev.bank.head.cmd \notin I2CCommands /\ ~dev.fw.pins.sdaLow
          => (dev.cmd.cmd \notin I2CCommands /\ dev.bank.head.cmd \notin I2CCommands /\ ~dev.fw.pins.sdaLow)'
      BY <1>2 DEF I2CCommands
    <3> QED
      BY <3>1, <3>2, Zenon DEF OffBusInv
  <2>1. CASE ~host.clean
    BY <1>2, <1>9, <2>1, Zenon DEF OffBusInv
  <2>2. CASE host.clean
    <3>1. AtRest /\ Left
      BY <1>7, <1>9, <2>2, Zenon DEF AtRest, LeftInv
    <3>2. Aligned
      BY <1>1, <3>1, AtRestFacts
    <3>3. ~dev.fw.pins.sdaLow
      BY <3>1, Zenon DEF Left, Released
    <3>4. NoCmd.cmd \notin I2CCommands /\ \A x \in Leaves: x \notin I2CCommands
      BY NothingOK DEF I2CCommands, Leaves
    <3>5. CASE dev.bank.full
      <4>1. (dev.cmd = NoCmd <=> dev.bank.head # NoCmd) /\ Current.cmd \in Leaves
        BY <3>1, <3>2, <3>5, Zenon DEF Aligned, Left
      <4> QED
        BY <3>3, <3>4, <4>1 DEF Current
    <3>6. CASE ~dev.bank.full
      <4>1. dev.cmd = NoCmd
        BY <1>8, <3>2, <3>6, Zenon DEF Aligned
      <4>2. dev.bank.head = NoCmd
        BY <1>1, <3>6, NothingOK DEF DevOK, BankOK
      <4> QED
        BY <3>3, <3>4, <4>1, <4>2
    <3> QED
      BY <3>5, <3>6
  <2> QED
    BY <2>1, <2>2
<1>13. SdaInv'
  <2>1. Orderly' => AtRest'
    <3>1. port # "open"
      BY <1>1, <1>2, Zenon DEF HostTypes
    <3> QED
      BY <1>2, <1>4, <1>5, <1>7, <3>1, Zenon DEF Orderly
  <2>2. mode'.bus = "i2c" => Paid(host.todo, host.inFrame)'
    BY <1>6, <1>7 DEF Paid, FreedAfter, Frees, Pulls
  <2> QED
    BY <2>1, <2>2, Zenon DEF SdaInv
<1>15. PinsOK(dev.fw.pins)'
  BY <1>2, <1>9 DEF PinsOK
<1> QED
  BY <1>10, <1>11, <1>12, <1>13, <1>15 DEF PinsInv

\* A session is closed, outside every frame.
LEMMA ClosePins ==
  ASSUME IInv, PinsInv, Close
  PROVE  PinsInv'
<1> DEFINE c == [op |-> "Close"]
           todo == TearDown(mode)
           good == port = "open"
<1>1. HostTypes /\ DevOK(dev)
  BY InvTypes
<1>2. /\ host.entered /\ ~host.inFrame /\ Begin(c, todo, FALSE, good)
      /\ dev' = dev /\ port' = "broken" /\ mode' = mode
  BY DEF Close
<1>3. Moves(todo) /\ todo # <<>>
  BY TearDownMoves
<1>4. TodoOK(todo) /\ good \in BOOLEAN
  BY <1>3, TodoStarts
<1>5. c # NoCall /\ ~IsJob(c) /\ c.op = "Close"
  BY DEF NoCall, IsJob
<1>6. Plain(todo) /\ Paid(todo, FALSE) /\ Head(todo).ep = "out"
  BY TearDownShape, PlainPaid
<1>7. TearDown(mode)' = todo
  BY <1>2 DEF TearDown
<1> HIDE DEF c, todo, good
<1>8. /\ host'.todo = todo /\ host'.call = c /\ host'.inFrame = FALSE /\ host'.good = good
      /\ host'.clean = host.clean /\ host'.sent = 0 /\ host.call = NoCall
  BY <1>1, <1>2, <1>3, <1>4, <1>5, BeginOK
<1>9. ~Midway' /\ ~Midway /\ (SdaNow' <=> SdaNow) /\ ~Owed
  BY <1>2, <1>5, <1>8, BeginPins
<1>10. PinsOK(dev.fw.pins) /\ OffBusInv /\ SdaInv
  BY DEF PinsInv
<1>11. ~host.clean /\ ~AtRest /\ ~AtRest'
  BY <1>1, <1>2, <1>8, Zenon DEF HostTypes, AtRest
<1>12. CallsInv'
  BY <1>5, <1>6, <1>7, <1>8 DEF CallsInv, Now
<1>13. LeftInv'
  <2>1. ~Leaving'
    BY <1>6, <1>8 DEF Leaving, Now
  <2> QED
    BY <1>11, <2>1, Zenon DEF LeftInv
<1>14. OffBusInv'
  <2>1. Plain(host'.todo)
    BY <1>6, <1>8
  <2> QED
    BY <1>2, <1>10, <2>1, Zenon DEF OffBusInv
<1>15. SdaInv'
  <2>1. ASSUME mode.bus = "i2c", Orderly' PROVE ~SdaNow'
    <3>1. good
      BY <1>2, <1>8, <1>11, <2>1 DEF Orderly
    <3>2. Orderly
      BY <3>1 DEF Orderly, good
    <3> QED
      BY <1>2, <1>9, <1>10, <1>11, <2>1, <3>2, Zenon DEF SdaInv
  <2>2. Paid(host'.todo, host'.inFrame)
    BY <1>6, <1>8
  <2> QED
    BY <1>2, <2>1, <2>2, Zenon DEF SdaInv
<1>16. PinsOK(dev.fw.pins)'
  BY <1>2, <1>10 DEF PinsOK
<1> QED
  BY <1>12, <1>13, <1>14, <1>15, <1>16 DEF PinsInv

\* A call is made.  One that is made within a frame goes on with it, or
\* ends it.
LEMMA MakePins ==
  ASSUME IInv, PinsInv, NEW j \in JobsOf(mode.bus), Make(j)
  PROVE  PinsInv'
<1> DEFINE k == host.made + 1
           c == [j EXCEPT !.id = k]
           todo == Transfers(c)
           frame == LeavesOpen(c)
<1>1. HostTypes /\ DevOK(dev) /\ HostOK(host) /\ mode \in Modes
  BY InvTypes
<1>2. /\ Begin(c, todo, frame, TRUE) /\ host.made < MaxJobs /\ host.entered /\ InOrder(j)
      /\ dev' = dev /\ port' = port /\ mode' = mode
  BY DEF Make
<1>3. k \in Nat
  BY <1>1, AvrIspAssumption DEF HostOK
<1>4. mode.bus \in {"spi", "i2c", "mw", "isp"}
  BY <1>1, AvrIspAssumption
<1> HIDE DEF k
<1>5. Moves(todo) /\ todo # <<>> /\ c.op \notin {"none", "Open", "Close"}
  BY <1>3, <1>4, CallMoves
<1>6. TodoOK(todo) /\ Head(todo).ep # "config" /\ c # NoCall
  BY <1>5, TodoStarts DEF NoCall
<1>7. /\ c.op = j.op
      /\ mode.bus # "i2c" => Plain(todo)
      /\ mode.bus = "i2c" => c \in I2CJobs
  BY <1>3, <1>4, CallsPaid
<1>8. ASSUME mode.bus = "i2c"
      PROVE  /\ Paid(todo, frame)
             /\ c.op \in {"I2CReadWrite", "I2CStart", "I2CStop", "I2CWriteByte", "I2CReadByte"}
             /\ c.op = "I2CStop" => Head(todo).ep = "out" /\ Frees(Head(todo).head)
             /\ c.op \in {"I2CStart", "I2CWriteByte", "I2CReadByte"} => frame
  <2>1. c \in I2CJobs
    BY <1>7, <1>8
  <2> HIDE DEF c
  <2> QED
    BY <2>1, I2CPaid, I2CJob
<1> HIDE DEF c, todo, frame
<1>9. /\ host'.todo = todo /\ host'.call = c /\ host'.inFrame = frame
      /\ host'.clean = host.clean /\ host'.sent = 0 /\ host.call = NoCall
  BY <1>1, <1>2, <1>5, <1>6, BeginOK
<1>10. ~Midway' /\ ~Midway /\ (SdaNow' <=> SdaNow) /\ ~Owed
  BY <1>2, <1>6, <1>9, BeginPins
<1>11. PinsOK(dev.fw.pins) /\ OffBusInv /\ SdaInv
  BY DEF PinsInv
<1>12. ~host.clean /\ ~AtRest /\ ~AtRest'
  BY <1>1, <1>2, <1>9, Zenon DEF HostTypes, AtRest
<1>13. CallsInv'
  BY <1>5, <1>6, <1>9 DEF CallsInv, Now
<1>14. LeftInv'
  <2>1. ~Leaving'
    BY <1>5, <1>9 DEF Leaving
  <2> QED
    BY <1>12, <2>1, Zenon DEF LeftInv
<1>15. OffBusInv'
  <2>1. mode.bus # "i2c" => Plain(host'.todo)
    BY <1>7, <1>9
  <2> QED
    BY <1>2, <1>11, <2>1, Zenon DEF OffBusInv
<1>16. SdaInv'
  <2>1. ASSUME mode.bus = "i2c", Orderly', SdaNow', ~host'.inFrame PROVE Owed'
    <3>1. port = "open"
      BY <1>2, <1>5, <1>9, <1>12, <2>1 DEF Orderly
    <3>2. Orderly
      BY <3>1 DEF Orderly
    <3>3. host.inFrame
      BY <1>10, <1>11, <1>12, <2>1, <3>2, Zenon DEF SdaInv
    <3>4. c.op = "I2CStop"
      BY <1>2, <1>7, <1>8, <1>9, <2>1, <3>3 DEF InOrder
    <3>5. Head(todo).ep = "out" /\ Frees(Head(todo).head)
      BY <1>8, <2>1, <3>4
    <3>6. 0 < PacketsOf(Head(todo))
      BY <1>5, <1>6, <3>5, SendingStarts
    <3>7. Sending'
      BY <1>5, <1>9, <3>5, <3>6 DEF Sending, Now, PacketsOf, Elements
    <3>8. Frees(Head(host.todo).head)'
      BY <1>9, <3>5 DEF Frees
    <3> QED
      BY <3>7, <3>8 DEF Owed
  <2>2. mode.bus = "i2c" => Paid(host'.todo, host'.inFrame)
    BY <1>8, <1>9
  <2> QED
    BY <1>2, <2>1, <2>2, Zenon DEF SdaInv
<1>17. PinsOK(dev.fw.pins)'
  BY <1>2, <1>11 DEF PinsOK
<1> QED
  BY <1>13, <1>14, <1>15, <1>16, <1>17 DEF PinsInv

\* A packet is sent: what the last of a command does to SDA counts from now.
LEMMA SendPacketPins ==
  ASSUME IInv, PinsInv, SendPacket
  PROVE  PinsInv'
<1> DEFINE t == Head(host.todo)
           h == t.head
<1>1. /\ HostTypes /\ DevOK(dev) /\ HostOK(host) /\ (Orderly => ~dev.strayed /\ Aligned)
  BY InvTypes
<1>2. port' = port /\ mode' = mode /\ Sending /\ dev.bank = Empty
  BY DEF SendPacket
<1>3. /\ host'.todo = host.todo /\ host'.call = host.call
      /\ host'.good = host.good /\ host'.clean = host.clean /\ host'.inFrame = host.inFrame
      /\ host.todo # <<>> /\ host'.sent = host.sent + 1
      /\ dev'.fw = dev.fw /\ dev'.cmd = dev.cmd /\ dev'.bank.full
      /\ dev'.bank.head = IF host.sent = 0 THEN h ELSE NoCmd
  BY <1>1, SendPacketOK
<1>4. Now("out") /\ host.sent < PacketsOf(t) /\ host.sent \in Nat /\ Listed(host.todo) /\ TodoOK(host.todo)
  BY <1>2, AtRestFacts DEF Sending
<1>5. ~AtRest /\ ~AtRest' /\ ~Now("in")' /\ ~Now("config")' /\ t.ep = "out"
  BY <1>3, <1>4, AtRestFacts DEF AtRest, Now
<1>6. PinsOK(dev.fw.pins) /\ CallsInv /\ OffBusInv /\ SdaInv
  BY DEF PinsInv
<1>7. ~dev.bank.full
  BY <1>2, NothingOK
<1>8. Orderly' => Orderly /\ Aligned
  <2>1. Orderly' => Orderly
    BY <1>2, <1>3, <1>5, Zenon DEF Orderly
  <2> QED
    BY <1>1, <2>1
<1>9. ASSUME Orderly' PROVE (host.sent = 0 => dev.cmd = NoCmd) /\ Current' = h /\ h # NoCmd
  <2>1. Aligned
    BY <1>8, <1>9
  <2>2. h # NoCmd
    <3>1. TransferOK(t)
      BY <1>3, <1>4, TodoGoesOn
    <3>2. h.cmd # "none"
      BY <1>5, <3>1 DEF TransferOK, OutOK
    <3> HIDE DEF h
    <3> QED
      BY <3>2, NothingOK
  <2>3. CASE host.sent = 0
    <3>1. ~Midway
      BY <2>3 DEF Midway
    <3>2. dev.cmd = NoCmd
      BY <1>7, <2>1, <3>1, Zenon DEF Aligned
    <3> QED
      BY <1>3, <2>2, <2>3, <3>2 DEF Current
  <2>4. CASE host.sent # 0
    <3>1. Midway
      BY <1>4, <2>4 DEF Midway
    <3>2. Current = h /\ dev.cmd # NoCmd
      BY <1>7, <2>1, <3>1, Zenon DEF Aligned
    <3> QED
      BY <1>3, <2>2, <2>4, <3>2 DEF Current
  <2> QED
    BY <2>3, <2>4
<1>10. CallsInv'
  BY <1>2, <1>3, <1>5, <1>6 DEF CallsInv, TearDown
<1>11. OffBusInv'
  <2>1. Plain(host.todo) => Foreign(t)
    BY <1>3, <1>4, PaidTail
  <2>2. Foreign(t) => dev'.bank.head.cmd \notin I2CCommands
    <3>1. NoCmd.cmd \notin I2CCommands
      BY NothingOK DEF I2CCommands
    <3> QED
      BY <1>3, <1>5, <3>1 DEF Foreign
  <2> QED
    BY <1>2, <1>3, <1>6, <2>1, <2>2, Zenon DEF OffBusInv
<1>12. LeftInv'
  <2> SUFFICES ASSUME Leaving' PROVE Left'
    BY <1>5, Zenon DEF LeftInv
  <2>1. host.call.op = "Close" /\ host.good /\ host.sent = 0
    BY <1>3, <1>4, <1>5 DEF Leaving
  <2>2. host.todo = TearDown(mode) /\ ~host.inFrame
    BY <1>3, <1>5, <1>6, <2>1, TearDownShape DEF CallsInv
  <2>3. h.cmd \in Leaves /\ Plain(host.todo)
    BY <2>2, TearDownShape
  <2>4. Orderly'
    BY <1>3, <2>1 DEF Orderly
  <2>5. Orderly /\ Current' = h
    BY <1>8, <1>9, <2>4
  <2>6. ~dev.fw.pins.sdaLow
    <3>1. CASE mode.bus # "i2c"
      BY <1>6, <3>1, Zenon DEF OffBusInv
    <3>2. CASE mode.bus = "i2c"
      <4>1. ~Owed
        <5>1. \A x: Foreign(x) /\ x.ep = "out" => ~Frees(x.head)
          BY DEF Foreign, Frees, I2CCommands
        <5>2. ~FreedAfter(host.todo, 1)
          <6>1. \A l \in 1 + 1..Len(host.todo): l \in 1..Len(host.todo)
            OBVIOUS
          <6> QED
            BY <2>3, <5>1, <6>1 DEF FreedAfter, Plain
        <5>3. Foreign(t)
          BY <1>3, <1>4, <2>3, PaidTail
        <5> QED
          BY <1>5, <5>1, <5>2, <5>3 DEF Owed
      <4>2. ~SdaNow
        BY <1>5, <1>6, <2>2, <2>5, <3>2, <4>1, Zenon DEF SdaInv
      <4> QED
        BY <1>7, <4>2, Zenon DEF SdaNow
    <3> QED
      BY <3>1, <3>2
  <2> QED
    BY <1>3, <2>3, <2>5, <2>6, Zenon DEF Left
<1>13. SdaInv'
  <2>1. mode.bus = "i2c" => Paid(host'.todo, host'.inFrame)
    BY <1>3, <1>6 DEF SdaInv
  <2>2. ASSUME mode.bus = "i2c", Orderly', SdaNow', ~host.inFrame PROVE Owed'
    <3>1. Orderly /\ Current' = h
      BY <1>8, <1>9, <2>2
    <3>2. SdaNow => Owed
      BY <1>5, <1>6, <2>2, <3>1, Zenon DEF SdaInv
    <3>3. SdaNow <=> dev.fw.pins.sdaLow
      BY <1>7, Zenon DEF SdaNow
    <3>4. FreedAfter(host.todo, 1) => Owed'
      BY <1>3 DEF Owed, FreedAfter, Frees
    <3>5. CASE Midway'
      <4>1. Owed
        BY <2>2, <3>2, <3>3, <1>3, <3>5, Zenon DEF SdaNow
      <4>2. Sending'
        BY <1>3, <1>4, <3>5 DEF Sending, Now, Midway, PacketsOf, Elements
      <4>3. Frees(Head(host.todo).head)' <=> Frees(Head(host.todo).head)
        BY <1>3 DEF Frees
      <4> QED
        BY <3>4, <4>1, <4>2, <4>3, Zenon DEF Owed
    <3>6. CASE ~Midway'
      <4>1. SdaAfter(h, dev.fw.pins.sdaLow)
        <5>1. SdaAfter(Current, dev.fw.pins.sdaLow)'
          BY <1>3, <2>2, <3>6, Zenon DEF SdaNow
        <5>2. SdaAfter(Current, dev.fw.pins.sdaLow)' <=> SdaAfter(h, dev.fw.pins.sdaLow)
          BY <1>3, <3>1 DEF SdaAfter, Pulls
        <5> QED
          BY <5>1, <5>2, Zenon
      <4>2. CASE h.cmd \in I2CCommands
        <5>1. Pulls(h)
          BY <4>1, <4>2, Zenon DEF SdaAfter
        <5>2. 1 \in 1..Len(host.todo) /\ host.todo[1] = t
          <6>1. Len(host.todo) \in Nat /\ Len(host.todo) >= 1
            BY <1>3, <1>4, ListedTail, ListedLen
          <6> QED
            BY <1>3, <1>4, <6>1, ListedTail
        <5>3. FreedAfter(host.todo, 1)
          BY <1>5, <1>6, <2>2, <5>1, <5>2 DEF SdaInv, Paid
        <5> QED
          BY <3>4, <5>3
      <4>3. CASE h.cmd \notin I2CCommands
        <5>1. dev.fw.pins.sdaLow
          BY <4>1, <4>3, Zenon DEF SdaAfter
        <5>2. Owed
          BY <3>2, <3>3, <5>1
        <5>3. ~Frees(h)
          BY <4>3 DEF Frees, I2CCommands
        <5> QED
          BY <3>4, <5>2, <5>3, Zenon DEF Owed
      <4> QED
        BY <4>2, <4>3
    <3> QED
      BY <3>5, <3>6
  <2> QED
    BY <1>2, <1>3, <2>1, <2>2, Zenon DEF SdaInv
<1>14. PinsOK(dev.fw.pins)'
  BY <1>3, <1>6 DEF PinsOK
<1> QED
  BY <1>10, <1>11, <1>12, <1>13, <1>14 DEF PinsInv

\* What the firmware has done once a packet is taken.
LEMMA TakeFw ==
  ASSUME NEW d, DevOK(d), NEW stuck, NEW stray
  PROVE  LET c == TakenFor(d, stray)
             data == TakenData(d)
         IN  Take(d, stuck, stray).fw = IF Complete(c, Len(d.got), Len(data))
                                        THEN ProcessCommand(d.fw, c, data, stuck).fw ELSE d.fw
<1> DEFINE c == TakenFor(d, stray)
           data == TakenData(d)
           taken == [d EXCEPT !.bank = Empty, !.cmd = c, !.got = data, !.strayed = @ \/ Mistaken(d)]
           e == Take(d, stuck, stray)
           r == ProcessCommand(d.fw, c, data, stuck)
<1>1. e = IF Complete(c, Len(d.got), Len(data)) THEN Executed(taken, c, data, stuck) ELSE taken
  BY Zenon DEF Take, TakenFor, TakenData, Mistaken
<1>2. DOMAIN d = DevFields
  BY DEF DevOK, DevFields
<1> HIDE DEF c, data
<1>3. DOMAIN taken = DevFields /\ taken.fw = d.fw
  BY <1>2 DEF DevFields
<1> HIDE DEF taken
<1>4. Executed(taken, c, data, stuck).fw = r.fw
  <2> DEFINE x == [taken EXCEPT !.fw = r.fw, !.reply = r.reply, !.cmd = NoCmd, !.got = <<>>]
  <2>1. Executed(taken, c, data, stuck) = x
    BY <1>3 DEF Executed
  <2> HIDE DEF r
  <2>2. x.fw = r.fw
    BY <1>3 DEF DevFields
  <2> QED
    BY <2>1, <2>2
<1> HIDE DEF e, r
<1> QED
  BY <1>1, <1>3, <1>4, Zenon DEF c, data, e, r

\* A packet is taken; the host is not concerned.
LEMMA TakePins ==
  ASSUME IInv, PinsInv, dev.bank.full, NEW stuck \in Nat, NEW stray, CommandOK(stray), stray.cmd \notin I2CCommands,
         dev' = Take(dev, stuck, stray), host' = host, mode' = mode, port' = port \/ port' = "broken"
  PROVE  PinsInv'
<1> DEFINE c == TakenFor(dev, stray)
           data == TakenData(dev)
           p == dev.fw.pins
           q == ProcessCommand(dev.fw, c, data, stuck).fw.pins
           complete == Complete(c, Len(dev.got), Len(data))
<1>1. DevOK(dev) /\ HostOK(host) /\ (Orderly => ~dev.strayed /\ Aligned)
  BY InvTypes
<1>2. /\ CallsInv => CallsInv'
      /\ Midway' <=> Midway
      /\ Owed => Owed'
      /\ AtRest' <=> AtRest
      /\ Leaving' <=> Leaving
      /\ Orderly' => Orderly
      /\ Plain(host.todo) => Plain(host'.todo)
      /\ Paid(host.todo, host.inFrame) => Paid(host'.todo, host'.inFrame)
  BY HostSame
<1>3. PinsOK(p) /\ CallsInv /\ OffBusInv /\ SdaInv /\ LeftInv
  BY DEF PinsInv
<1>4. /\ dev'.bank = Empty
      /\ IF complete THEN dev'.cmd = NoCmd ELSE dev'.cmd = c
  BY <1>1, TakeOK
<1>5. dev'.fw.pins = IF complete THEN q ELSE p
  <2>1. dev'.fw = IF complete THEN ProcessCommand(dev.fw, c, data, stuck).fw ELSE dev.fw
    BY <1>1, TakeFw
  <2> HIDE DEF complete, c, data
  <2> QED
    BY <2>1
<1>6. CommandOK(c) /\ FwOK(dev.fw)
  BY <1>1 DEF TakenFor, DevOK, BankOK
<1>7. /\ PinsOK(q)
      /\ q.sdaLow => SdaAfter(c, p.sdaLow)
      /\ c.cmd \in Leaves /\ ~p.sdaLow => Released(q)
  BY <1>3, <1>6, CommandPins
<1>8. c = dev.cmd \/ c = dev.bank.head \/ c = stray
  BY DEF TakenFor
<1>9. ~dev'.bank.full /\ dev'.bank.head = NoCmd /\ NoCmd.cmd \notin I2CCommands
  BY <1>4, NothingOK DEF I2CCommands
<1>10. ASSUME Orderly
       PROVE  c = Current /\ (Midway => ~complete) /\ (~Midway => complete)
  <2>1. Aligned /\ ~dev.strayed
    BY <1>1, <1>10
  <2>2. dev.cmd = NoCmd <=> dev.bank.head # NoCmd
    BY <2>1 DEF Aligned
  <2>3. c = Current /\ c # NoCmd
    BY <2>2 DEF TakenFor, Current
  <2>4. Aligned'
    BY <1>1, <2>1, TakeAligned
  <2> HIDE DEF c, complete
  <2>5. Midway => dev'.cmd # NoCmd
    BY <1>2, <1>9, <2>4, Zenon DEF Aligned
  <2>6. ~Midway => dev'.cmd = NoCmd
    BY <1>2, <1>9, <2>4, Zenon DEF Aligned
  <2> QED
    BY <1>4, <2>3, <2>5, <2>6
<1> HIDE DEF c, data, complete, p, q
<1>11. PinsOK(dev.fw.pins)'
  BY <1>3, <1>5, <1>7 DEF PinsOK
<1>12. OffBusInv'
  <2>1. ASSUME mode.bus # "i2c"
        PROVE  c.cmd \notin I2CCommands /\ ~p.sdaLow /\ ~q.sdaLow
    <3>1. c.cmd \notin I2CCommands /\ ~p.sdaLow
      BY <1>3, <1>8, <2>1, Zenon DEF OffBusInv, p
    <3> QED
      BY <1>7, <3>1, Zenon DEF SdaAfter
  <2>2. mode.bus # "i2c" => ~dev'.fw.pins.sdaLow
    BY <1>5, <2>1, Zenon
  <2>3. mode.bus # "i2c" => dev'.cmd.cmd \notin I2CCommands
    BY <1>4, <1>9, <2>1, Zenon
  <2> QED
    BY <1>2, <1>3, <1>9, <2>2, <2>3, Zenon DEF OffBusInv
<1>13. SdaInv'
  <2>1. ASSUME mode.bus = "i2c", Orderly', ~AtRest', SdaNow' PROVE host.inFrame \/ Owed
    <3>1. Orderly /\ ~AtRest
      BY <1>2, <2>1
    <3>2. dev'.fw.pins.sdaLow
      BY <1>9, <2>1, Zenon DEF SdaNow
    <3>3. SdaNow
      <4>1. CASE Midway
        <5>1. p.sdaLow
          BY <1>5, <1>10, <3>1, <3>2, <4>1, Zenon
        <5> QED
          BY <4>1, <5>1, Zenon DEF SdaNow, p
      <4>2. CASE ~Midway
        <5>1. SdaAfter(Current, p.sdaLow)
          BY <1>5, <1>7, <1>10, <3>1, <3>2, <4>2, Zenon
        <5> QED
          BY <4>2, <5>1, Zenon DEF SdaNow, p
      <4> QED
        BY <4>1, <4>2
    <3> QED
      BY <1>3, <2>1, <3>1, <3>3, Zenon DEF SdaInv
  <2> QED
    BY <1>2, <1>3, <2>1, Zenon DEF SdaInv
<1>14. LeftInv'
  <2> SUFFICES ASSUME AtRest \/ Leaving PROVE Left'
    BY <1>2, Zenon DEF LeftInv
  <2>1. Orderly /\ ~Midway
    BY LeavingOrderly
  <2>2. Current.cmd \in Leaves /\ ~p.sdaLow
    BY <1>3, Zenon DEF LeftInv, Left, p
  <2>3. Released(q) /\ complete
    BY <1>7, <1>10, <2>1, <2>2, Zenon
  <2>4. Released(dev'.fw.pins)
    BY <1>5, <2>3, Zenon
  <2> QED
    BY <1>9, <2>4, Zenon DEF Left
<1> QED
  BY <1>2, <1>3, <1>11, <1>12, <1>13, <1>14 DEF PinsInv

\* The device waits for data no longer; no session that is in order sees it.
LEMMA TimeoutDisorder ==
  ASSUME IInv, StreamTimeout
  PROVE  ~Orderly
<1>1. SUFFICES ASSUME Aligned PROVE FALSE
  BY InvTypes
<1>2. dev.cmd # NoCmd /\ dev.bank = Empty /\ ~Sending
  BY DEF StreamTimeout
<1>3. ~Midway /\ ~dev.bank.full
  BY <1>2, AtRestFacts, NothingOK
<1> QED
  BY <1>1, <1>2, <1>3, Zenon DEF Aligned

\* What was missing is made up, and the command goes on.
LEMMA TimeoutPins ==
  ASSUME IInv, PinsInv, StreamTimeout
  PROVE  PinsInv'
<1> DEFINE missing == IF dev.cmd.len > Len(dev.got) THEN dev.cmd.len - Len(dev.got) ELSE 0
           data    == dev.got \o [i \in 1..missing |-> StrayByte]
           d       == [dev EXCEPT !.strayed = @ \/ missing > 0]
           c == dev.cmd
           r == ProcessCommand(dev.fw, c, data, 0)
           p == dev.fw.pins
           q == r.fw.pins
<1>1. DevOK(dev)
  BY InvTypes
<1>2. /\ dev.bank = Empty /\ dev' = Executed(d, c, data, 0)
      /\ host' = host /\ mode' = mode /\ port' = port
  BY DEF StreamTimeout
<1>3. /\ CallsInv => CallsInv'
      /\ AtRest' <=> AtRest
      /\ Leaving' <=> Leaving
      /\ Orderly' => Orderly
      /\ Plain(host.todo) => Plain(host'.todo)
      /\ Paid(host.todo, host.inFrame) => Paid(host'.todo, host'.inFrame)
  BY <1>2, HostSame
<1> HIDE DEF missing, data
<1>4. DOMAIN d = DevFields /\ d.bank = dev.bank /\ d.fw = dev.fw
  BY <1>1 DEF DevOK, DevFields
<1> HIDE DEF d
<1>5. dev'.bank = Empty /\ dev'.cmd = NoCmd /\ dev'.fw.pins = q
  <2> DEFINE x == [d EXCEPT !.fw = r.fw, !.reply = r.reply, !.cmd = NoCmd, !.got = <<>>]
  <2>1. dev' = x
    BY <1>2, <1>4 DEF Executed
  <2> HIDE DEF r
  <2> QED
    BY <1>2, <1>4, <2>1 DEF DevFields
<1>6. CommandOK(c) /\ FwOK(dev.fw) /\ PinsOK(p)
  BY <1>1 DEF DevOK, PinsInv
<1>7. PinsOK(q) /\ (q.sdaLow => SdaAfter(c, p.sdaLow))
  BY <1>6, CommandPins
<1> HIDE DEF c, p, q
<1>8. ~Orderly /\ ~AtRest /\ ~Leaving
  BY TimeoutDisorder, LeavingOrderly
<1>9. CallsInv /\ OffBusInv /\ SdaInv
  BY DEF PinsInv
<1>10. NoCmd.cmd \notin I2CCommands /\ Empty.head = NoCmd
  BY NothingOK DEF I2CCommands
<1>11. OffBusInv'
  <2>1. mode.bus # "i2c" => ~q.sdaLow
    BY <1>7, <1>9, Zenon DEF OffBusInv, SdaAfter, c, p
  <2>2. dev'.cmd.cmd \notin I2CCommands /\ dev'.bank.head.cmd \notin I2CCommands
    BY <1>5, <1>10
  <2>3. mode.bus # "i2c" => ~dev'.fw.pins.sdaLow
    BY <1>5, <2>1, Zenon
  <2> QED
    BY <1>2, <1>3, <1>9, <2>2, <2>3, Zenon DEF OffBusInv
<1>12. SdaInv'
  BY <1>2, <1>3, <1>8, <1>9, Zenon DEF SdaInv
<1>13. LeftInv'
  BY <1>3, <1>8, Zenon DEF LeftInv
<1>14. PinsOK(dev.fw.pins)'
  BY <1>5, <1>7 DEF PinsOK
<1> QED
  BY <1>3, <1>9, <1>11, <1>12, <1>13, <1>14 DEF PinsInv

\* The actions of the device.
LEMMA DevicePins ==
  ASSUME IInv, PinsInv, TakePacket \/ TargetBusy \/ StreamTimeout
  PROVE  PinsInv'
<1>1. CASE TakePacket
  <2>1. /\ dev.bank.full /\ host' = host /\ mode' = mode /\ port' = port
        /\ \E stray \in StrayCommands \cup {NoCmd}: dev' = Take(dev, 0, stray)
    BY <1>1 DEF TakePacket, TakePending
  <2>2. PICK stray \in StrayCommands \cup {NoCmd}: dev' = Take(dev, 0, stray)
    BY <2>1
  <2>3. CommandOK(stray) /\ stray.cmd \notin I2CCommands
    BY NothingOK DEF StrayCommands, CommandOK, Counted, I2CCommands
  <2> QED
    BY <2>1, <2>2, <2>3, TakePins
<1>2. CASE TargetBusy
  <2>1. /\ dev.bank.full /\ host' = host /\ mode' = mode
        /\ port' = port \/ port' = "broken"
        /\ \E stuck \in 1..(1 + dev.cmd.len): dev' = Take(dev, stuck, NoCmd)
    BY <1>2 DEF TargetBusy, TakePending
  <2>2. dev.cmd.len \in Nat
    <3>1. DevOK(dev)
      BY InvTypes
    <3> QED
      BY <3>1 DEF DevOK, CommandOK
  <2>3. PICK stuck \in 1..(1 + dev.cmd.len): dev' = Take(dev, stuck, NoCmd)
    BY <2>1
  <2>4. stuck \in Nat /\ CommandOK(NoCmd) /\ NoCmd.cmd \notin I2CCommands
    BY <2>2, NothingOK DEF I2CCommands
  <2> QED
    BY <2>1, <2>3, <2>4, TakePins
<1>3. CASE StreamTimeout
  BY <1>3, TimeoutPins
<1> QED
  BY <1>1, <1>2, <1>3

\* A header without power is released.
LEMMA PowerUpReleased ==
  ASSUME NEW params
  PROVE  LET d == Powered(params)
         IN  /\ PinsOK(d.fw.pins) /\ Released(d.fw.pins) /\ ~d.bank.full
             /\ d.cmd = NoCmd /\ d.bank.head = NoCmd /\ NoCmd.cmd \notin I2CCommands
<1> DEFINE d == Powered(params)
<1>1. d.fw.pins = PowerUp
  BY DEF Powered, Start
<1>2. PinsOK(PowerUp) /\ Released(PowerUp)
  BY DEF PinsOK, PowerUp, Released
<1>3. ~d.bank.full /\ d.cmd = NoCmd /\ d.bank.head = NoCmd
  BY PoweredOK, NothingOK
<1>4. NoCmd.cmd \notin I2CCommands
  BY NothingOK DEF I2CCommands
<1> QED
  BY <1>1, <1>2, <1>3, <1>4

\* The program ends, or the device is unplugged.
LEMMA GonePins ==
  ASSUME IInv, PinsInv, Killed \/ Unplug
  PROVE  PinsInv'
<1>1. port' = "broken" /\ mode' = mode
  BY DEF Killed, Unplug
<1>2. /\ host'.good = TRUE /\ host'.todo = <<>> /\ host'.call = NoCall /\ host'.sent = 0
      /\ Unplug \/ (host'.clean = FALSE /\ dev' = dev)
  BY DEF Killed, Unplug, Quiet
<1>3. ~Now("in")' /\ ~Now("config")' /\ NoCall.op = "none"
  BY <1>2 DEF Now, NoCall
<1>4. CallsInv' /\ ~Leaving'
  BY <1>2, <1>3 DEF CallsInv, Leaving
<1>5. Plain(host'.todo) /\ Paid(host'.todo, host'.inFrame)
  BY <1>2, PlainShort, PlainPaid
<1>6. CASE Unplug
  <2>1. dev' = Powered(dev.fw.params)
    BY <1>6 DEF Unplug
  <2>2. /\ PinsOK(dev'.fw.pins) /\ Released(dev'.fw.pins) /\ ~dev'.bank.full
        /\ dev'.cmd = NoCmd /\ dev'.bank.head = NoCmd /\ NoCmd.cmd \notin I2CCommands
    BY <2>1, PowerUpReleased
  <2>3. ~SdaNow'
    BY <2>2, Zenon DEF SdaNow, Released
  <2>4. dev'.cmd.cmd \notin I2CCommands /\ dev'.bank.head.cmd \notin I2CCommands
    BY <2>2
  <2>5. OffBusInv'
    BY <1>5, <2>2, <2>4, Zenon DEF OffBusInv, Released
  <2>6. SdaInv'
    BY <1>5, <2>3, Zenon DEF SdaInv
  <2>7. LeftInv'
    BY <2>2, Zenon DEF LeftInv, Left
  <2>8. PinsOK(dev.fw.pins)'
    BY <2>2 DEF PinsOK
  <2> QED
    BY <1>4, <2>5, <2>6, <2>7, <2>8 DEF PinsInv
<1>7. CASE host'.clean = FALSE /\ dev' = dev
  <2>1. ~AtRest' /\ ~Orderly'
    BY <1>1, <1>2, <1>7 DEF AtRest, Orderly
  <2>2. PinsOK(dev.fw.pins) /\ OffBusInv
    BY DEF PinsInv
  <2>3. OffBusInv'
    BY <1>1, <1>5, <1>7, <2>2, Zenon DEF OffBusInv
  <2>4. SdaInv'
    BY <1>5, <2>1, Zenon DEF SdaInv
  <2>5. LeftInv'
    BY <1>4, <2>1, Zenon DEF LeftInv
  <2>6. PinsOK(dev.fw.pins)'
    BY <1>7, <2>2 DEF PinsOK
  <2> QED
    BY <1>4, <2>3, <2>4, <2>5, <2>6 DEF PinsInv
<1> QED
  BY <1>2, <1>6, <1>7

\* At the start nothing is held.
LEMMA PinsInit == Init => PinsInv
<1> SUFFICES ASSUME Init PROVE PinsInv
  OBVIOUS
<1>1. host = Quiet /\ dev = Powered(Defaults)
  BY DEF Init
<1>2. host.todo = <<>> /\ host.call = NoCall
  BY <1>1 DEF Quiet
<1>3. ~Now("in") /\ ~Now("config") /\ NoCall.op = "none"
  BY <1>2 DEF Now, NoCall
<1>4. CallsInv
  BY <1>2, <1>3 DEF CallsInv
<1>5. Plain(host.todo) /\ Paid(host.todo, host.inFrame)
  BY <1>2, PlainShort, PlainPaid
<1>6. /\ PinsOK(dev.fw.pins) /\ Released(dev.fw.pins) /\ ~dev.bank.full
      /\ dev.cmd = NoCmd /\ dev.bank.head = NoCmd /\ NoCmd.cmd \notin I2CCommands
  BY <1>1, PowerUpReleased
<1>7. ~SdaNow
  BY <1>6, Zenon DEF SdaNow, Released
<1>8. dev.cmd.cmd \notin I2CCommands /\ dev.bank.head.cmd \notin I2CCommands
  BY <1>6
<1>9. OffBusInv
  BY <1>5, <1>6, <1>8, Zenon DEF OffBusInv, Released
<1>10. SdaInv
  BY <1>5, <1>7, Zenon DEF SdaInv
<1>11. LeftInv
  BY <1>6, Zenon DEF LeftInv, Left
<1> QED
  BY <1>4, <1>6, <1>9, <1>10, <1>11, Zenon DEF PinsInv

\* Every step keeps what is said of the pins.
LEMMA PinsNext == IInv /\ PinsInv /\ [Next]_vars => PinsInv'
<1> SUFFICES ASSUME IInv, PinsInv, [Next]_vars PROVE PinsInv'
  OBVIOUS
<1>1. CASE Open
  BY <1>1, OpenPins
<1>2. CASE Close
  BY <1>2, ClosePins
<1>3. CASE \E j \in JobsOf(mode.bus): Make(j)
  BY <1>3, MakePins
<1>4. CASE Usb
  BY <1>4, TransferPins, SendPacketPins DEF Usb
<1>5. CASE TakePacket \/ StreamTimeout \/ TargetBusy
  BY <1>5, DevicePins
<1>6. CASE GiveUp \/ TimesOut
  BY <1>6, TransferPins
<1>7. CASE DropReply \/ Late \/ UNCHANGED vars
  BY <1>7, DroppedPins
<1>8. CASE Killed \/ Unplug
  BY <1>8, GonePins
<1> QED
  BY <1>1, <1>2, <1>3, <1>4, <1>5, <1>6, <1>7, <1>8 DEF Next

\* It holds in every state.
LEMMA SpecPins == Spec => [](IInv /\ PinsInv)
<1>1. Init => IInv /\ PinsInv
  BY InitInv, PinsInit
<1>2. (IInv /\ PinsInv) /\ [Next]_vars => (IInv /\ PinsInv)'
  BY NextInv, PinsNext
<1> QED
  BY <1>1, <1>2, PTL DEF Spec

-----------------------------------------------------------------------------
(***************************************************************************)
(* What follows.                                                           *)
(***************************************************************************)
\* The types of AvrIsp follow from the invariant.
LEMMA InvTypeOK == IInv => TypeOK
<1> SUFFICES ASSUME IInv PROVE TypeOK
  OBVIOUS
<1>1. /\ DevOK(dev) /\ HostOK(host) /\ mode \in Modes /\ faults \in 0..MaxFaults
      /\ port \in {"closed", "open", "broken"}
  BY InvTypes DEF HostTypes
<1>2. host.made \in 0..MaxJobs /\ (host.todo = <<>> <=> host.call = NoCall)
  BY <1>1 DEF HostOK
<1>3. ASSUME Now("out") PROVE host.sent <= PacketsOf(Head(host.todo))
  <2> DEFINE t == Head(host.todo)
  <2>1. host.todo # <<>> /\ t.ep = "out" /\ host.sent \in Nat /\ (host.sent > 0 => host.sent <= PacketsOf(t))
    BY <1>1, <1>3 DEF HostOK, Now
  <2>2. TransferOK(t)
    BY <1>1, <2>1, TodoGoesOn DEF HostOK
  <2> HIDE DEF t
  <2>3. t.head.len \in Nat
    BY <2>1, <2>2 DEF TransferOK, OutOK, CommandOK
  <2>4. PacketsOf(t) \in Nat
    BY <2>3, PacketsCount
  <2> QED
    BY <2>1, <2>4 DEF t
<1>4. Len(dev.bank.data) <= PacketSize
  BY <1>1 DEF DevOK, BankOK
<1>5. \A k \in DOMAIN dev.reply: Len(dev.reply[k]) <= PacketSize
  BY <1>1, ListedLen DEF DevOK, Packets
<1>6. dev.reply # <<>> => dev.cmd = NoCmd /\ ~dev.bank.full
  BY <1>1 DEF DevOK
<1>7. DOMAIN dev.fw.params = DOMAIN Defaults
  BY <1>1 DEF DevOK, FwOK
<1> QED
  BY <1>1, <1>2, <1>3, <1>4, <1>5, <1>6, <1>7 DEF TypeOK

(***************************************************************************)
(* Whatever is called and whatever goes wrong, no packet is larger than    *)
(* the bank, none is sent beyond the command it belongs to, and the bank   *)
(* is never used in both directions (ProcessCommand replies only when the  *)
(* data of a command has been read).                                       *)
(***************************************************************************)
THEOREM AvrIspTypes == Spec => []TypeOK
BY SpecInv, InvTypeOK, PTL

(***************************************************************************)
(* In a good session no byte is taken for what it is not: the packets the  *)
(* host cuts a call into (an empty one after a full last one included) and *)
(* those after which the device takes its data for complete are the same.  *)
(***************************************************************************)
THEOREM AvrIspOwnBytes == Spec => []OnlyOwnBytes
<1>1. IInv => OnlyOwnBytes
  BY DEF IInv, InOrderInv, Orderly, OnlyOwnBytes
<1> QED
  BY <1>1, SpecInv, PTL

\* A session left in order leaves the header released.
LEMMA InvReleased == IInv /\ PinsInv => TargetReleased
<1> SUFFICES ASSUME IInv, PinsInv,
                    port = "closed", host.call = NoCall, dev.cmd = NoCmd, ~dev.bank.full
             PROVE  ~dev.fw.pins.out /\ dev.fw.pins.cs = "float" /\ ~dev.fw.pins.sdaLow /\ ~dev.fw.pins.prog
  BY DEF TargetReleased
<1>1. host.clean
  BY InvTypes, Zenon DEF HostTypes
<1>2. AtRest
  BY <1>1, Zenon DEF AtRest
<1>3. Left
  BY <1>2, Zenon DEF PinsInv, LeftInv
<1> QED
  BY <1>3, Zenon DEF Left, Released

(***************************************************************************)
(* After a session that was left in order nothing of the header is driven: *)
(* the last command of every session releases all pins, and SDA, which it  *)
(* does not touch on the I2C bus, has been freed by the frame before.      *)
(***************************************************************************)
THEOREM AvrIspTargetReleased == Spec => []TargetReleased
BY SpecPins, InvReleased, PTL

=============================================================================
