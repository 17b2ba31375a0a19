---------------------------- MODULE UsbAspProofs ----------------------------
(***************************************************************************)
(* What is proved of UsbAsp for every packet size, SCK option, menu of     *)
(* calls and number of faults: its type invariant, with the bound it needs *)
(* on what the driver can still offer of a transfer.                       *)
(***************************************************************************)
EXTENDS UsbAsp, SequenceTheorems, WellFoundedInduction, TLAPS

(***************************************************************************)
(* The inductive invariant.  Replies are places, texts and tuples, so a    *)
(* sequence of them is told by its form only.                              *)
(***************************************************************************)
IsSeq(s) == s \in Seq(Range(s))

Standards == {"SET_ADDRESS", "GET_DESCRIPTOR", "SET_CONFIGURATION"}
Memory    == {"SPI_READ", "I2C_READ", "MW_READ", "SPI_WRITE", "I2C_WRITE", "MW_WRITE"}
Atomic    == {"GETCAPABILITIES", "SETISPSCK", "CONNECT", "ENABLEPROG", "TRANSMIT",
              "SETLONGADDRESS", "SPI_CONNECT", "DISCONNECT", "I2C_INIT", "I2C_START",
              "I2C_STOP", "I2C_WRITEBYTE", "I2C_READBYTE", "MW_BUSY"}
Vendors   == Memory \cup IspReads \cup IspWrites \cup Atomic

\* A control transfer the calls may make.
Asks(rq) ==
  /\ \/ rq.type = "standard" /\ rq.req \in Standards
     \/ rq.type = "vendor" /\ rq.req \in Vendors
  /\ rq.dir \in {"in", "out"} /\ rq.len \in Nat
  /\ rq.req \in Readable => rq.dir = "in"
  /\ rq.req \in Writable => rq.dir = "out"
  /\ rq.req = "SET_ADDRESS" => rq.value = 1
  /\ rq.req = "SETISPSCK" => rq.len = 1 /\ rq.dir = "in" /\ rq.value \in Nat

\* What a call of a kind may ask for on each bus.
Requests(b, op) ==
  CASE op = "Attach" -> Standards
    [] op = "Close"  -> {"DISCONNECT"}
    [] op = "Open"   -> {"GETCAPABILITIES"} \cup
         CASE b = "i2c" -> {"I2C_INIT"}
           [] b = "isp" -> {"SETISPSCK", "CONNECT", "ENABLEPROG"}
           [] OTHER     -> {"SETISPSCK", "SPI_CONNECT"}
    [] OTHER ->
         CASE b = "spi" -> {"SPI_READ", "SPI_WRITE"}
           [] b = "i2c" -> {"I2C_READ", "I2C_WRITE", "I2C_START", "I2C_STOP",
                            "I2C_WRITEBYTE", "I2C_READBYTE"}
           [] b = "mw"  -> {"MW_READ", "MW_WRITE", "MW_BUSY"}
           [] OTHER     -> {"SETLONGADDRESS", "TRANSMIT"} \cup IspReads \cup IspWrites

FwFields == {"pins", "state", "nbytes", "csHi", "csLo", "bits", "stop", "sck", "newmode",
             "address", "pagesize", "last", "counter"}

FwOK(f) == DOMAIN f = FwFields /\ f.nbytes \in Nat /\ f.sck \in Nat

DevFields == {"addr", "newAddr", "rx", "tx", "msgLen", "msg", "userRW", "toggle", "config", "fw"}

\* The two buffers of the driver.
RxOK(r) ==
  \/ r = Nothing
  \/ r = [pid |-> "SETUP", data |-> r.data] /\ Asks(r.data)
  \/ r = [pid |-> "OUT", data |-> r.data] /\ IsSeq(r.data)

TxOK(t) ==
  \/ t \in {Nak, Stall}
  \/ /\ t = [pid |-> "DATA", toggle |-> t.toggle, data |-> t.data]
     /\ IsSeq(t.data) /\ Len(t.data) <= PacketSize

DevOK(d) ==
  /\ DOMAIN d = DevFields /\ FwOK(d.fw)
  /\ RxOK(d.rx) /\ TxOK(d.tx)
  /\ d.msgLen \in Int /\ d.msgLen >= NoMsg
  /\ IsSeq(d.msg)
  /\ ~d.userRW => d.msgLen <= Len(d.msg)

HostFields == {"addr", "entered", "inFrame", "made", "call", "todo", "phase", "sent", "got",
               "toggle", "total", "replies"}

HostOK(h) ==
  /\ DOMAIN h = HostFields
  /\ h.addr \in {Unplugged, 0, 1} /\ h.phase \in {"setup", "data", "status"}
  /\ h.made \in 0..MaxJobs
  /\ h.todo = <<>> <=> h.call = NoCall
  /\ IsSeq(h.todo) /\ \A i \in DOMAIN h.todo : Asks(h.todo[i])
  /\ IsSeq(h.got) /\ h.sent \in Nat
  /\ h.todo = <<>> => h.phase = "setup"
  /\ h.phase = "setup" => h.sent = 0 /\ h.got = <<>> /\ h.toggle = 1
  /\ h.todo # <<>> => h.sent <= Head(h.todo).len /\ Len(h.got) <= Head(h.todo).len

(***************************************************************************)
(* What the driver offers, in its buffer and to come; with what the host   *)
(* has got, it is never more than was asked for.                           *)
(***************************************************************************)
Offered(d) ==
  (IF d.tx.pid = "DATA" THEN Len(d.tx.data) ELSE 0) + (IF d.msgLen > 0 THEN d.msgLen ELSE 0)

Fetching(h, d) ==
  h.todo # <<>> /\ h.phase # "setup" =>
    IF d.rx.pid = "SETUP"
    THEN d.rx.data = Head(h.todo) /\ h.sent = 0 /\ h.got = <<>> /\ h.toggle = 1
    ELSE Len(h.got) + Offered(d) <= Head(h.todo).len

Ports == {"closed", "open", "broken"}

IInv ==
  /\ mode \in Modes /\ port \in Ports /\ faults \in 0..MaxFaults
  /\ HostOK(host) /\ DevOK(dev) /\ Fetching(host, dev)

\* A sequence of such transfers.
Script(s, R) == IsSeq(s) /\ s # <<>> /\ \A i \in DOMAIN s : Asks(s[i]) /\ s[i].req \in R

-----------------------------------------------------------------------------
(***************************************************************************)
(* Sequences told by their form.                                           *)
(***************************************************************************)
\* Every sequence has the form.
LEMMA SeqOver ==
  ASSUME NEW S, NEW s \in Seq(S)
  PROVE  IsSeq(s) /\ Len(s) \in Nat /\ DOMAIN s = 1 .. Len(s)
<1>1. DOMAIN s = 1 .. Len(s) /\ Len(s) \in Nat /\ s \in [1 .. Len(s) -> S]
  BY LenProperties
<1>2. s \in [1 .. Len(s) -> Range(s)]
  BY <1>1 DEF Range
<1>3. s \in Seq(Range(s))
  <2> DEFINE R == Range(s)
             n == Len(s)
  <2>1. n \in Nat /\ s \in [1 .. n -> R]
    BY <1>1, <1>2
  <2> HIDE DEF R, n
  <2>2. s \in Seq(R)
    BY <2>1, SeqDef
  <2> QED
    BY <2>2 DEF R
<1> QED
  BY <1>1, <1>3 DEF IsSeq

\* Its length, and its domain.
LEMMA SeqLen ==
  ASSUME NEW s, IsSeq(s)
  PROVE  Len(s) \in Nat /\ DOMAIN s = 1 .. Len(s) /\ (s = <<>> <=> Len(s) = 0)
<1> DEFINE U == Range(s)
<1>1. s \in Seq(U)
  BY DEF IsSeq
<1> HIDE DEF U
<1> QED
  BY <1>1, SeqOver, EmptySeq

\* A function on the numbers up to k.
LEMMA SeqBuilt ==
  ASSUME NEW s, NEW k \in Nat, s = [i \in 1 .. k |-> s[i]]
  PROVE  IsSeq(s) /\ Len(s) = k
<1> DEFINE U == Range(s)
<1>1. s \in [1 .. k -> U]
  BY DEF Range
<1> HIDE DEF U
<1>2. s \in Seq(U) /\ Len(s) = k
  BY <1>1, SeqDef
<1> QED
  BY <1>2, SeqOver

\* Two in a row.
LEMMA SeqConcat ==
  ASSUME NEW s, NEW t, IsSeq(s), IsSeq(t)
  PROVE  /\ IsSeq(s \o t) /\ Len(s \o t) = Len(s) + Len(t)
         /\ \A i \in DOMAIN (s \o t) :
              \/ i \in DOMAIN s /\ (s \o t)[i] = s[i]
              \/ i - Len(s) \in DOMAIN t /\ (s \o t)[i] = t[i - Len(s)]
<1> DEFINE U == Range(s) \cup Range(t)
<1>1. s \in Seq(U) /\ t \in Seq(U)
  BY DEF IsSeq
<1> HIDE DEF U
<1>2. s \o t \in Seq(U) /\ Len(s \o t) = Len(s) + Len(t)
  BY <1>1
<1>3. \A i \in 1 .. Len(s) + Len(t) : (s \o t)[i] = IF i <= Len(s) THEN s[i] ELSE t[i - Len(s)]
  BY <1>1, ConcatProperties
<1>4. /\ DOMAIN (s \o t) = 1 .. Len(s \o t) /\ Len(s) \in Nat /\ Len(t) \in Nat
      /\ DOMAIN s = 1 .. Len(s) /\ DOMAIN t = 1 .. Len(t) /\ IsSeq(s \o t)
  BY <1>1, <1>2, SeqOver
<1> QED
  BY <1>2, <1>3, <1>4

\* What is left without the first.
LEMMA SeqTail ==
  ASSUME NEW s, IsSeq(s), s # <<>>
  PROVE  /\ IsSeq(Tail(s)) /\ Len(Tail(s)) = Len(s) - 1 /\ Head(s) = s[1] /\ 1 \in DOMAIN s
         /\ \A i \in DOMAIN Tail(s) : i + 1 \in DOMAIN s /\ Tail(s)[i] = s[i + 1]
<1> DEFINE U == Range(s)
<1>1. s \in Seq(U)
  BY DEF IsSeq
<1> HIDE DEF U
<1>2. Tail(s) \in Seq(U) /\ Len(Tail(s)) = Len(s) - 1 /\ Len(s) \in Nat /\ Len(s) > 0
  BY <1>1
<1>3. Head(s) = s[1] /\ \A i \in 1 .. Len(Tail(s)) : i + 1 \in 1 .. Len(s) /\ Tail(s)[i] = s[i + 1]
  BY <1>1, <1>2
<1>4. /\ DOMAIN s = 1 .. Len(s) /\ DOMAIN Tail(s) = 1 .. Len(Tail(s)) /\ IsSeq(Tail(s))
  BY <1>1, <1>2, SeqOver
<1> QED
  BY <1>2, <1>3, <1>4

\* A part of it.
LEMMA SeqPart ==
  ASSUME NEW s, IsSeq(s), NEW m \in Nat, NEW n \in Nat, m >= 1, n <= Len(s)
  PROVE  /\ IsSeq(SubSeq(s, m, n))
         /\ Len(SubSeq(s, m, n)) = (IF n >= m THEN n - m + 1 ELSE 0)
<1> DEFINE U == Range(s)
<1>1. s \in Seq(U)
  BY DEF IsSeq
<1> HIDE DEF U
<1>2. SubSeq(s, m, n) \in Seq(U) /\ Len(SubSeq(s, m, n)) = (IF n >= m THEN n - m + 1 ELSE 0)
  BY <1>1
<1> QED
  BY <1>2, SeqOver

\* The empty one, and the shortest others.
LEMMA SeqShort ==
  /\ IsSeq(<<>>) /\ Len(<<>>) = 0
  /\ \A a : IsSeq(<<a>>) /\ Len(<<a>>) = 1 /\ <<a>>[1] = a /\ DOMAIN <<a>> = {1} /\ <<a>> # <<>>
<1>1. IsSeq(<<>>) /\ Len(<<>>) = 0
  BY SeqOver, EmptySeq
<1>2. ASSUME NEW a PROVE <<a>> \in Seq({a})
  OBVIOUS
<1>3. ASSUME NEW a PROVE Len(<<a>>) = 1 /\ <<a>>[1] = a
  OBVIOUS
<1>4. ASSUME NEW a PROVE IsSeq(<<a>>) /\ DOMAIN <<a>> = 1 .. 1
  BY <1>2, <1>3, SeqOver
<1>5. ASSUME NEW a PROVE DOMAIN <<a>> = {1} /\ <<a>> # <<>>
  BY <1>3, <1>4, <1>1
<1> QED
  BY <1>1, <1>3, <1>4, <1>5

-----------------------------------------------------------------------------
(***************************************************************************)
(* Induction over the numbers up to a bound.                               *)
(***************************************************************************)
\* A set of numbers that has zero and with a number its successor has all.
LEMMA Induction ==
  ASSUME NEW T, 0 \in T, \A n \in Nat : n \in T => n + 1 \in T
  PROVE  \A n \in Nat : n \in T
<1>1. IsWellFoundedOn(OpToRel(<, Nat), Nat)
  BY NatLessThanWellFounded
<1> DEFINE R == {ss \in Nat \X Nat : ss[1] < ss[2]}
           Out == {n \in Nat : n \notin T}
<1>2. OpToRel(<, Nat) = R
  BY DEF OpToRel
<1>3. IsWellFoundedOn(R, Nat)
  BY <1>1, <1>2, Zenon
<1> HIDE DEF R
<1>4. SUFFICES ASSUME Out # {} PROVE FALSE
  OBVIOUS
<1>5. Out \subseteq Nat
  OBVIOUS
<1> HIDE DEF Out
<1>6. PICK x \in Out : \A y \in Out : ~(<<y, x>> \in R)
  BY <1>3, <1>4, <1>5, WFMin, Zenon
<1>7. \A y \in Out : ~(y < x)
  BY <1>5, <1>6 DEF R
<1>8. x \in Nat /\ x # 0 /\ x - 1 \in Nat /\ x - 1 < x
  BY <1>5, <1>6 DEF Out
<1>9. x - 1 \in T
  BY <1>7, <1>8 DEF Out
<1>10. (x - 1) + 1 \in T
  BY <1>8, <1>9
<1> QED
  BY <1>6, <1>8, <1>10 DEF Out

-----------------------------------------------------------------------------
(***************************************************************************)
(* The transfers of the calls.                                             *)
(***************************************************************************)
\* One transfer.
LEMMA ScriptOne ==
  ASSUME NEW R, NEW rq, Asks(rq), rq.req \in R
  PROVE  Script(<<rq>>, R)
  BY SeqShort DEF Script

\* Two scripts in a row.
LEMMA ScriptConcat ==
  ASSUME NEW R, NEW s, NEW t, Script(s, R), Script(t, R)
  PROVE  Script(s \o t, R)
<1>1. IsSeq(s \o t) /\ Len(s \o t) = Len(s) + Len(t)
  BY SeqConcat DEF Script
<1>2. Len(s) \in Nat /\ Len(s) > 0 /\ Len(t) \in Nat
  BY SeqLen DEF Script
<1>3. s \o t # <<>>
  BY <1>1, <1>2, SeqLen
<1>4. \A i \in DOMAIN (s \o t) :
        \/ i \in DOMAIN s /\ (s \o t)[i] = s[i]
        \/ i - Len(s) \in DOMAIN t /\ (s \o t)[i] = t[i - Len(s)]
  BY SeqConcat, Zenon DEF Script
<1>5. ASSUME NEW i \in DOMAIN (s \o t)
      PROVE  Asks((s \o t)[i]) /\ (s \o t)[i].req \in R
  BY <1>4, Zenon DEF Script
<1> QED
  BY <1>1, <1>3, <1>5, Zenon DEF Script

\* Any number of scripts in a row.
LEMMA ScriptFlatten ==
  ASSUME NEW R, NEW s, NEW n \in Nat, n > 0, s = [i \in 1 .. n |-> s[i]],
         \A i \in 1 .. n : Script(s[i], R)
  PROVE  Script(FlattenSeq(s), R)
<1> DEFINE Body(g, m) == [i \in 1 .. m |-> IF i = 1 THEN s[i] ELSE g[i - 1] \o s[i]]
           flatten == CHOOSE g : g = Body(g, n)
           Known == {m \in Nat : m >= 1 => \E g : g = Body(g, m)}
           Good == {m \in Nat : m \in 1 .. n => Script(flatten[m], R)}
<1>1. IsSeq(s) /\ Len(s) = n
  BY SeqBuilt
<1>2. FlattenSeq(s) = flatten[n]
  BY <1>1 DEF FlattenSeq
<1>3. \A m \in Nat : m \in Known
  <2> HIDE DEF Body
  <2>1. 0 \in Known
    OBVIOUS
  <2>2. ASSUME NEW m \in Nat, m \in Known PROVE m + 1 \in Known
    <3>1. SUFFICES \E g : g = Body(g, m + 1)
      OBVIOUS
    <3>2. CASE m = 0
      <4> DEFINE h == [i \in 1 .. 1 |-> s[i]]
      <4>1. h = Body(h, 1)
        BY DEF Body
      <4> QED
        BY <3>2, <4>1
    <3>3. CASE m # 0
      <4>1. PICK g : g = Body(g, m)
        BY <2>2, <3>3
      <4> DEFINE h == [i \in 1 .. (m + 1) |-> IF i <= m THEN g[i] ELSE g[m] \o s[i]]
      <4>2. ASSUME NEW i \in 1 .. (m + 1)
            PROVE  h[i] = IF i = 1 THEN s[i] ELSE h[i - 1] \o s[i]
        <5>1. CASE i <= m
          <6>1. i \in 1 .. m /\ h[i] = g[i] /\ (i # 1 => h[i - 1] = g[i - 1])
            BY <5>1
          <6>2. g[i] = IF i = 1 THEN s[i] ELSE g[i - 1] \o s[i]
            BY <4>1, <6>1 DEF Body
          <6> QED
            BY <6>1, <6>2
        <5>2. CASE ~(i <= m)
          <6>1. i = m + 1 /\ i # 1 /\ i - 1 = m /\ m \in 1 .. (m + 1) /\ m <= m
            BY <5>2, <3>3
          <6>2. h[i] = g[m] \o s[i] /\ h[m] = g[m]
            BY <5>2, <6>1
          <6> QED
            BY <6>1, <6>2
        <5> QED
          BY <5>1, <5>2
      <4>3. h = [i \in 1 .. (m + 1) |-> h[i]]
        OBVIOUS
      <4> HIDE DEF h
      <4>4. h = Body(h, m + 1)
        BY <4>2, <4>3 DEF Body
      <4> QED
        BY <4>4
    <3> QED
      BY <3>2, <3>3
  <2> HIDE DEF Known
  <2> QED
    BY <2>1, <2>2, Induction
<1>4. flatten = Body(flatten, n)
  <2> HIDE DEF Body
  <2>1. \E g : g = Body(g, n)
    BY <1>3
  <2> QED
    BY <2>1, Zenon
<1> HIDE DEF flatten
<1>5. \A m \in Nat : m \in Good
  <2>1. 0 \in Good
    OBVIOUS
  <2>2. ASSUME NEW m \in Nat, m \in Good PROVE m + 1 \in Good
    <3>1. SUFFICES ASSUME m + 1 \in 1 .. n PROVE Script(flatten[m + 1], R)
      OBVIOUS
    <3>2. flatten[m + 1] = Body(flatten, n)[m + 1]
      BY <1>4, Zenon
    <3>3. Body(flatten, n)[m + 1] = IF m + 1 = 1 THEN s[m + 1] ELSE flatten[(m + 1) - 1] \o s[m + 1]
      BY <3>1
    <3>4. (m + 1) - 1 = m /\ (m + 1 = 1 <=> m = 0)
      OBVIOUS
    <3>5. Script(s[m + 1], R)
      BY <3>1
    <3>6. m # 0 => Script(flatten[m], R)
      BY <2>2, <3>1
    <3> HIDE DEF Body
    <3>7. CASE m = 0
      BY <3>2, <3>3, <3>4, <3>5, <3>7
    <3>8. CASE m # 0
      <4>1. flatten[m + 1] = flatten[m] \o s[m + 1]
        BY <3>2, <3>3, <3>4, <3>8
      <4> QED
        BY <4>1, <3>5, <3>6, <3>8, ScriptConcat
    <3> QED
      BY <3>7, <3>8
  <2> HIDE DEF Good
  <2> QED
    BY <2>1, <2>2, Induction
<1> QED
  BY <1>2, <1>5

\* Three transfers.
LEMMA ScriptThree ==
  ASSUME NEW R, NEW x, NEW y, NEW z, \A v \in {x, y, z} : Asks(v) /\ v.req \in R
  PROVE  Script(<<x, y, z>>, R)
<1> DEFINE t == <<x, y, z>>
<1>1. t \in Seq({x, y, z}) /\ Len(t) = 3
  OBVIOUS
<1>2. t[1] = x /\ t[2] = y /\ t[3] = z
  OBVIOUS
<1>3. IsSeq(t) /\ DOMAIN t = 1 .. 3 /\ t # <<>>
  BY <1>1, SeqOver
<1> HIDE DEF t
<1>4. \A i \in 1 .. 3 : t[i] \in {x, y, z}
  BY <1>2
<1>5. Script(t, R)
  BY <1>3, <1>4 DEF Script
<1> QED
  BY <1>5 DEF t

\* The last of two scripts in a row.
LEMMA LastConcat ==
  ASSUME NEW R, NEW s, NEW t, Script(s, R), Script(t, R)
  PROVE  Last(s \o t) = Last(t)
<1>1. IsSeq(s) /\ IsSeq(t) /\ t # <<>>
  BY DEF Script
<1> DEFINE U == Range(s) \cup Range(t)
<1>2. s \in Seq(U) /\ t \in Seq(U)
  BY <1>1 DEF IsSeq
<1> HIDE DEF U
<1>3. Len(s) \in Nat /\ Len(t) \in Nat /\ Len(t) > 0 /\ Len(s \o t) = Len(s) + Len(t)
  BY <1>1, <1>2
<1>4. \A i \in 1 .. Len(s) + Len(t) : (s \o t)[i] = IF i <= Len(s) THEN s[i] ELSE t[i - Len(s)]
  BY <1>2, ConcatProperties
<1> QED
  BY <1>3, <1>4 DEF Last

\* The requests as such.
LEMMA AsksVendor ==
  ASSUME NEW req \in Vendors, NEW dir \in {"in", "out"}, NEW value, NEW index, NEW len \in Nat,
         req \in Readable => dir = "in", req \in Writable => dir = "out",
         req = "SETISPSCK" => len = 1 /\ dir = "in" /\ value \in Nat
  PROVE  /\ Asks(Vendor(req, dir, value, index, len))
         /\ Vendor(req, dir, value, index, len).req = req
<1> DEFINE v == Vendor(req, dir, value, index, len)
<1>1. v.type = "vendor" /\ v.req = req /\ v.dir = dir /\ v.len = len /\ v.value = value
  BY DEF Vendor
<1>2. req # "SET_ADDRESS"
  BY DEF Vendors, Memory, IspReads, IspWrites, Atomic
<1> HIDE DEF v
<1>3. Asks(v) /\ v.req = req
  BY <1>1, <1>2 DEF Asks
<1> QED
  BY <1>3 DEF v

\* A call of one vendor request.
LEMMA ScriptVendor ==
  ASSUME NEW R, NEW req \in Vendors \cap R, NEW dir \in {"in", "out"}, NEW value, NEW index,
         NEW len \in Nat,
         req \in Readable => dir = "in", req \in Writable => dir = "out",
         req = "SETISPSCK" => len = 1 /\ dir = "in" /\ value \in Nat
  PROVE  Script(<<Vendor(req, dir, value, index, len)>>, R)
<1> DEFINE v == Vendor(req, dir, value, index, len)
<1>1. Asks(v) /\ v.req = req
  BY AsksVendor
<1> HIDE DEF v
<1>2. Script(<<v>>, R)
  BY <1>1, ScriptOne
<1> QED
  BY <1>2 DEF v

\* The names the prover has to tell apart.
LEMMA Names ==
  /\ Readable = {"SPI_READ", "I2C_READ", "MW_READ", "READFLASH", "READEEPROM"}
  /\ Writable = {"SPI_WRITE", "I2C_WRITE", "MW_WRITE", "WRITEFLASH", "WRITEEEPROM"}
  /\ Vendors = Memory \cup {"READFLASH", "READEEPROM", "WRITEFLASH", "WRITEEEPROM"} \cup Atomic
  BY DEF Readable, Writable, Vendors, IspReads, IspWrites

\* What Attach, Open and Close do.
LEMMA SessionFits ==
  ASSUME mode \in Modes, NEW op \in {"Attach", "Open", "Close"}
  PROVE  /\ Script(Transfers([op |-> op]), Requests(mode.bus, op))
         /\ op = "Open" /\ mode.bus = "spi" => Last(Transfers([op |-> op])).req = "SPI_CONNECT"
<1> DEFINE c == [op |-> op]
           R == Requests(mode.bus, op)
           b == mode.bus
<1>1. b \in {"spi", "i2c", "mw", "isp"} /\ PacketSize + 1 \in Nat /\ mode.sck \in Nat
  BY UsbAspAssumption
<1>2. c.op = op
  OBVIOUS
<1> HIDE DEF c
<1>3. CASE op = "Attach"
  <2> DEFINE x == Standard("SET_ADDRESS", "out", 1, 0)
             y == Standard("GET_DESCRIPTOR", "in", 0, PacketSize + 1)
             z == Standard("SET_CONFIGURATION", "out", 1, 0)
  <2>1. Transfers(c) = <<x, y, z>>
    BY <1>2, <1>3 DEF Transfers
  <2>2. R = Standards
    BY <1>3 DEF Requests
  <2>3. \A v \in {x, y, z} : Asks(v) /\ v.req \in Standards
    BY <1>1, Names DEF Standard, Asks, Standards
  <2> HIDE DEF R, x, y, z
  <2>4. Script(Transfers(c), R)
    BY <2>1, <2>2, <2>3, ScriptThree
  <2> QED
    BY <1>3, <2>4 DEF R, c
<1>4. CASE op = "Close"
  <2>1. Transfers(c) = <<Vendor("DISCONNECT", "in", 0, 0, 0)>>
    BY <1>2, <1>4 DEF Transfers
  <2>2. "DISCONNECT" \in Vendors \cap R
    BY <1>4, Names DEF Requests, Atomic
  <2> HIDE DEF R
  <2>3. Script(Transfers(c), R)
    BY <2>1, <2>2, ScriptVendor, Names
  <2> QED
    BY <1>4, <2>3 DEF R, c
<1>5. CASE op = "Open"
  <2> DEFINE g == <<Vendor("GETCAPABILITIES", "in", 1, 0, 4)>>
             s == <<Vendor("SETISPSCK", "in", mode.sck, 0, 1)>>
             i == <<Vendor("I2C_INIT", "in", 0, 0, 0)>>
             x == <<Vendor("SPI_CONNECT", "in", 0, 0, 0)>>
             p == <<Vendor("CONNECT", "in", 0, 0, 0)>>
             e == <<Vendor("ENABLEPROG", "in", 0, 0, 1)>>
             y == <<Vendor("CONNECT", "in", 0, 0, 0), Vendor("ENABLEPROG", "in", 0, 0, 1)>>
  <2>1. Transfers(c) = g \o (IF b = "i2c" THEN i ELSE s \o (IF b = "isp" THEN y ELSE x))
    BY <1>2, <1>5 DEF Transfers, SetUp
  <2>2. {"GETCAPABILITIES", "SETISPSCK", "I2C_INIT", "SPI_CONNECT", "CONNECT", "ENABLEPROG"} \subseteq Vendors
        /\ 0 \in Nat /\ 1 \in Nat /\ 4 \in Nat
    BY Names DEF Atomic
  <2>3. /\ "GETCAPABILITIES" \in R
        /\ b = "i2c" => "I2C_INIT" \in R
        /\ b # "i2c" => "SETISPSCK" \in R
        /\ b = "isp" => {"CONNECT", "ENABLEPROG"} \subseteq R
        /\ b # "i2c" /\ b # "isp" => "SPI_CONNECT" \in R
    BY <1>1, <1>5 DEF Requests
  <2>4. y = p \o e
    OBVIOUS
  <2> HIDE DEF R
  <2>5. Script(g, R)
    BY <2>2, <2>3, ScriptVendor, Names
  <2>6. b = "i2c" => Script(i, R)
    BY <2>2, <2>3, ScriptVendor, Names
  <2>7. b # "i2c" => Script(s, R)
    BY <1>1, <2>2, <2>3, ScriptVendor, Names
  <2>8. b # "i2c" /\ b # "isp" => Script(x, R)
    BY <2>2, <2>3, ScriptVendor, Names
  <2>9. b = "isp" => Script(p, R) /\ Script(e, R)
    BY <2>2, <2>3, ScriptVendor, Names
  <2>10. x[1].req = "SPI_CONNECT" /\ Last(x) = x[1]
    BY DEF Vendor, Last
  <2> HIDE DEF g, s, i, x, y, p, e
  <2>11. Script(Transfers(c), R)
    BY <2>1, <2>4, <2>5, <2>6, <2>7, <2>8, <2>9, ScriptConcat
  <2>12. b = "spi" => Last(Transfers(c)) = x[1]
    BY <2>1, <2>5, <2>7, <2>8, <2>10, ScriptConcat, LastConcat
  <2> QED
    BY <2>10, <2>11, <2>12 DEF R, c
<1> QED
  BY <1>3, <1>4, <1>5

\* The number of a call makes no difference to what kind it is.
LEMMA Numbered ==
  ASSUME mode \in Modes, NEW j \in JobsOf(mode.bus), NEW k \in Nat
  PROVE  [j EXCEPT !.id = k] \in JobType(mode.bus)
<1> DEFINE b == mode.bus
           c == [j EXCEPT !.id = k]
<1>1. b \in {"spi", "i2c", "mw", "isp"} /\ j \in JobType(b)
  BY UsbAspAssumption
<1>2. CASE b = "spi"
  BY <1>1, <1>2 DEF JobType
<1>3. CASE b = "i2c"
  <2>1. CASE j \in {y \in [op : {"I2CReadWrite"}, w : Nat, r : Nat, id : Nat] : y.w + y.r > 0}
    BY <2>1, <1>3 DEF JobType
  <2>2. CASE j \in [op : {"I2CStart", "I2CStop", "I2CWriteByte"}, id : Nat]
    BY <2>2, <1>3 DEF JobType
  <2>3. CASE j \in [op : {"I2CReadByte"}, ack : {"ack", "nack"}, id : Nat]
    BY <2>3, <1>3 DEF JobType
  <2> QED
    BY <1>1, <1>3, <2>1, <2>2, <2>3 DEF JobType
<1>4. CASE b = "mw"
  <2>1. CASE j \in [op : {"MWWrite"}, cs : {0, 1}, bits : Nat, id : Nat]
    BY <2>1, <1>4 DEF JobType
  <2>2. CASE j \in [op : {"MWRead"}, cs : {0, 1}, n : Nat, id : Nat]
    BY <2>2, <1>4 DEF JobType
  <2>3. CASE j \in [op : {"MWIsBusy"}, id : Nat]
    BY <2>3, <1>4 DEF JobType
  <2> QED
    BY <1>1, <1>4, <2>1, <2>2, <2>3 DEF JobType
<1>5. CASE b = "isp"
  <2> DEFINE B == Seq(Nat) \ {<<>>}
  <2> HIDE DEF B
  <2>1. CASE j \in [op : {"Instruction"}, id : Nat]
    BY <2>1, <1>5 DEF JobType
  <2>2. CASE j \in [op : {"READFLASH", "READEEPROM", "WRITEEEPROM"}, addr : Nat, blocks : B, id : Nat]
    BY <2>2, <1>5 DEF JobType, B
  <2>3. CASE j \in [op : {"WRITEFLASH"}, addr : Nat, page : Nat, blocks : B, id : Nat]
    BY <2>3, <1>5 DEF JobType, B
  <2> QED
    BY <1>1, <1>5, <2>1, <2>2, <2>3 DEF JobType, B
<1> QED
  BY <1>1, <1>2, <1>3, <1>4, <1>5

\* The blocks of an AVR's memory: each an address and the bytes.
LEMMA BlocksFit ==
  ASSUME NEW c, c.blocks \in Seq(Nat) \ {<<>>}, NEW R, NEW dir \in {"in", "out"},
         NEW req \in (IspReads \cup IspWrites) \cap R, "SETLONGADDRESS" \in R,
         req \in IspReads => dir = "in", req \in IspWrites => dir = "out",
         NEW s, NEW at, NEW index,
         s = [b \in 1 .. Len(c.blocks) |->
                <<Vendor("SETLONGADDRESS", "in", at[b], 0, 0),
                  Vendor(req, dir, 0, index[b], c.blocks[b])>>]
  PROVE  Script(FlattenSeq(s), R)
<1>1. Len(c.blocks) \in Nat /\ Len(c.blocks) > 0 /\ \A i \in 1 .. Len(c.blocks) : c.blocks[i] \in Nat
  BY LenProperties
<1>2. s = [b \in 1 .. Len(c.blocks) |-> s[b]]
  OBVIOUS
<1>3. ASSUME NEW b \in 1 .. Len(c.blocks) PROVE Script(s[b], R)
  <2> DEFINE x == Vendor("SETLONGADDRESS", "in", at[b], 0, 0)
             y == Vendor(req, dir, 0, index[b], c.blocks[b])
  <2>1. s[b] = <<x, y>>
    OBVIOUS
  <2>2. /\ {"SETLONGADDRESS", req} \subseteq Vendors \cap R /\ req # "SETISPSCK"
        /\ "SETLONGADDRESS" \notin Readable \cup Writable
        /\ req \in Readable => req \in IspReads
        /\ req \in Writable => req \in IspWrites
    BY Names DEF Atomic, IspReads, IspWrites
  <2>3. Script(<<x>>, R)
    BY <2>2, ScriptVendor
  <2>4. Script(<<y>>, R)
    BY <1>1, <2>2, ScriptVendor
  <2>5. <<x, y>> = <<x>> \o <<y>>
    OBVIOUS
  <2> HIDE DEF x, y
  <2> QED
    BY <2>1, <2>3, <2>4, <2>5, ScriptConcat
<1> QED
  BY <1>1, <1>2, <1>3, ScriptFlatten

\* What the calls on a memory or an AVR do.
LEMMA JobFits ==
  ASSUME mode \in Modes, NEW c \in JobType(mode.bus)
  PROVE  Script(Transfers(c), Requests(mode.bus, c.op)) /\ IsJob(c)
<1> DEFINE b == mode.bus
           R == Requests(b, c.op)
<1>1. b \in {"spi", "i2c", "mw", "isp"}
  BY UsbAspAssumption
<1>2. CASE b = "spi"
  <2>1. c.op \in {"SPIWrite", "SPIRead"} /\ c.n \in Nat
    BY <1>2 DEF JobType
  <2>2. IsJob(c) /\ R = {"SPI_READ", "SPI_WRITE"} /\ R \subseteq Vendors
    BY <1>2, <2>1, Names DEF IsJob, Requests, Memory
  <2>3. Transfers(c) = IF c.op = "SPIWrite" THEN <<Vendor("SPI_WRITE", "out", c.cs, 0, c.n)>>
                       ELSE <<Vendor("SPI_READ", "in", c.cs, 0, c.n)>>
    BY <2>1 DEF Transfers
  <2> HIDE DEF R
  <2> QED
    BY <2>1, <2>2, <2>3, ScriptVendor, Names DEF R
<1>3. CASE b = "i2c"
  <2>0. /\ c.op \in {"I2CReadWrite", "I2CStart", "I2CStop", "I2CWriteByte", "I2CReadByte"}
        /\ c.op = "I2CReadWrite" => c.w \in Nat /\ c.r \in Nat /\ c.w + c.r > 0
    BY <1>3 DEF JobType
  <2>2. /\ IsJob(c) /\ R \subseteq Vendors
        /\ R = {"I2C_READ", "I2C_WRITE", "I2C_START", "I2C_STOP", "I2C_WRITEBYTE", "I2C_READBYTE"}
    BY <1>3, <2>0, Names DEF IsJob, Requests, Memory, Atomic
  <2> HIDE DEF R
  <2>3. CASE c.op = "I2CReadWrite"
    <3> DEFINE x == <<Vendor("I2C_WRITE", "out", "addr", IF c.r > 0 THEN 0 ELSE 1, c.w)>>
               y == <<Vendor("I2C_READ", "in", "addr", 0, c.r)>>
    <3>1. Transfers(c) = (IF c.w > 0 THEN x ELSE <<>>) \o (IF c.r > 0 THEN y ELSE <<>>)
      BY <2>3 DEF Transfers
    <3>2. Script(x, R) /\ Script(y, R)
      BY <2>0, <2>2, <2>3, ScriptVendor, Names
    <3> HIDE DEF x, y
    <3>3. ASSUME c.w > 0, c.r > 0 PROVE Script(Transfers(c), R)
      BY <3>1, <3>2, <3>3, ScriptConcat
    <3>4. ASSUME c.w > 0, ~(c.r > 0) PROVE Script(Transfers(c), R)
      <4>1. x \in Seq(Range(x))
        BY <3>2 DEF Script, IsSeq
      <4>2. x \o <<>> = x
        BY <4>1, ConcatEmptySeq
      <4> QED
        BY <3>1, <3>2, <3>4, <4>2
    <3>5. ASSUME ~(c.w > 0) PROVE Script(Transfers(c), R)
      <4>1. y \in Seq(Range(y)) /\ c.r > 0
        BY <3>2, <2>0, <2>3, <3>5 DEF Script, IsSeq
      <4>2. <<>> \o y = y
        BY <4>1, ConcatEmptySeq
      <4> QED
        BY <3>1, <3>2, <3>5, <4>1, <4>2
    <3>6. Script(Transfers(c), R)
      BY <3>3, <3>4, <3>5
    <3> QED
      BY <2>2, <3>6 DEF R
  <2>4. CASE c.op # "I2CReadWrite"
    <3>1. Transfers(c) \in {<<Vendor("I2C_START", "in", 0, 0, 0)>>, <<Vendor("I2C_STOP", "in", 0, 0, 0)>>,
                            <<Vendor("I2C_WRITEBYTE", "in", Byte(c.id, 1), 0, 1)>>,
                            <<Vendor("I2C_READBYTE", "in", c.ack, 0, 1)>>}
      BY <2>0, <2>4 DEF Transfers
    <3>2. Script(Transfers(c), R)
      BY <3>1, <2>2, ScriptVendor, Names
    <3> QED
      BY <2>2, <3>2 DEF R
  <2> QED
    BY <2>3, <2>4
<1>4. CASE b = "mw"
  <2>1. /\ c.op \in {"MWWrite", "MWRead", "MWIsBusy"}
        /\ c.op = "MWWrite" => c.bits \in Nat
        /\ c.op = "MWRead" => c.n \in Nat
    BY <1>4 DEF JobType
  <2>2. /\ IsJob(c) /\ R \subseteq Vendors /\ R = {"MW_READ", "MW_WRITE", "MW_BUSY"}
    BY <1>4, <2>1, Names DEF IsJob, Requests, Memory, Atomic
  <2>3. c.op = "MWWrite" => ByteNum(c.bits) \in Nat
    BY <2>1 DEF ByteNum
  <2>4. Transfers(c) = CASE c.op = "MWWrite" -> <<Vendor("MW_WRITE", "out", c.cs, c.bits, ByteNum(c.bits))>>
                         [] c.op = "MWRead"  -> <<Vendor("MW_READ", "in", c.cs, 0, c.n)>>
                         [] OTHER            -> <<Vendor("MW_BUSY", "in", 0, 0, 1)>>
    BY <2>1 DEF Transfers
  <2> HIDE DEF R
  <2>5. Script(Transfers(c), R)
    BY <2>1, <2>2, <2>3, <2>4, ScriptVendor, Names
  <2> QED
    BY <2>2, <2>5 DEF R
<1>5. CASE b = "isp"
  <2>1. /\ c.op \in {"Instruction", "READFLASH", "READEEPROM", "WRITEEEPROM", "WRITEFLASH"}
        /\ c.op # "Instruction" => c.blocks \in Seq(Nat) \ {<<>>}
    BY <1>5 DEF JobType
  <2>2. /\ IsJob(c) /\ R = {"SETLONGADDRESS", "TRANSMIT"} \cup IspReads \cup IspWrites
        /\ R \subseteq Vendors
    BY <1>5, <2>1, Names DEF IsJob, Requests, Memory, Atomic, IspReads, IspWrites
  <2> HIDE DEF R
  <2>3. CASE c.op = "Instruction"
    <3>1. Transfers(c) = <<Vendor("TRANSMIT", "in", Byte(c.id, 1), 0, 4)>>
      BY <2>3 DEF Transfers
    <3>2. Script(Transfers(c), R)
      BY <3>1, <2>2, ScriptVendor, Names
    <3> QED
      BY <2>2, <3>2 DEF R
  <2>4. CASE c.op # "Instruction"
    <3> DEFINE dir == IF c.op \in IspReads THEN "in" ELSE "out"
               at == [i \in 1 .. Len(c.blocks) |-> c.addr + Offset(c, i)]
               index == [i \in 1 .. Len(c.blocks) |->
                           IF c.op = "WRITEFLASH" THEN 4 * c.page + IF c.page > 0 THEN Flags(c, i) ELSE 0
                           ELSE 0]
               s == [i \in 1 .. Len(c.blocks) |->
                       <<Vendor("SETLONGADDRESS", "in", at[i], 0, 0),
                         Vendor(c.op, dir, 0, index[i], c.blocks[i])>>]
    <3>1. Transfers(c) = FlattenSeq(s)
      <4>1. CASE c.op \in {"READFLASH", "READEEPROM"}
        BY <4>1 DEF Transfers, Blocks, IspReads
      <4>2. CASE c.op = "WRITEFLASH"
        BY <4>2 DEF Transfers, Blocks, IspReads
      <4>3. CASE c.op = "WRITEEEPROM"
        BY <4>3 DEF Transfers, Blocks, IspReads
      <4> QED
        BY <2>1, <2>4, <4>1, <4>2, <4>3
    <3>2. /\ c.op \in (IspReads \cup IspWrites) \cap R /\ "SETLONGADDRESS" \in R
          /\ dir \in {"in", "out"}
          /\ c.op \in IspReads => dir = "in"
          /\ c.op \in IspWrites => dir = "out"
      BY <2>1, <2>2, <2>4 DEF IspReads, IspWrites
    <3> HIDE DEF dir, at, index
    <3>3. s = [i \in 1 .. Len(c.blocks) |->
                 <<Vendor("SETLONGADDRESS", "in", at[i], 0, 0),
                   Vendor(c.op, dir, 0, index[i], c.blocks[i])>>]
      OBVIOUS
    <3> HIDE DEF s
    <3>4. c.blocks \in Seq(Nat) \ {<<>>}
      BY <2>1, <2>4
    <3> DEFINE req == c.op
    <3>5. /\ req \in (IspReads \cup IspWrites) \cap R
          /\ req \in IspReads => dir = "in"
          /\ req \in IspWrites => dir = "out"
          /\ s = [i \in 1 .. Len(c.blocks) |->
                    <<Vendor("SETLONGADDRESS", "in", at[i], 0, 0),
                      Vendor(req, dir, 0, index[i], c.blocks[i])>>]
      BY <3>2, <3>3
    <3> HIDE DEF req
    <3>6. Script(FlattenSeq(s), R)
      BY <3>2, <3>4, <3>5, BlocksFit
    <3> QED
      BY <2>2, <3>1, <3>6 DEF R
  <2> QED
    BY <2>3, <2>4
<1> QED
  BY <1>1, <1>2, <1>3, <1>4, <1>5

-----------------------------------------------------------------------------
(***************************************************************************)
(* The requests of the firmware keep its count a number.                   *)
(***************************************************************************)
\* What a request is answered with, and what it leaves to be read or written.
SetupFits(f, rq, r) ==
  /\ FwOK(r.fw) /\ IsSeq(r.reply) /\ r.user \in BOOLEAN
  /\ r.user <=> rq.req \in Readable \cup Writable
  /\ rq.req \in Memory => r.fw.nbytes = rq.len /\ r.fw.state = rq.req
  /\ rq.req = "SETISPSCK" => Len(r.reply) = 1

\* One request of the host.
LEMMA SetupKeeps ==
  ASSUME NEW f, FwOK(f), NEW rq, Asks(rq), rq.type = "vendor"
  PROVE  SetupFits(f, rq, usbFunctionSetup(f, rq))
<1> DEFINE r == usbFunctionSetup(f, rq)
<1>1. rq.req \in Vendors /\ rq.len \in Nat
  BY DEF Asks, Standards, Vendors, Memory, IspReads, IspWrites, Atomic
<1>2. CASE rq.req \in Memory
  <2>1. /\ FwOK(r.fw) /\ r.fw.nbytes = rq.len /\ r.fw.state = rq.req
        /\ r.reply = <<>> /\ r.user = TRUE
    BY <1>1, <1>2 DEF usbFunctionSetup, Transfer, FwOK, FwFields, Memory
  <2> HIDE DEF r
  <2>2. SetupFits(f, rq, r)
    BY <1>2, <2>1, SeqShort, Names DEF SetupFits, Memory
  <2> QED
    BY <2>2 DEF r
<1>3. CASE rq.req \in IspReads \cup IspWrites
  <2>1. /\ FwOK(r.fw) /\ r.reply = <<>> /\ r.user = TRUE
    BY <1>1, <1>3 DEF usbFunctionSetup, Transfer, Addressed, StartPage, FwOK, FwFields, IspReads, IspWrites
  <2> HIDE DEF r
  <2>2. SetupFits(f, rq, r)
    BY <1>3, <2>1, SeqShort, Names DEF SetupFits, Memory, IspReads, IspWrites
  <2> QED
    BY <2>2 DEF r
<1>4. CASE rq.req \in Atomic
  <2>1. FwOK(r.fw) /\ r.user = FALSE
    <3>1. DOMAIN r.fw = FwFields /\ r.fw.nbytes = f.nbytes /\ r.fw.sck \in {f.sck, rq.value} /\ r.user = FALSE
          /\ (rq.req # "SETISPSCK" => r.fw.sck = f.sck)
      BY <1>4 DEF usbFunctionSetup, FwOK, FwFields, Atomic
    <3>2. f.sck \in Nat /\ f.nbytes \in Nat /\ (rq.req = "SETISPSCK" => rq.value \in Nat)
      BY DEF FwOK, Asks
    <3> QED
      BY <3>1, <3>2 DEF FwOK
  <2>2. rq.req \in {"CONNECT", "SETLONGADDRESS", "SPI_CONNECT", "DISCONNECT", "I2C_INIT", "I2C_START",
                   "I2C_STOP"} => r.reply = <<>>
    BY <1>4 DEF usbFunctionSetup, Atomic
  <2>3. rq.req \in {"SETISPSCK", "ENABLEPROG", "I2C_WRITEBYTE", "I2C_READBYTE", "MW_BUSY"} =>
          \E x : r.reply = <<x>>
    BY <1>4 DEF usbFunctionSetup, Atomic
  <2>4. rq.req = "GETCAPABILITIES" => r.reply = <<"tpi", 0, 0, "flash">>
    BY <1>4 DEF usbFunctionSetup, Atomic
  <2>5. rq.req = "TRANSMIT" => \E g : r.reply = [k \in 1 .. 4 |-> g[k]]
    <3>1. rq.req = "TRANSMIT" => \E x : r.reply = [k \in 1 .. 4 |-> x]
      BY <1>4 DEF usbFunctionSetup, Atomic
    <3> HIDE DEF r
    <3>2. ASSUME NEW x, r.reply = [k \in 1 .. 4 |-> x] PROVE \E g : r.reply = [k \in 1 .. 4 |-> g[k]]
      <4> DEFINE g == [k \in 1 .. 4 |-> x]
      <4>1. r.reply = [k \in 1 .. 4 |-> g[k]]
        BY <3>2
      <4> QED
        BY <4>1
    <3> QED
      BY <3>1, <3>2
  <2>6. IsSeq(r.reply)
    <3>1. CASE \E x : r.reply = <<x>>
      BY <3>1, SeqShort
    <3>2. CASE r.reply = <<>>
      BY <3>2, SeqShort
    <3>3. CASE r.reply = <<"tpi", 0, 0, "flash">>
      <4>1. <<"tpi", 0, 0, "flash">> \in Seq({"tpi", 0, "flash"})
        OBVIOUS
      <4> QED
        BY <3>3, <4>1, SeqOver
    <3>4. CASE \E g : r.reply = [k \in 1 .. 4 |-> g[k]]
      <4>1. r.reply = [k \in 1 .. 4 |-> r.reply[k]]
        BY <3>4
      <4> QED
        BY <4>1, SeqBuilt
    <3> HIDE DEF r
    <3> QED
      BY <1>4, <2>2, <2>3, <2>4, <2>5, <3>1, <3>2, <3>3, <3>4 DEF Atomic
  <2>7. rq.req = "SETISPSCK" => Len(r.reply) = 1
    BY <2>3, SeqShort
  <2>8. rq.req \notin Readable \cup Writable /\ rq.req \notin Memory
    BY <1>4, Names DEF Atomic, Memory
  <2> HIDE DEF r
  <2>9. SetupFits(f, rq, r)
    BY <2>1, <2>6, <2>7, <2>8 DEF SetupFits
  <2> QED
    BY <2>9 DEF r
<1> QED
  BY <1>1, <1>2, <1>3, <1>4 DEF Vendors

(***************************************************************************)
(* Reads and writes without their local definitions: the pins after each   *)
(* byte, and what ends the frame.                                          *)
(***************************************************************************)
Least(f, n) == IF n > f.nbytes THEN f.nbytes ELSE n

ReadClock(f, p, i) ==
  CASE f.state = "SPI_READ" -> ispTransmit(p, Sym("read"))
    [] f.state = "MW_READ"  -> mwReadByte(p)
    [] f.state = "I2C_READ" -> i2c_read_byte(p, IF i = f.nbytes THEN "nack" ELSE "ack")

ReadPins(f, k) ==
  CHOOSE after : after = [i \in 0 .. k |-> IF i = 0 THEN f.pins ELSE ReadClock(f, after[i - 1], i)]

ReadClose(f, p) ==
  CASE f.state = "SPI_READ" -> CloseSpi(f, p)
    [] f.state = "MW_READ"  -> CloseMW(f, p)
    [] f.state = "I2C_READ" -> i2c_stop(p)

Read(f, k) == [f EXCEPT !.pins = ReadPins(f, k)[k], !.nbytes = @ - k]

ReadEnd(f, k) ==
  LET g == Read(f, k)
  IN  IF g.pins.cpu = "running" /\ g.nbytes = 0
      THEN [g EXCEPT !.pins = ReadClose(f, g.pins), !.state = Idle] ELSE g

ReadData(f, k) ==
  LET after == ReadPins(f, k)
  IN  [i \in 1 .. k |-> IF f.state = "SPI_READ" THEN Place(after[i - 1], after[i])
                        ELSE I2CPlace(after[i - 1], after[i])]

WriteClock(f, data, p, i) ==
  CASE f.state = "SPI_WRITE" -> ispTransmit(p, data[i])
    [] f.state = "I2C_WRITE" -> i2c_send_byte(p, data[i])
    [] f.state = "MW_WRITE"  -> IF BitsOf(f, i) > 0 THEN mwSendData(p, data[i], BitsOf(f, i)) ELSE p

WritePins(f, data, k) ==
  CHOOSE after : after = [i \in 0 .. k |-> IF i = 0 THEN f.pins ELSE WriteClock(f, data, after[i - 1], i)]

WriteClose(f, p) ==
  CASE f.state = "SPI_WRITE" -> CloseSpi(f, p)
    [] f.state = "I2C_WRITE" -> CloseI2C(f, p)
    [] f.state = "MW_WRITE"  -> CloseMW(f, p)

Wrote(f, data, k) ==
  [f EXCEPT !.pins = WritePins(f, data, k)[k], !.nbytes = @ - k,
            !.bits = IF f.state = "MW_WRITE" THEN (IF @ > 8 * k THEN @ - 8 * k ELSE 0) ELSE @]

WriteEnd(f, data, k) ==
  LET g == Wrote(f, data, k)
  IN  IF g.pins.cpu = "running" /\ g.nbytes = 0
      THEN [g EXCEPT !.pins = WriteClose(f, g.pins),
                     !.state = IF f.state = "SPI_WRITE" THEN f.state ELSE Idle] ELSE g

IspPins(f, len) ==
  CHOOSE after : after = [i \in 0 .. len |->
    IF i = 0 THEN f.pins
    ELSE IF f.state = "READFLASH" THEN ispReadFlash(after[i - 1], f.address + i - 1)
    ELSE ispReadEEPROM(after[i - 1], f.address + i - 1)]

IspEnd(f, len) ==
  [f EXCEPT !.pins = IspPins(f, len)[len], !.address = @ + len,
            !.state = IF len < PacketSize THEN Idle ELSE @]

IspData(f, len) == [i \in 1 .. len |-> Place(IspPins(f, len)[i - 1], IspPins(f, len)[i])]

Stored(f, data) ==
  CHOOSE after : after = [i \in 0 .. Len(data) |-> IF i = 0 THEN f ELSE IspByte(after[i - 1], data[i])]

\* A memory is read.
LEMMA MemoryReadIs ==
  ASSUME NEW f, NEW len
  PROVE  /\ MemoryRead(f, len).fw = ReadEnd(f, Least(f, len))
         /\ MemoryRead(f, len).data = ReadData(f, Least(f, len))
<1>1. MemoryRead(f, len).fw = ReadEnd(f, Least(f, len))
  BY Zenon DEF MemoryRead, Clocked, Ended, ReadPins, ReadClock, ReadClose, Least, Read, ReadEnd
<1>2. MemoryRead(f, len).data = ReadData(f, Least(f, len))
  BY Zenon DEF MemoryRead, Clocked, ReadPins, ReadClock, Least, ReadData
<1> QED
  BY <1>1, <1>2, Zenon

\* A memory is written.
LEMMA MemoryWriteIs ==
  ASSUME NEW f, NEW data
  PROVE  MemoryWrite(f, data) = WriteEnd(f, data, Least(f, Len(data)))
  BY DEF MemoryWrite, Clocked, Ended, WritePins, WriteClock, WriteClose, Least, Wrote, WriteEnd

\* An AVR is read.
LEMMA IspReadIs ==
  ASSUME NEW f, NEW len
  PROVE  IspRead(f, len).fw = IspEnd(f, len) /\ IspRead(f, len).data = IspData(f, len)
<1>1. IspRead(f, len).fw = IspEnd(f, len)
  BY DEF IspRead, Clocked, IspPins, IspEnd
<1>2. IspRead(f, len).data = IspData(f, len)
  BY Zenon DEF IspRead, Clocked, IspPins, IspData
<1> QED
  BY <1>1, <1>2, Zenon

\* An AVR is written.
LEMMA IspWriteIs ==
  ASSUME NEW f, NEW data
  PROVE  IspWrite(f, data) = Stored(f, data)[Len(data)]
  BY DEF IspWrite, Clocked, Stored

\* What a read of at most len bytes gives: the rest of a memory's bytes.
ReadFits(f, len, r) ==
  /\ FwOK(r.fw) /\ IsSeq(r.data) /\ Len(r.data) <= len
  /\ f.state \notin IspReads =>
       /\ Len(r.data) = IF len > f.nbytes THEN f.nbytes ELSE len
       /\ r.fw.nbytes = f.nbytes - Len(r.data)
       /\ r.fw.state = f.state \/ (r.fw.state = Idle /\ r.fw.nbytes = 0)

\* A packet of a memory, or of an AVR's.
LEMMA ReadKeeps ==
  ASSUME NEW f, FwOK(f), NEW len \in Nat
  PROVE  ReadFits(f, len, usbFunctionRead(f, len))
<1> DEFINE r == usbFunctionRead(f, len)
           k == Least(f, len)
<1>1. CASE f.state \in IspReads
  <2>1. r = IspRead(f, len)
    BY <1>1 DEF usbFunctionRead
  <2> HIDE DEF r
  <2>2. r.fw = IspEnd(f, len) /\ r.data = IspData(f, len)
    BY <2>1, IspReadIs, Zenon
  <2>3. FwOK(r.fw)
    BY <2>2 DEF IspEnd, FwOK, FwFields
  <2>4. r.data = [i \in 1 .. len |-> r.data[i]]
    BY <2>2 DEF IspData
  <2>5. IsSeq(r.data) /\ Len(r.data) = len
    BY <2>4, SeqBuilt
  <2>6. ReadFits(f, len, r)
    BY <1>1, <2>3, <2>5 DEF ReadFits
  <2> QED
    BY <2>6 DEF r
<1>2. CASE f.state \notin IspReads
  <2>1. r = MemoryRead(f, len)
    BY <1>2 DEF usbFunctionRead
  <2>2. k \in Nat /\ k <= len /\ k <= f.nbytes /\ f.nbytes \in Nat
    BY DEF FwOK, Least
  <2> HIDE DEF r
  <2>3. r.fw = ReadEnd(f, k) /\ r.data = ReadData(f, k)
    BY <2>1, MemoryReadIs, Zenon
  <2> HIDE DEF k
  <2>4. r.data = [i \in 1 .. k |-> r.data[i]]
    BY <2>3 DEF ReadData
  <2>5. IsSeq(r.data) /\ Len(r.data) = k
    BY <2>2, <2>4, SeqBuilt
  <2>6. /\ DOMAIN r.fw = FwFields /\ r.fw.nbytes = f.nbytes - k /\ r.fw.sck = f.sck
        /\ r.fw.state = f.state \/ (r.fw.state = Idle /\ r.fw.nbytes = 0)
    <3> DEFINE g == Read(f, k)
    <3>1. DOMAIN g = FwFields /\ g.nbytes = f.nbytes - k /\ g.state = f.state /\ g.sck = f.sck
      BY DEF Read, FwOK, FwFields
    <3>2. r.fw = IF g.pins.cpu = "running" /\ g.nbytes = 0
                 THEN [g EXCEPT !.pins = ReadClose(f, g.pins), !.state = Idle] ELSE g
      BY <2>3 DEF ReadEnd
    <3> HIDE DEF g
    <3> QED
      BY <3>1, <3>2 DEF FwFields
  <2>7. ReadFits(f, len, r)
    BY <1>2, <2>2, <2>5, <2>6 DEF ReadFits, FwOK, k, Least
  <2> QED
    BY <2>7 DEF r
<1> QED
  BY <1>1, <1>2

\* What writing a packet leaves: the rest of a memory's bytes.
WriteFits(f, data, g) ==
  /\ FwOK(g)
  /\ f.state \notin IspWrites =>
       LET k == Least(f, Len(data))
       IN  /\ g.nbytes = f.nbytes - k
           /\ g.state = f.state \/ (g.state = Idle /\ g.nbytes = 0)

\* A byte of an AVR's memory.
LEMMA ByteKeeps ==
  ASSUME NEW f, FwOK(f), NEW byte
  PROVE  FwOK(IspByte(f, byte))
<1> DEFINE g == LoadByte(f, byte)
<1>1. DOMAIN g = FwFields /\ g.nbytes = f.nbytes /\ g.sck = f.sck
  BY DEF LoadByte, FwOK, FwFields
<1>2. (g.nbytes + 65535) % 65536 \in Nat
  BY <1>1 DEF FwOK
<1> HIDE DEF g
<1>3. DOMAIN IspByte(f, byte) = FwFields /\ IspByte(f, byte).nbytes = (g.nbytes + 65535) % 65536
      /\ IspByte(f, byte).sck = f.sck
  BY <1>1 DEF IspByte, FwFields, g
<1> QED
  BY <1>2, <1>3 DEF FwOK

\* A packet for a memory, or for an AVR's.
LEMMA WriteKeeps ==
  ASSUME NEW f, FwOK(f), NEW data, IsSeq(data)
  PROVE  WriteFits(f, data, usbFunctionWrite(f, data))
<1> DEFINE g == usbFunctionWrite(f, data)
           n == Len(data)
<1>0. n \in Nat
  BY SeqLen
<1>1. CASE f.state \in IspWrites
  <2>1. g = Stored(f, data)[n]
    BY <1>1, IspWriteIs DEF usbFunctionWrite
  <2> DEFINE Body(h, m) == [i \in 0 .. m |-> IF i = 0 THEN f ELSE IspByte(h[i - 1], data[i])]
             after == CHOOSE h : h = Body(h, n)
             Known == {m \in Nat : \E h : h = Body(h, m)}
             Good == {m \in Nat : m \in 0 .. n => FwOK(after[m])}
  <2>2. after = Stored(f, data)
    BY DEF Stored
  <2>3. \A m \in Nat : m \in Known
    <3> HIDE DEF Body
    <3>1. 0 \in Known
      <4> DEFINE h == [i \in 0 .. 0 |-> f]
      <4>1. h = Body(h, 0)
        BY DEF Body
      <4> QED
        BY <4>1
    <3>2. ASSUME NEW m \in Nat, m \in Known PROVE m + 1 \in Known
      <4>1. PICK h : h = Body(h, m)
        BY <3>2
      <4> DEFINE e == [i \in 0 .. (m + 1) |-> IF i <= m THEN h[i] ELSE IspByte(h[m], data[i])]
      <4>2. ASSUME NEW i \in 0 .. (m + 1)
            PROVE  e[i] = IF i = 0 THEN f ELSE IspByte(e[i - 1], data[i])
        <5>1. CASE i <= m
          <6>1. i \in 0 .. m /\ e[i] = h[i] /\ (i # 0 => e[i - 1] = h[i - 1])
            BY <5>1
          <6>2. h[i] = IF i = 0 THEN f ELSE IspByte(h[i - 1], data[i])
            BY <4>1, <6>1 DEF Body
          <6> QED
            BY <6>1, <6>2
        <5>2. CASE ~(i <= m)
          <6>1. i = m + 1 /\ i # 0 /\ i - 1 = m /\ m \in 0 .. (m + 1) /\ m <= m
            BY <5>2
          <6>2. e[i] = IspByte(h[m], data[i]) /\ e[m] = h[m]
            BY <5>2, <6>1
          <6> QED
            BY <6>1, <6>2
        <5> QED
          BY <5>1, <5>2
      <4>3. e = [i \in 0 .. (m + 1) |-> e[i]]
        OBVIOUS
      <4> HIDE DEF e
      <4>4. e = Body(e, m + 1)
        BY <4>2, <4>3 DEF Body
      <4> QED
        BY <4>4
    <3> HIDE DEF Known
    <3> QED
      BY <3>1, <3>2, Induction
  <2>4. after = Body(after, n)
    <3> HIDE DEF Body
    <3>1. \E h : h = Body(h, n)
      BY <1>0, <2>3
    <3> QED
      BY <3>1, Zenon
  <2> HIDE DEF after, n
  <2>5. \A m \in Nat : m \in Good
    <3>1. 0 \in Good
      BY <1>0, <2>4
    <3>2. ASSUME NEW m \in Nat, m \in Good PROVE m + 1 \in Good
      <4>1. SUFFICES ASSUME m + 1 \in 0 .. n PROVE FwOK(after[m + 1])
        OBVIOUS
      <4>2. after[m + 1] = Body(after, n)[m + 1]
        BY <2>4, Zenon
      <4>3. Body(after, n)[m + 1] = IspByte(after[(m + 1) - 1], data[m + 1])
        BY <1>0, <4>1
      <4>4. (m + 1) - 1 = m /\ FwOK(after[m])
        BY <1>0, <3>2, <4>1
      <4> HIDE DEF Body
      <4> QED
        BY <4>2, <4>3, <4>4, ByteKeeps
    <3> HIDE DEF Good
    <3> QED
      BY <3>1, <3>2, Induction
  <2>6. FwOK(after[n])
    BY <1>0, <2>5
  <2> HIDE DEF g
  <2>7. FwOK(g)
    BY <2>1, <2>2, <2>6, Zenon
  <2>8. WriteFits(f, data, g)
    BY <1>1, <2>7 DEF WriteFits
  <2> QED
    BY <2>8 DEF g
<1>2. CASE f.state \notin IspWrites
  <2> DEFINE k == Least(f, n)
  <2>1. g = WriteEnd(f, data, k)
    BY <1>2, MemoryWriteIs DEF usbFunctionWrite
  <2>2. k \in Nat /\ k <= f.nbytes /\ f.nbytes \in Nat
    BY <1>0 DEF FwOK, Least
  <2> HIDE DEF g, k
  <2>3. /\ DOMAIN g = FwFields /\ g.nbytes = f.nbytes - k /\ g.sck = f.sck
        /\ g.state = f.state \/ (g.state = Idle /\ g.nbytes = 0)
    <3> DEFINE h == Wrote(f, data, k)
    <3>1. DOMAIN h = FwFields /\ h.nbytes = f.nbytes - k /\ h.state = f.state /\ h.sck = f.sck
      BY DEF Wrote, FwOK, FwFields
    <3>2. g = IF h.pins.cpu = "running" /\ h.nbytes = 0
              THEN [h EXCEPT !.pins = WriteClose(f, h.pins),
                             !.state = IF f.state = "SPI_WRITE" THEN f.state ELSE Idle] ELSE h
      BY <2>1 DEF WriteEnd
    <3> HIDE DEF h
    <3> QED
      BY <3>1, <3>2 DEF FwFields
  <2>4. WriteFits(f, data, g)
    BY <2>2, <2>3 DEF WriteFits, FwOK, k
  <2> QED
    BY <2>4 DEF g
<1> QED
  BY <1>1, <1>2

-----------------------------------------------------------------------------
(***************************************************************************)
(* The driver.                                                             *)
(***************************************************************************)
\* Nothing received, and nothing to send.
LEMMA EmptyBuffers ==
  /\ RxOK(Nothing) /\ TxOK(Nak) /\ TxOK(Stall)
  /\ Nak.pid # "DATA" /\ Stall.pid # "DATA" /\ Nothing.pid \notin {"SETUP", "OUT"} /\ Nak # Stall
<1>1. RxOK(Nothing) /\ TxOK(Nak) /\ TxOK(Stall)
  BY DEF RxOK, TxOK
<1>2. /\ Nak.pid = "NAK" /\ Stall.pid = "STALL" /\ Nothing.pid = "none"
  BY DEF Nak, Stall, Nothing
<1> QED
  BY <1>1, <1>2

\* A device as it is plugged in.
LEMMA PoweredFits == DevOK(PoweredUp) /\ PoweredUp.rx = Nothing /\ Offered(PoweredUp) = 0
<1> DEFINE d == PoweredUp
<1>1. /\ DOMAIN d = DevFields /\ d.rx = Nothing /\ d.tx = Nak /\ d.msgLen = NoMsg
      /\ d.msg = <<>> /\ d.userRW = FALSE /\ d.fw = Static
  BY DEF PoweredUp, DevFields
<1>2. FwOK(Static)
  BY SckOptions DEF Static, FwOK, FwFields
<1> HIDE DEF d
<1>3. DevOK(d) /\ Offered(d) = 0
  BY <1>1, <1>2, SeqShort, EmptyBuffers DEF DevOK, NoMsg, Offered
<1> QED
  BY <1>1, <1>3 DEF d

\* A restart leaves it like that.
LEMMA RunningFits ==
  ASSUME NEW d, DevOK(d)
  PROVE  /\ DevOK(Running(d))
         /\ Running(d) = d \/ (Running(d).rx = Nothing /\ Offered(Running(d)) = 0)
<1>1. CASE d.fw.pins.cpu # "restart"
  BY <1>1 DEF Running
<1>2. CASE d.fw.pins.cpu = "restart"
  <2> DEFINE e == [PoweredUp EXCEPT !.fw.pins.wire = d.fw.pins.wire]
  <2>1. Running(d) = e
    BY <1>2 DEF Running
  <2>2. /\ DOMAIN e = DevFields /\ e.rx = Nothing /\ e.tx = Nak /\ e.msgLen = NoMsg
        /\ e.msg = <<>> /\ e.userRW = FALSE /\ DOMAIN e.fw = FwFields /\ e.fw.nbytes = 0
        /\ e.fw.sck \in Nat
    BY SckOptions DEF PoweredUp, DevFields, Static, FwFields
  <2> HIDE DEF e
  <2>3. DevOK(e) /\ Offered(e) = 0
    BY <2>2, SeqShort, EmptyBuffers DEF DevOK, NoMsg, Offered, FwOK
  <2> QED
    BY <2>1, <2>2, <2>3
<1> QED
  BY <1>1, <1>2

\* A request is served: what is offered then is no more than it asks for.
LEMMA SetupServed ==
  ASSUME NEW d, DevOK(d), NEW rq, Asks(rq)
  PROVE  LET e == SetupReceived(d, rq)
         IN  DevOK(e) /\ e.rx = Nothing /\ e.tx = Nak /\ Offered(e) <= rq.len
<1> DEFINE e  == SetupReceived(d, rq)
           d0 == [d EXCEPT !.toggle = 0, !.tx = Nak, !.userRW = FALSE, !.rx = Nothing]
           r  == usbFunctionSetup(d.fw, rq)
           d1 == IF rq.type = "standard" THEN usbDriverSetup(d0, rq)
                 ELSE [d0 EXCEPT !.fw = r.fw, !.msg = r.reply]
<1>1. /\ DOMAIN d0 = DevFields /\ d0.tx = Nak /\ d0.userRW = FALSE /\ d0.rx = Nothing
      /\ d0.fw = d.fw
  BY DEF DevOK, DevFields
<1>2. e = IF rq.type = "vendor" /\ r.user
          THEN [d1 EXCEPT !.userRW = TRUE, !.msgLen = IF rq.dir = "in" THEN rq.len ELSE NoMsg]
          ELSE [d1 EXCEPT !.msgLen = AtMost(Len(d1.msg), rq.len)]
  BY DEF SetupReceived
<1>3. rq.type = "vendor" => FwOK(r.fw) /\ IsSeq(r.reply) /\ r.user \in BOOLEAN
  BY SetupKeeps DEF SetupFits, DevOK
<1> HIDE DEF e, d0, r
<1>4. /\ DOMAIN d1 = DevFields /\ d1.tx = Nak /\ d1.userRW = FALSE /\ d1.rx = Nothing
      /\ FwOK(d1.fw) /\ IsSeq(d1.msg)
  <2>1. CASE rq.type = "standard"
    <3> DEFINE m == [i \in 1..(PacketSize + 2) |-> <<"descriptor", i>>]
    <3>1. rq.req \in Standards
      BY <2>1 DEF Asks
    <3>2. PacketSize + 2 \in Nat
      BY UsbAspAssumption
    <3>3. m = [i \in 1..(PacketSize + 2) |-> m[i]]
      OBVIOUS
    <3> HIDE DEF m
    <3>4. IsSeq(m) /\ IsSeq(<<>>)
      BY <3>2, <3>3, SeqBuilt, SeqShort
    <3>5. \E a, b : d1 \in {[d0 EXCEPT !.newAddr = a, !.msg = <<>>], [d0 EXCEPT !.config = b, !.msg = <<>>],
                          [d0 EXCEPT !.msg = m]}
      BY <2>1, <3>1 DEF usbDriverSetup, Standards, m
    <3> HIDE DEF d1
    <3>6. /\ DOMAIN d1 = DevFields /\ d1.tx = Nak /\ d1.userRW = FALSE /\ d1.rx = Nothing
          /\ d1.fw = d.fw /\ (d1.msg = <<>> \/ d1.msg = m)
      BY <3>5, <1>1 DEF DevFields
    <3> QED
      BY <3>4, <3>6 DEF DevOK
  <2>2. CASE rq.type = "vendor"
    BY <1>1, <1>3, <2>2 DEF DevFields
  <2> QED
    BY <2>1, <2>2 DEF Asks
<1> HIDE DEF d1
<1>5. Len(d1.msg) \in Nat /\ rq.len \in Nat /\ rq.type \in {"vendor", "standard"} /\ rq.dir \in {"in", "out"}
  BY <1>4, SeqLen DEF Asks
<1>6. CASE rq.type = "vendor" /\ r.user
  <2>1. /\ DOMAIN e = DevFields /\ e.tx = Nak /\ e.userRW = TRUE /\ e.rx = Nothing
        /\ FwOK(e.fw) /\ IsSeq(e.msg) /\ e.msgLen = IF rq.dir = "in" THEN rq.len ELSE NoMsg
    BY <1>2, <1>4, <1>6 DEF DevFields
  <2>2. DevOK(e) /\ Offered(e) <= rq.len
    BY <1>5, <2>1, EmptyBuffers DEF DevOK, NoMsg, Offered
  <2> QED
    BY <2>1, <2>2 DEF e
<1>7. CASE ~(rq.type = "vendor" /\ r.user)
  <2>1. /\ DOMAIN e = DevFields /\ e.tx = Nak /\ e.userRW = FALSE /\ e.rx = Nothing
        /\ FwOK(e.fw) /\ e.msg = d1.msg /\ e.msgLen = AtMost(Len(d1.msg), rq.len)
    BY <1>2, <1>4, <1>7 DEF DevFields
  <2>2. DevOK(e) /\ Offered(e) <= rq.len
    BY <1>4, <1>5, <2>1, EmptyBuffers DEF DevOK, NoMsg, Offered, AtMost
  <2> QED
    BY <2>1, <2>2 DEF e
<1> QED
  BY <1>6, <1>7

\* What the driver offers is a number.
LEMMA OfferedIs ==
  ASSUME NEW d, DevOK(d)
  PROVE  /\ Offered(d) \in Nat
         /\ d.tx.pid = "DATA" => IsSeq(d.tx.data) /\ Len(d.tx.data) \in Nat
                                 /\ Len(d.tx.data) <= PacketSize /\ Len(d.tx.data) <= Offered(d)
         /\ d.tx \notin {Nak, Stall} <=> d.tx.pid = "DATA"
<1>1. d.tx \notin {Nak, Stall} => d.tx = [pid |-> "DATA", toggle |-> d.tx.toggle, data |-> d.tx.data]
                                  /\ IsSeq(d.tx.data) /\ Len(d.tx.data) <= PacketSize
  BY DEF DevOK, TxOK
<1>2. d.tx \notin {Nak, Stall} => d.tx.pid = "DATA"
  BY <1>1
<1>3. d.tx \in {Nak, Stall} => d.tx.pid # "DATA"
  BY EmptyBuffers
<1>4. d.tx.pid = "DATA" => IsSeq(d.tx.data) /\ Len(d.tx.data) \in Nat /\ Len(d.tx.data) <= PacketSize
  BY <1>1, <1>3, SeqLen
<1>5. d.msgLen \in Int
  BY DEF DevOK
<1> QED
  BY <1>2, <1>3, <1>4, <1>5 DEF Offered

\* Data of the host are served, or their write hangs.
LEMMA OutServed ==
  ASSUME NEW d, DevOK(d), d.rx # Nothing, d.rx.pid # "SETUP"
  PROVE  LET e == OutReceived(d, d.rx.data)
         IN  DevOK(e) /\ e.rx \in {Nothing, d.rx} /\ Offered(e) <= Offered(d)
<1> DEFINE e    == OutReceived(d, d.rx.data)
           data == d.rx.data
           d0   == [d EXCEPT !.rx = Nothing]
           fw   == usbFunctionWrite(d.fw, data)
<1>1. IsSeq(data) /\ RxOK(d.rx)
  BY DEF DevOK, RxOK
<1>2. FwOK(fw)
  BY <1>1, WriteKeeps DEF WriteFits, DevOK
<1>3. \/ e = d0
      \/ e = [d0 EXCEPT !.tx = Stall]
      \/ e = [d EXCEPT !.fw = fw]
      \/ e = [d0 EXCEPT !.fw = fw, !.msgLen = 0] /\ d.userRW
      \/ e = [d0 EXCEPT !.fw = fw]
  BY DEF OutReceived
<1>4. /\ FwOK(d.fw) /\ TxOK(d.tx) /\ d.msgLen \in Int /\ d.msgLen >= NoMsg /\ IsSeq(d.msg)
      /\ ~d.userRW => d.msgLen <= Len(d.msg)
  BY DEF DevOK
<1>5. d.tx.pid = "DATA" => Len(d.tx.data) \in Nat
  BY OfferedIs
<1> HIDE DEF e, data, fw
<1>6. /\ DOMAIN e = DevFields /\ e.rx \in {Nothing, d.rx} /\ e.fw \in {d.fw, fw}
      /\ e.tx \in {d.tx, Stall} /\ e.msg = d.msg /\ (d.userRW <=> e.userRW)
      /\ e.msgLen = d.msgLen \/ (e.msgLen = 0 /\ d.userRW)
  <2>1. DOMAIN d = DevFields
    BY DEF DevOK
  <2>2. CASE e = d0
    BY <2>1, <2>2 DEF DevFields
  <2>3. CASE e = [d0 EXCEPT !.tx = Stall]
    BY <2>1, <2>3 DEF DevFields
  <2>4. CASE e = [d EXCEPT !.fw = fw]
    BY <2>1, <2>4 DEF DevFields
  <2>5. CASE e = [d0 EXCEPT !.fw = fw, !.msgLen = 0] /\ d.userRW
    BY <2>1, <2>5 DEF DevFields
  <2>6. CASE e = [d0 EXCEPT !.fw = fw]
    BY <2>1, <2>6 DEF DevFields
  <2> QED
    BY <1>3, <2>2, <2>3, <2>4, <2>5, <2>6
<1>7. RxOK(e.rx) /\ FwOK(e.fw) /\ TxOK(e.tx)
  BY <1>1, <1>2, <1>4, <1>6, EmptyBuffers
<1>8. /\ e.msgLen \in Int /\ e.msgLen >= NoMsg /\ IsSeq(e.msg)
      /\ ~e.userRW => e.msgLen <= Len(e.msg)
  BY <1>4, <1>6 DEF NoMsg
<1>9. Offered(e) <= Offered(d)
  <2> DEFINE held(x) == IF x.tx.pid = "DATA" THEN Len(x.tx.data) ELSE 0
             left(x) == IF x.msgLen > 0 THEN x.msgLen ELSE 0
  <2>1. e.tx = d.tx \/ e.tx.pid # "DATA"
    BY <1>6, EmptyBuffers
  <2>2. held(e) \in {held(d), 0} /\ held(d) \in Nat
    BY <1>5, <2>1
  <2>3. left(e) \in {left(d), 0} /\ left(d) \in Nat
    BY <1>4, <1>6
  <2>4. Offered(e) = held(e) + left(e) /\ Offered(d) = held(d) + left(d)
    BY DEF Offered
  <2> HIDE DEF held, left
  <2> QED
    BY <2>2, <2>3, <2>4
<1>10. DevOK(e)
  BY <1>6, <1>7, <1>8 DEF DevOK
<1> QED
  BY <1>6, <1>9, <1>10 DEF e, data

\* The next packet is built: no more is offered by that.
LEMMA BlockBuilt ==
  ASSUME NEW d, DevOK(d), d.tx \in {Nak, Stall}, d.msgLen # NoMsg
  PROVE  LET e == usbBuildTxBlock(d)
         IN  DevOK(e) /\ e.rx = d.rx /\ Offered(e) <= Offered(d)
<1> DEFINE e     == usbBuildTxBlock(d)
           want  == Want(d)
           user  == d.userRW /\ want > 0
           error == user /\ d.fw.state \notin Readable
           r     == IF user /\ ~error THEN usbFunctionRead(d.fw, want)
                    ELSE [fw |-> d.fw, data |-> SubSeq(d.msg, 1, want)]
           last  == error \/ EndsMessage(Len(r.data))
           t     == IF error THEN Stall ELSE [pid |-> "DATA", toggle |-> Flip(d.toggle), data |-> r.data]
           rest  == IF user THEN d.msg ELSE SubSeq(d.msg, want + 1, Len(d.msg))
<1>1. /\ FwOK(d.fw) /\ d.msgLen \in Int /\ d.msgLen >= NoMsg /\ IsSeq(d.msg) /\ RxOK(d.rx) /\ TxOK(d.tx)
      /\ ~d.userRW => d.msgLen <= Len(d.msg)
      /\ DOMAIN d = DevFields
  BY DEF DevOK
<1>2. d.msgLen \in Nat
  BY <1>1 DEF NoMsg
<1>3. want \in Nat /\ want <= d.msgLen /\ want <= PacketSize /\ PacketSize \in Nat
  BY <1>2, UsbAspAssumption DEF Want, AtMost
<1>4. Len(d.msg) \in Nat /\ (~user => want <= Len(d.msg))
  BY <1>1, <1>3, SeqLen
<1>5. Offered(d) = d.msgLen
  BY <1>2, EmptyBuffers DEF Offered
<1>6. e = IF r.fw.pins.cpu = "hung" THEN [d EXCEPT !.fw = r.fw]
          ELSE [d EXCEPT !.fw = r.fw, !.toggle = Flip(@), !.msg = rest,
                         !.msgLen = IF last THEN NoMsg ELSE @ - want, !.tx = t]
  BY Zenon DEF usbBuildTxBlock
<1> HIDE DEF e, want
<1>7. FwOK(r.fw) /\ (~error => IsSeq(r.data) /\ Len(r.data) <= want)
  <2>1. CASE user /\ ~error
    BY <1>1, <1>3, <2>1, ReadKeeps DEF ReadFits
  <2>2. CASE ~user
    <3>1. r.fw = d.fw /\ r.data = SubSeq(d.msg, 1, want)
      BY <2>2
    <3>2. IsSeq(SubSeq(d.msg, 1, want)) /\ Len(SubSeq(d.msg, 1, want)) = IF want >= 1 THEN want - 1 + 1 ELSE 0
      BY <1>1, <1>3, <1>4, <2>2, SeqPart
    <3> DEFINE data == SubSeq(d.msg, 1, want)
    <3>3. Len(data) <= want
      BY <1>3, <3>2
    <3> HIDE DEF r, error, data
    <3>4. r.fw = d.fw /\ r.data = data /\ IsSeq(data)
      BY <3>1, <3>2 DEF data
    <3> QED
      BY <1>1, <3>3, <3>4
  <2>3. CASE error
    BY <1>1, <2>3
  <2>4. error \/ ~user \/ (user /\ ~error)
    <3> HIDE DEF error, user
    <3> QED
      OBVIOUS
  <2> HIDE DEF r, user, error
  <2> QED
    BY <2>1, <2>2, <2>3, <2>4
<1>8. IsSeq(rest) /\ (~user => Len(rest) = Len(d.msg) - want)
  <2>1. CASE user
    BY <1>1, <2>1
  <2>2. CASE ~user
    <3>1. want + 1 \in Nat /\ want + 1 >= 1 /\ Len(d.msg) <= Len(d.msg)
      BY <1>3, <1>4
    <3>2. /\ IsSeq(SubSeq(d.msg, want + 1, Len(d.msg)))
          /\ Len(SubSeq(d.msg, want + 1, Len(d.msg))) =
               IF Len(d.msg) >= want + 1 THEN Len(d.msg) - (want + 1) + 1 ELSE 0
      BY <1>1, <1>4, <3>1, SeqPart
    <3> QED
      BY <1>3, <1>4, <2>2, <3>2
  <2> QED
    BY <2>1, <2>2
<1>9. /\ TxOK(t) /\ (error => t = Stall)
      /\ ~error => t.pid = "DATA" /\ t.data = r.data
  <2>1. CASE error
    BY <2>1, EmptyBuffers
  <2>2. CASE ~error
    <3>1. t = [pid |-> "DATA", toggle |-> Flip(d.toggle), data |-> r.data]
      BY <2>2
    <3> HIDE DEF t
    <3>2. t = [pid |-> "DATA", toggle |-> t.toggle, data |-> t.data] /\ t.data = r.data /\ t.pid = "DATA"
      BY <3>1
    <3>3. Len(r.data) \in Nat
      BY <1>7, <2>2, SeqLen
    <3> HIDE DEF r
    <3> QED
      BY <1>3, <1>7, <2>2, <3>2, <3>3 DEF TxOK
  <2> QED
    BY <2>1, <2>2
<1>10. ~user => (d.userRW => want = 0)
  BY <1>3
<1> HIDE DEF r, t, rest
<1>11. ~error => Len(r.data) \in Nat
  BY <1>7, SeqLen
<1>12. CASE r.fw.pins.cpu = "hung"
  <2>1. /\ DOMAIN e = DevFields /\ e.fw = r.fw /\ e.rx = d.rx /\ e.tx = d.tx /\ e.msg = d.msg
        /\ e.msgLen = d.msgLen /\ (e.userRW <=> d.userRW)
    BY <1>1, <1>6, <1>12 DEF DevFields
  <2>2. DevOK(e) /\ Offered(e) = Offered(d)
    BY <1>1, <1>7, <2>1 DEF DevOK, Offered
  <2> QED
    BY <1>5, <1>2, <2>1, <2>2 DEF e
<1>13. CASE r.fw.pins.cpu # "hung"
  <2>1. /\ DOMAIN e = DevFields /\ e.fw = r.fw /\ e.rx = d.rx /\ e.tx = t /\ e.msg = rest
        /\ e.msgLen = (IF last THEN NoMsg ELSE d.msgLen - want) /\ (e.userRW <=> d.userRW)
    BY <1>1, <1>6, <1>13 DEF DevFields
  <2>2. e.msgLen \in Int /\ e.msgLen >= NoMsg
    BY <1>2, <1>3, <2>1 DEF NoMsg
  <2>3. ~e.userRW => e.msgLen <= Len(e.msg)
    <3>1. ~d.userRW => Len(rest) = Len(d.msg) - want /\ d.msgLen <= Len(d.msg)
      BY <1>1, <1>8
    <3>2. ~d.userRW => e.msgLen <= d.msgLen - want
      BY <1>2, <1>3, <2>1 DEF NoMsg
    <3> QED
      BY <1>2, <1>3, <1>4, <2>1, <2>2, <3>1, <3>2
  <2>4. DevOK(e)
    BY <1>1, <1>7, <1>8, <1>9, <2>1, <2>2, <2>3 DEF DevOK
  <2>5. Offered(e) <= d.msgLen
    <3>1. CASE error
      <4>1. e.msgLen = NoMsg /\ e.tx = Stall
        BY <1>9, <2>1, <3>1
      <4> QED
        BY <1>2, <4>1, EmptyBuffers DEF Offered, NoMsg
    <3>2. CASE ~error
      <4>1. e.tx.pid = "DATA" /\ Len(e.tx.data) <= want /\ Len(e.tx.data) \in Nat
        BY <1>7, <1>9, <1>11, <2>1, <3>2
      <4>2. e.msgLen <= d.msgLen - want
        BY <1>2, <1>3, <2>1 DEF NoMsg
      <4> QED
        BY <1>2, <1>3, <2>2, <4>1, <4>2 DEF Offered
    <3> QED
      BY <3>1, <3>2
  <2> QED
    BY <1>5, <2>1, <2>4, <2>5 DEF e
<1> QED
  BY <1>12, <1>13

(***************************************************************************)
(* The host.                                                               *)
(***************************************************************************)
\* A call is begun.
LEMMA BeginKeeps ==
  ASSUME IInv, NEW c, c # NoCall, Script(Transfers(c), Requests(mode.bus, c.op)),
         host.made < MaxJobs \/ ~IsJob(c), Begin(c)
  PROVE  HostOK(host') /\ host'.todo = Transfers(c) /\ host'.phase = "setup"
<1>1. HostOK(host) /\ host.call = NoCall
  BY DEF IInv, Begin
<1>2. /\ IsSeq(Transfers(c)) /\ Transfers(c) # <<>> /\ \A i \in DOMAIN Transfers(c) : Asks(Transfers(c)[i])
  BY DEF Script
<1>3. /\ DOMAIN host' = HostFields /\ host'.call = c /\ host'.todo = Transfers(c) /\ host'.phase = "setup"
      /\ host'.addr = host.addr /\ host'.sent = host.sent /\ host'.got = host.got
      /\ host'.toggle = host.toggle
      /\ host'.made = IF IsJob(c) THEN host.made + 1 ELSE host.made
  BY <1>1 DEF Begin, HostOK, HostFields
<1>4. host.phase = "setup" /\ host.made \in 0 .. MaxJobs /\ MaxJobs \in Nat
  BY <1>1, UsbAspAssumption DEF HostOK
<1>5. host'.made \in 0 .. MaxJobs
  BY <1>3, <1>4
<1>6. host'.sent = 0 /\ host'.got = <<>> /\ host'.toggle = 1 /\ host'.addr \in {Unplugged, 0, 1}
  BY <1>1, <1>3, <1>4 DEF HostOK
<1>7. Asks(Head(Transfers(c))) /\ Head(Transfers(c)).len \in Nat
  BY <1>2, SeqTail DEF Asks
<1> QED
  BY <1>2, <1>3, <1>5, <1>6, <1>7, SeqShort DEF HostOK

\* A transfer ends, and with it perhaps the call.
LEMMA EndsKeeps ==
  ASSUME NEW h, HostOK(h), h.todo # <<>>, port \in Ports, NEW result, NEW got, Ends(h, result, got)
  PROVE  HostOK(host') /\ host'.phase = "setup" /\ port' \in Ports
<1> DEFINE total == h.total + result
           g == [h EXCEPT !.total = total, !.replies = @ \o got, !.todo = Tail(@),
                          !.phase = "setup", !.sent = 0, !.got = <<>>, !.toggle = 1]
<1>1. /\ DOMAIN g = HostFields /\ g.todo = Tail(h.todo) /\ g.phase = "setup" /\ g.sent = 0
      /\ g.got = <<>> /\ g.toggle = 1 /\ g.addr = h.addr /\ g.made = h.made /\ g.call = h.call
  BY DEF HostOK, HostFields
<1>2. /\ h.addr \in {Unplugged, 0, 1} /\ h.made \in 0 .. MaxJobs /\ h.call # NoCall
      /\ IsSeq(h.todo) /\ \A i \in DOMAIN h.todo : Asks(h.todo[i])
  BY DEF HostOK
<1>3. IsSeq(Tail(h.todo)) /\ \A i \in DOMAIN Tail(h.todo) : Asks(Tail(h.todo)[i])
  <2>1. \A i \in DOMAIN Tail(h.todo) : i + 1 \in DOMAIN h.todo /\ Tail(h.todo)[i] = h.todo[i + 1]
    BY <1>2, SeqTail
  <2>2. IsSeq(Tail(h.todo))
    BY <1>2, SeqTail
  <2> QED
    BY <1>2, <2>1, <2>2, Zenon
<1>4. \/ /\ host' = g /\ g.todo # <<>>
         /\ port' \in {port, "broken"}
      \/ /\ \E c, good, entered : Settled(g, c, good, entered)
  BY Zenon DEF Ends
<1> HIDE DEF g
<1>5. CASE host' = g /\ g.todo # <<>> /\ port' \in {port, "broken"}
  <2> DEFINE t == Tail(h.todo)
  <2>1. IsSeq(t) /\ t # <<>> /\ \A i \in DOMAIN t : Asks(t[i])
    BY <1>1, <1>3, <1>5
  <2>2. /\ host'.todo = t /\ host'.call = h.call /\ DOMAIN host' = HostFields /\ host'.addr = h.addr
        /\ host'.phase = "setup" /\ host'.sent = 0 /\ host'.got = <<>> /\ host'.toggle = 1
        /\ host'.made = h.made
    BY <1>1, <1>5
  <2> HIDE DEF t
  <2>3. Head(t).len \in Nat
    BY <2>1, SeqTail DEF Asks
  <2>4. HostOK(host')
    BY <1>2, <2>1, <2>2, <2>3, SeqShort DEF HostOK
  <2> QED
    BY <1>5, <2>2, <2>4 DEF Ports
<1>6. ASSUME NEW c, NEW good, NEW entered, Settled(g, c, good, entered)
      PROVE  HostOK(host') /\ host'.phase = "setup" /\ port' \in Ports
  <2>1. /\ DOMAIN host' = HostFields /\ host'.todo = <<>> /\ host'.call = NoCall
        /\ host'.addr \in {g.addr, Unplugged} /\ host'.phase = g.phase /\ host'.sent = g.sent
        /\ host'.got = g.got /\ host'.toggle = g.toggle /\ host'.made = g.made
    BY <1>1, <1>6 DEF Settled, HostFields
  <2>2. HostOK(host')
    BY <1>1, <1>2, <2>1, SeqShort DEF HostOK
  <2>3. port' \in Ports
    BY <1>6 DEF Settled, Ports
  <2> QED
    BY <1>1, <2>1, <2>2, <2>3
<1> QED
  BY <1>4, <1>5, <1>6

(***************************************************************************)
(* The wire.                                                               *)
(***************************************************************************)
\* The device's interrupt takes a packet of the host.
LEMMA TakenFits ==
  ASSUME HostOK(host), DevOK(dev), Listens, Speaks
  PROVE  LET e == Taken(dev)
         IN  /\ DevOK(e) /\ Offered(e) = Offered(dev)
             /\ host.phase = "setup" => e.rx = [pid |-> "SETUP", data |-> Request]
             /\ host.phase = "data" => e.rx.pid = "OUT" /\ Chunk \in Nat
                                       /\ host.sent + Chunk <= Request.len
<1> DEFINE e == Taken(dev)
           data == [i \in 1 .. Chunk |-> Byte(host.call.id, host.total + host.sent + i)]
           r == IF host.phase = "setup" THEN [pid |-> "SETUP", data |-> Request]
                ELSE [pid |-> "OUT", data |-> data]
<1>1. Asks(Request) /\ Request.len \in Nat
  BY SeqTail DEF HostOK, Listens, Request, Asks
<1>2. host.sent \in Nat /\ host.sent <= Request.len /\ PacketSize \in Nat
  BY UsbAspAssumption DEF HostOK, Listens, Request
<1>3. Chunk \in Nat /\ host.sent + Chunk <= Request.len
  BY <1>1, <1>2 DEF Chunk, AtMost
<1>4. IsSeq(data)
  <2>1. data = [i \in 1 .. Chunk |-> data[i]]
    OBVIOUS
  <2> HIDE DEF data
  <2> QED
    BY <1>3, <2>1, SeqBuilt
<1>5. e = [dev EXCEPT !.rx = r]
  BY DEF Taken
<1> HIDE DEF data
<1>6. RxOK(r) /\ (host.phase = "data" => r.pid = "OUT")
  <2>1. CASE host.phase = "setup"
    <3>1. r = [pid |-> "SETUP", data |-> Request] /\ r.data = Request
      BY <2>1
    <3> QED
      BY <1>1, <2>1, <3>1 DEF RxOK
  <2>2. CASE host.phase # "setup"
    <3>1. r = [pid |-> "OUT", data |-> data] /\ r.data = data /\ r.pid = "OUT"
      BY <2>2
    <3> QED
      BY <1>4, <2>2, <3>1 DEF RxOK
  <2> QED
    BY <2>1, <2>2
<1>7. host.phase = "setup" => r = [pid |-> "SETUP", data |-> Request]
  OBVIOUS
<1> HIDE DEF e, r
<1>8. /\ DOMAIN e = DevFields /\ e.rx = r /\ e.tx = dev.tx /\ e.msgLen = dev.msgLen /\ e.msg = dev.msg
      /\ e.fw = dev.fw /\ (e.userRW <=> dev.userRW)
  BY <1>5 DEF DevOK, DevFields
<1>9. DevOK(e) /\ Offered(e) = Offered(dev)
  BY <1>6, <1>8 DEF DevOK, Offered
<1> QED
  BY <1>3, <1>6, <1>7, <1>8, <1>9 DEF e

\* It has sent its packet.
LEMMA SentFits ==
  ASSUME NEW d, DevOK(d)
  PROVE  LET e == Sent(d)
         IN  /\ DevOK(e) /\ e.rx = d.rx
             /\ Offered(e) = Offered(d) - (IF d.tx.pid = "DATA" THEN Len(d.tx.data) ELSE 0)
             /\ Offered(e) <= Offered(d)
<1> DEFINE e == Sent(d)
<1>1. /\ DOMAIN e = DevFields /\ e.rx = d.rx /\ e.tx = Nak /\ e.msgLen = d.msgLen /\ e.msg = d.msg
      /\ e.fw = d.fw /\ (e.userRW <=> d.userRW)
  BY DEF Sent, DevOK, DevFields
<1> HIDE DEF e
<1>2. DevOK(e)
  BY <1>1, EmptyBuffers DEF DevOK
<1>3. d.msgLen \in Int /\ (d.tx.pid = "DATA" => Len(d.tx.data) \in Nat)
  BY OfferedIs DEF DevOK
<1> QED
  BY <1>1, <1>2, <1>3, EmptyBuffers DEF Offered, e

\* usbPoll: what was received is served.
LEMMA PollRxFits ==
  ASSUME HostOK(host), DevOK(dev), Fetching(host, dev), PollRx
  PROVE  DevOK(dev') /\ Fetching(host, dev')
<1> DEFINE e == usbProcessRx(dev)
<1>1. dev' = Running(e) /\ dev.rx # Nothing /\ RxOK(dev.rx)
  BY DEF PollRx, RxPending, DevOK
<1> DEFINE Small == host.todo # <<>> /\ host.phase # "setup" => Len(host.got) + Offered(e) <= Head(host.todo).len
<1>2. Len(host.got) \in Nat /\ (host.todo # <<>> => Len(host.got) <= Head(host.todo).len /\ Head(host.todo).len \in Nat)
  BY SeqLen, SeqTail DEF HostOK, Asks
<1>3. DevOK(e) /\ e.rx.pid # "SETUP" /\ Small
  <2>1. CASE dev.rx.pid = "SETUP"
    <3> DEFINE rq == dev.rx.data
    <3>1. e = SetupReceived(dev, rq)
      BY <2>1 DEF usbProcessRx
    <3>2. Asks(rq)
      <4>1. dev.rx.pid # "OUT"
        BY <2>1
      <4> QED
        BY <1>1, <4>1 DEF RxOK
    <3> HIDE DEF e, rq
    <3>3. DevOK(e) /\ e.rx = Nothing /\ Offered(e) <= rq.len
      BY <3>1, <3>2, SetupServed
    <3>4. host.todo # <<>> /\ host.phase # "setup" => rq = Head(host.todo) /\ host.got = <<>>
      BY <2>1 DEF Fetching, rq
    <3>5. rq.len \in Nat /\ Offered(e) \in Nat
      BY <3>2, <3>3, OfferedIs DEF Asks
    <3> QED
      BY <3>3, <3>4, <3>5, SeqShort, EmptyBuffers
  <2>2. CASE dev.rx.pid # "SETUP"
    <3>1. e = OutReceived(dev, dev.rx.data)
      BY <2>2 DEF usbProcessRx
    <3> HIDE DEF e
    <3>2. DevOK(e) /\ e.rx \in {Nothing, dev.rx} /\ Offered(e) <= Offered(dev)
      BY <1>1, <2>2, <3>1, OutServed
    <3>3. Offered(e) \in Nat /\ Offered(dev) \in Nat
      BY <3>2, OfferedIs
    <3> QED
      BY <1>2, <2>2, <3>2, <3>3, EmptyBuffers DEF Fetching
  <2> QED
    BY <2>1, <2>2
<1> HIDE DEF e
<1>4. DevOK(Running(e)) /\ (Running(e) = e \/ (Running(e).rx = Nothing /\ Offered(Running(e)) = 0))
  BY <1>3, RunningFits
<1> QED
  BY <1>1, <1>2, <1>3, <1>4, EmptyBuffers DEF Fetching

\* usbPoll: the next packet.
LEMMA PollTxFits ==
  ASSUME HostOK(host), DevOK(dev), Fetching(host, dev), PollTx
  PROVE  DevOK(dev') /\ Fetching(host, dev')
<1> DEFINE e == usbBuildTxBlock(dev)
<1>1. dev' = Running(e) /\ dev.rx = Nothing /\ dev.tx \in {Nak, Stall} /\ dev.msgLen # NoMsg
  BY DEF PollTx, TxPending
<1>2. Len(host.got) \in Nat /\ (host.todo # <<>> => Len(host.got) <= Head(host.todo).len /\ Head(host.todo).len \in Nat)
  BY SeqLen, SeqTail DEF HostOK, Asks
<1>3. DevOK(e) /\ e.rx = dev.rx /\ Offered(e) <= Offered(dev)
  BY <1>1, BlockBuilt
<1> HIDE DEF e
<1>4. Offered(e) \in Nat /\ Offered(dev) \in Nat
  BY <1>3, OfferedIs
<1>5. DevOK(Running(e)) /\ (Running(e) = e \/ (Running(e).rx = Nothing /\ Offered(Running(e)) = 0))
  BY <1>3, RunningFits
<1> QED
  BY <1>1, <1>2, <1>3, <1>4, <1>5, EmptyBuffers DEF Fetching

-----------------------------------------------------------------------------
(***************************************************************************)
(* The invariant.                                                          *)
(***************************************************************************)
\* A host without a device, or that has just found one.
LEMMA QuietFits ==
  ASSUME mode \in Modes, HostOK(host)
  PROVE  /\ HostOK([Quiet EXCEPT !.made = host.made])
         /\ HostOK([Quiet EXCEPT !.addr = 0, !.call = [op |-> "Attach"], !.made = host.made,
                                 !.todo = Transfers([op |-> "Attach"])])
<1>0. host.made \in 0 .. MaxJobs
  BY DEF HostOK
<1>1. HostOK([Quiet EXCEPT !.made = host.made])
  <2> DEFINE h == [Quiet EXCEPT !.made = host.made]
  <2>1. /\ DOMAIN h = HostFields /\ h.todo = <<>> /\ h.call = NoCall /\ h.addr = Unplugged /\ h.phase = "setup"
        /\ h.sent = 0 /\ h.got = <<>> /\ h.toggle = 1 /\ h.made = host.made
    BY DEF Quiet, HostFields
  <2> HIDE DEF h
  <2>2. HostOK(h)
    BY <1>0, <2>1, SeqShort DEF HostOK
  <2> QED
    BY <2>2 DEF h
<1>2. HostOK([Quiet EXCEPT !.addr = 0, !.call = [op |-> "Attach"], !.made = host.made,
                           !.todo = Transfers([op |-> "Attach"])])
  <2> DEFINE c == [op |-> "Attach"]
             h == [Quiet EXCEPT !.addr = 0, !.call = c, !.made = host.made, !.todo = Transfers(c)]
  <2>1. Script(Transfers(c), Requests(mode.bus, "Attach"))
    BY SessionFits
  <2>2. c # NoCall
    BY DEF NoCall
  <2> HIDE DEF c
  <2>3. /\ DOMAIN h = HostFields /\ h.todo = Transfers(c) /\ h.call = c /\ h.addr = 0 /\ h.phase = "setup"
        /\ h.sent = 0 /\ h.got = <<>> /\ h.toggle = 1 /\ h.made = host.made
    BY DEF Quiet, HostFields
  <2> HIDE DEF h
  <2>4. Head(Transfers(c)).len \in Nat
    BY <2>1, SeqTail DEF Script, Asks
  <2>5. HostOK(h)
    BY <1>0, <2>1, <2>2, <2>3, <2>4, SeqShort DEF HostOK, Script
  <2> QED
    BY <2>5 DEF h, c
<1> QED
  BY <1>1, <1>2

\* It holds in the first state.
LEMMA InitFits == Init => IInv
<1> SUFFICES ASSUME Init PROVE IInv
  OBVIOUS
<1>1. HostOK(Quiet) /\ Quiet.phase = "setup"
  <2> DEFINE h == Quiet
  <2>1. /\ DOMAIN h = HostFields /\ h.todo = <<>> /\ h.call = NoCall /\ h.addr = Unplugged /\ h.phase = "setup"
        /\ h.sent = 0 /\ h.got = <<>> /\ h.toggle = 1 /\ h.made = 0
    BY DEF Quiet, HostFields
  <2>2. 0 \in 0 .. MaxJobs
    BY UsbAspAssumption
  <2> HIDE DEF h
  <2>3. HostOK(h)
    BY <2>1, <2>2, SeqShort DEF HostOK
  <2> QED
    BY <2>1, <2>3 DEF h
<1>2. DevOK(dev)
  BY PoweredFits DEF Init
<1>3. Fetching(host, dev)
  BY <1>1 DEF Init, Fetching
<1>4. faults \in 0 .. MaxFaults
  BY UsbAspAssumption DEF Init
<1> QED
  BY <1>1, <1>2, <1>3, <1>4 DEF Init, IInv, Ports

\* Every step keeps it.
LEMMA NextKeeps == IInv /\ [Next]_vars => IInv'
<1> SUFFICES ASSUME IInv, [Next]_vars PROVE IInv'
  OBVIOUS
<1>0. /\ mode \in Modes /\ port \in Ports /\ faults \in 0 .. MaxFaults /\ MaxFaults \in Nat
      /\ HostOK(host) /\ DevOK(dev) /\ Fetching(host, dev)
  BY UsbAspAssumption DEF IInv
<1>1. SUFFICES /\ mode' = mode /\ port' \in Ports /\ faults' \in 0 .. MaxFaults
               /\ HostOK(host') /\ DevOK(dev') /\ Fetching(host', dev')
  <2>1. HostOK(host)' <=> HostOK(host')
    BY DEF HostOK
  <2>2. DevOK(dev)' <=> DevOK(dev')
    BY DEF DevOK
  <2>3. Fetching(host, dev)' <=> Fetching(host', dev')
    BY DEF Fetching
  <2> QED
    BY <1>0, <2>1, <2>2, <2>3 DEF IInv
<1>2. ASSUME Fault PROVE faults' \in 0 .. MaxFaults
  BY <1>0, <1>2 DEF Fault
<1>3. CASE Attach
  <2>1. HostOK(host') /\ host'.phase = "setup"
    <3>1. host'.phase = "setup"
      BY <1>3 DEF Attach, Quiet
    <3> QED
      BY <1>0, <1>3, <3>1, QuietFits DEF Attach
  <2>2. DevOK(dev')
    <3>1. CASE dev' = dev
      BY <1>0, <3>1
    <3>2. CASE dev' = [dev EXCEPT !.addr = 0, !.newAddr = 0]
      <4>1. /\ DOMAIN dev' = DevFields /\ dev'.rx = dev.rx /\ dev'.tx = dev.tx /\ dev'.msgLen = dev.msgLen
            /\ dev'.msg = dev.msg /\ dev'.fw = dev.fw /\ (dev'.userRW <=> dev.userRW)
        BY <1>0, <3>2 DEF DevOK, DevFields
      <4> QED
        BY <1>0, <4>1 DEF DevOK
    <3> QED
      BY <1>3, <3>1, <3>2 DEF Attach
  <2> QED
    BY <1>0, <1>3, <2>1, <2>2 DEF Attach, Fetching, Ports
<1>4. CASE Open
  <2> DEFINE c == [op |-> "Open"]
  <2>1. Begin(c) /\ c.op = "Open" /\ c # NoCall
    BY <1>4 DEF Open, NoCall
  <2>2. Script(Transfers(c), Requests(mode.bus, c.op))
    BY <1>0, SessionFits
  <2> HIDE DEF c
  <2>3. ~IsJob(c)
    BY <2>1 DEF IsJob
  <2>4. HostOK(host') /\ host'.phase = "setup"
    BY <2>1, <2>2, <2>3, BeginKeeps
  <2> QED
    BY <1>0, <1>4, <2>4 DEF Open, Fetching
<1>5. CASE Close
  <2> DEFINE c == [op |-> "Close"]
  <2>1. Begin(c) /\ c.op = "Close" /\ c # NoCall
    BY <1>5 DEF Close, NoCall
  <2>2. Script(Transfers(c), Requests(mode.bus, c.op))
    BY <1>0, SessionFits
  <2> HIDE DEF c
  <2>3. ~IsJob(c)
    BY <2>1 DEF IsJob
  <2>4. HostOK(host') /\ host'.phase = "setup"
    BY <2>1, <2>2, <2>3, BeginKeeps
  <2> QED
    BY <1>0, <1>5, <2>4 DEF Close, Fetching, Ports
<1>6. ASSUME NEW j \in JobsOf(mode.bus), Make(j)
      PROVE  /\ mode' = mode /\ port' \in Ports /\ faults' \in 0 .. MaxFaults
             /\ HostOK(host') /\ DevOK(dev') /\ Fetching(host', dev')
  <2> DEFINE k == host.made + 1
             c == [j EXCEPT !.id = k]
  <2>1. k \in Nat
    BY <1>0 DEF HostOK
  <2>2. Begin(c) /\ host.made < MaxJobs
    BY <1>6 DEF Make
  <2> HIDE DEF k
  <2>3. c \in JobType(mode.bus)
    BY <1>0, <2>1, Numbered
  <2> HIDE DEF c
  <2>4. Script(Transfers(c), Requests(mode.bus, c.op)) /\ IsJob(c)
    BY <1>0, <2>3, JobFits
  <2>5. c # NoCall
    BY <2>4 DEF IsJob, NoCall
  <2>6. HostOK(host') /\ host'.phase = "setup"
    BY <2>2, <2>4, <2>5, BeginKeeps
  <2> QED
    BY <1>0, <1>6, <2>6 DEF Make, Fetching
<1>7. ASSUME host.todo # <<>>, NEW result, NEW got, Ends(host, result, got)
      PROVE  HostOK(host') /\ host'.phase = "setup" /\ port' \in Ports
  BY <1>0, <1>7, EndsKeeps
<1>8. Len(host.got) \in Nat
  BY <1>0, SeqLen DEF HostOK
<1>9. Offered(dev) \in Nat
  BY <1>0, OfferedIs
<1>10. CASE SendSetup
  <2>1. Listens /\ host.phase = "setup" /\ Speaks /\ dev' = Taken(dev)
    BY <1>10 DEF SendSetup, Speaks
  <2>2. DevOK(dev') /\ dev'.rx = [pid |-> "SETUP", data |-> Request]
    BY <1>0, <2>1, TakenFits
  <2>3. /\ DOMAIN host' = HostFields /\ host'.addr = host.addr /\ host'.phase \in {"data", "status"}
        /\ host'.made = host.made /\ host'.todo = host.todo /\ host'.call = host.call
        /\ host'.got = host.got /\ host'.sent = host.sent /\ host'.toggle = host.toggle
    BY <1>0, <1>10 DEF SendSetup, HostOK, HostFields
  <2>4. HostOK(host')
    BY <1>0, <2>1, <2>3 DEF HostOK, Listens
  <2>5. Fetching(host', dev')
    BY <1>0, <2>1, <2>2, <2>3 DEF HostOK, Fetching, Request
  <2> QED
    BY <1>0, <1>10, <2>2, <2>4, <2>5 DEF SendSetup
<1>11. CASE SendData
  <2>1. Listens /\ host.phase = "data" /\ Speaks /\ dev' = Taken(dev) /\ host.todo # <<>>
    BY <1>11 DEF SendData, Speaks, Listens
  <2>2. DevOK(dev') /\ Offered(dev') = Offered(dev) /\ dev'.rx.pid = "OUT" /\ Chunk \in Nat
        /\ host.sent + Chunk <= Request.len
    BY <1>0, <2>1, TakenFits
  <2>3. /\ DOMAIN host' = HostFields /\ host'.addr = host.addr /\ host'.phase \in {"data", "status"}
        /\ host'.made = host.made /\ host'.todo = host.todo /\ host'.call = host.call
        /\ host'.got = host.got /\ host'.sent = host.sent + Chunk /\ host'.toggle = host.toggle
    BY <1>0, <1>11 DEF SendData, HostOK, HostFields
  <2>4. HostOK(host')
    BY <1>0, <2>1, <2>2, <2>3 DEF HostOK, Request
  <2>5. dev.rx.pid # "SETUP"
    BY <2>1, EmptyBuffers DEF Listens
  <2>6. Fetching(host', dev')
    BY <1>0, <2>1, <2>2, <2>3, <2>5 DEF Fetching
  <2> QED
    BY <1>0, <1>11, <2>2, <2>4, <2>6 DEF SendData
<1>12. ASSUME Offers, dev' = Sent(dev)
       PROVE  /\ DevOK(dev') /\ dev'.rx.pid # "SETUP" /\ dev.rx.pid # "SETUP" /\ dev.tx.pid = "DATA"
              /\ Offered(dev') = Offered(dev) - Len(dev.tx.data) /\ Offered(dev') <= Offered(dev)
              /\ Offered(dev') \in Nat
              /\ host.todo # <<>> /\ host.phase # "setup"
  <2>1. DevOK(dev') /\ dev'.rx = dev.rx /\ dev.rx = Nothing
    BY <1>0, <1>12, SentFits DEF Offers, Listens
  <2>2. dev.tx.pid = "DATA"
    BY <1>0, <1>12, OfferedIs DEF Offers
  <2>3. Offered(dev') = Offered(dev) - Len(dev.tx.data) /\ Offered(dev') <= Offered(dev)
    BY <1>0, <1>12, <2>2, SentFits
  <2> QED
    BY <1>12, <2>1, <2>2, <2>3, EmptyBuffers, OfferedIs DEF Offers, Listens
<1>13. CASE ReceiveData
  <2>1. Offers /\ dev' = Sent(dev) /\ host.phase = "data"
    BY <1>13 DEF ReceiveData
  <2>0. /\ DevOK(dev') /\ dev'.rx.pid # "SETUP" /\ dev.rx.pid # "SETUP" /\ dev.tx.pid = "DATA"
        /\ Offered(dev') = Offered(dev) - Len(dev.tx.data) /\ Offered(dev') <= Offered(dev)
        /\ Offered(dev') \in Nat /\ host.todo # <<>>
    BY <1>12, <2>1
  <2>2. IsSeq(host.got) /\ IsSeq(dev.tx.data) /\ Len(dev.tx.data) \in Nat /\ Len(dev.tx.data) <= Offered(dev)
    BY <1>0, <2>0, OfferedIs DEF HostOK
  <2> DEFINE got == host.got \o dev.tx.data
  <2>3. IsSeq(got) /\ Len(got) = Len(host.got) + Len(dev.tx.data)
    BY <2>2, SeqConcat
  <2>4. Len(host.got) + Offered(dev) <= Head(host.todo).len /\ Head(host.todo).len \in Nat
    BY <1>0, <1>12, <2>1, SeqTail DEF Fetching, HostOK, Asks
  <2>5. \/ host' = host
        \/ \E p \in {"status", "data"} : host' = [host EXCEPT !.got = got, !.toggle = Flip(@), !.phase = p]
    BY <1>13, Zenon DEF ReceiveData
  <2>6. CASE host' = host
    <3> DEFINE g == Len(host.got)
               b == Offered(dev)
               z == Offered(dev')
               n == Head(host.todo).len
    <3>1. g + z <= n
      <4>1. g \in Nat /\ b \in Nat /\ z \in Nat /\ n \in Nat /\ z <= b /\ g + b <= n
        BY <1>8, <1>9, <2>0, <2>4
      <4> HIDE DEF g, b, z, n
      <4> QED
        BY <4>1
    <3>2. Fetching(host', dev')
      BY <2>0, <2>6, <3>1 DEF Fetching
    <3> QED
      BY <1>0, <1>13, <2>0, <2>6, <3>2 DEF ReceiveData
  <2>7. ASSUME NEW p \in {"status", "data"}, host' = [host EXCEPT !.got = got, !.toggle = Flip(@), !.phase = p]
        PROVE  HostOK(host') /\ Fetching(host', dev')
    <3> HIDE DEF got
    <3>1. /\ DOMAIN host' = HostFields /\ host'.addr = host.addr /\ host'.phase \in {"data", "status"}
          /\ host'.made = host.made /\ host'.todo = host.todo /\ host'.call = host.call
          /\ host'.got = got /\ host'.sent = host.sent
      BY <1>0, <2>7 DEF HostOK, HostFields
    <3>2. Len(got) <= Head(host.todo).len /\ Len(got) + Offered(dev') <= Head(host.todo).len
      <4> DEFINE n == Head(host.todo).len
      <4>1. n \in Nat /\ Len(host.got) + Offered(dev) <= n
        BY <2>4
      <4> DEFINE a == Len(host.got)
                 b == Offered(dev)
                 m == Len(dev.tx.data)
                 z == Offered(dev')
      <4>2. a \in Nat /\ b \in Nat /\ m \in Nat /\ m <= b /\ z = b - m /\ Len(got) = a + m
        BY <1>8, <1>9, <2>0, <2>2, <2>3
      <4> HIDE DEF n, a, b, m, z
      <4>3. a + b <= n
        BY <4>1 DEF a, b
      <4>4. Len(got) <= n /\ Len(got) + z <= n
        BY <4>1, <4>2, <4>3
      <4> QED
        BY <4>4 DEF n, z
    <3>3. HostOK(host')
      BY <1>0, <1>12, <2>1, <2>3, <3>1, <3>2 DEF HostOK
    <3>4. Fetching(host', dev')
      BY <1>12, <2>1, <3>1, <3>2 DEF Fetching
    <3> QED
      BY <3>3, <3>4
  <2> QED
    BY <1>0, <1>12, <1>13, <2>1, <2>5, <2>6, <2>7 DEF ReceiveData
<1>14. CASE StatusOut
  <2>1. host.todo # <<>> /\ Ends(host, Len(host.got), host.got)
    BY <1>14 DEF StatusOut, Listens
  <2>2. HostOK(host') /\ host'.phase = "setup" /\ port' \in Ports
    BY <1>7, <2>1
  <2> QED
    BY <1>0, <1>14, <2>2 DEF StatusOut, Fetching
<1>15. CASE StatusIn
  <2>1. Offers /\ dev' = Sent(dev) /\ host.phase = "status"
    BY <1>15 DEF StatusIn
  <2>2. CASE dev.tx.toggle # 1
    <3>1. host' = host /\ port' = port
      BY <1>15, <2>2 DEF StatusIn
    <3>2. Len(host.got) + Offered(dev) <= Head(host.todo).len /\ Head(host.todo).len \in Nat
      BY <1>0, <1>12, <2>1, SeqTail DEF Fetching, HostOK, Asks
    <3>3. Fetching(host', dev')
      BY <1>8, <1>9, <1>12, <2>1, <3>1, <3>2 DEF Fetching
    <3> QED
      BY <1>0, <1>12, <1>15, <2>1, <3>1, <3>3 DEF StatusIn
  <2>3. CASE dev.tx.toggle = 1
    <3> DEFINE h == IF Request.req = "SET_ADDRESS" THEN [host EXCEPT !.addr = Request.value] ELSE host
    <3>1. Ends(h, IF dev.tx.data = <<>> THEN Request.len ELSE -1, <<>>)
      BY <1>15, <2>3 DEF StatusIn
    <3>2. Asks(Request)
      BY <1>0, <1>12, <2>1, SeqTail DEF HostOK, Request
    <3>3. HostOK(h) /\ h.todo = host.todo
      <4>1. CASE h = host
        BY <1>0, <4>1
      <4>2. CASE h = [host EXCEPT !.addr = 1]
        <5> HIDE DEF h
        <5>1. /\ DOMAIN h = HostFields /\ h.addr = 1 /\ h.phase = host.phase
              /\ h.made = host.made /\ h.todo = host.todo /\ h.call = host.call
              /\ h.got = host.got /\ h.sent = host.sent /\ h.toggle = host.toggle
          BY <1>0, <4>2 DEF HostOK, HostFields
        <5> QED
          BY <1>0, <5>1 DEF HostOK
      <4> QED
        BY <3>2, <4>1, <4>2 DEF Asks
    <3> HIDE DEF h
    <3>4. HostOK(host') /\ host'.phase = "setup" /\ port' \in Ports
      BY <1>0, <1>12, <2>1, <3>1, <3>3, EndsKeeps
    <3> QED
      BY <1>0, <1>12, <1>15, <2>1, <3>4 DEF StatusIn, Fetching
  <2> QED
    BY <2>2, <2>3
<1>16. CASE Stalled
  <2>1. host.todo # <<>> /\ Ends(host, -1, <<>>)
    BY <1>16 DEF Stalled, Listens
  <2>2. HostOK(host') /\ host'.phase = "setup" /\ port' \in Ports
    BY <1>7, <2>1
  <2> QED
    BY <1>0, <1>16, <2>2 DEF Stalled, Fetching
<1>17. CASE PollRx
  BY <1>0, <1>17, PollRxFits DEF PollRx
<1>18. CASE PollTx
  BY <1>0, <1>18, PollTxFits DEF PollTx
<1>19. CASE LoseData
  <2>1. Offers /\ dev' = Sent(dev) /\ Fault /\ host' = host /\ port' = port /\ mode' = mode
    BY <1>19 DEF LoseData
  <2>2. Len(host.got) + Offered(dev) <= Head(host.todo).len /\ Head(host.todo).len \in Nat
    BY <1>0, <1>12, <2>1, SeqTail DEF Fetching, HostOK, Asks
  <2>3. Fetching(host', dev')
    BY <1>8, <1>9, <1>12, <2>1, <2>2 DEF Fetching
  <2> QED
    BY <1>0, <1>2, <1>12, <2>1, <2>3
<1>20. CASE LoseAck
  <2>1. /\ Listens /\ Speaks /\ dev' = Taken(dev) /\ Fault /\ host' = host /\ mode' = mode
        /\ port' \in {port, "broken"}
    BY <1>20 DEF LoseAck
  <2>2. DevOK(dev') /\ Offered(dev') = Offered(dev) /\ (host.phase = "data" => dev'.rx.pid = "OUT")
    BY <1>0, <2>1, TakenFits
  <2>3. dev.rx.pid # "SETUP"
    BY <2>1, EmptyBuffers DEF Listens
  <2>4. Fetching(host', dev')
    BY <1>0, <2>1, <2>2, <2>3 DEF Fetching, Speaks
  <2> QED
    BY <1>0, <1>2, <2>1, <2>2, <2>4 DEF Ports
<1>21. CASE GiveUp
  <2>1. host.todo # <<>> /\ Ends(host, -1, <<>>) /\ Fault /\ dev' = dev /\ mode' = mode
    BY <1>21 DEF GiveUp
  <2>2. HostOK(host') /\ host'.phase = "setup" /\ port' \in Ports
    BY <1>7, <2>1
  <2> QED
    BY <1>0, <1>2, <2>1, <2>2 DEF Fetching
<1>22. CASE Unplug
  <2>1. /\ host' = [Quiet EXCEPT !.made = host.made] /\ dev' = PoweredUp /\ port' = "broken"
        /\ mode' = mode /\ Fault
    BY <1>22 DEF Unplug
  <2>2. host'.phase = "setup"
    BY <2>1 DEF Quiet
  <2>3. HostOK(host')
    BY <1>0, <2>1, QuietFits
  <2> QED
    BY <1>2, <2>1, <2>2, <2>3, PoweredFits DEF Fetching, Ports
<1>23. CASE UNCHANGED vars
  BY <1>0, <1>23 DEF vars
<1> QED
  BY <1>3, <1>4, <1>5, <1>6, <1>10, <1>11, <1>13, <1>14, <1>15, <1>16, <1>17, <1>18, <1>19,
     <1>20, <1>21, <1>22, <1>23 DEF Next, Bus

\* The inductive invariant says what the type invariant does.
LEMMA TypeFollows == IInv => TypeOK
<1> SUFFICES ASSUME IInv PROVE TypeOK
  OBVIOUS
<1>1. HostOK(host) /\ DevOK(dev) /\ mode \in Modes /\ port \in Ports /\ faults \in 0 .. MaxFaults
  BY DEF IInv
<1>2. dev.rx.pid \in {"none", "SETUP", "OUT"}
  BY <1>1 DEF DevOK, RxOK, Nothing
<1>3. dev.tx.pid = "DATA" => Len(dev.tx.data) <= PacketSize
  BY <1>1, OfferedIs
<1>4. dev.msgLen >= NoMsg /\ dev.fw.nbytes >= 0
  BY <1>1 DEF DevOK, FwOK
<1> QED
  BY <1>1, <1>2, <1>3, <1>4 DEF TypeOK, HostOK, Ports, Request

(***************************************************************************)
(* Every variable has its type, whatever is lost: the driver never offers  *)
(* more than a packet, and the host never holds more than it asked for     *)
(* (usbBuildTxBlock, usbProcessRx).                                        *)
(***************************************************************************)
THEOREM UsbAspTypes == Spec => []TypeOK
<1>1. Init => IInv
  BY InitFits
<1>2. IInv /\ [Next]_vars => IInv'
  BY NextKeeps
<1>3. IInv => TypeOK
  BY TypeFollows
<1> QED
  BY <1>1, <1>2, <1>3, PTL DEF Spec
=============================================================================
