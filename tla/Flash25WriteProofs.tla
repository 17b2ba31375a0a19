------------------------- MODULE Flash25WriteProofs -------------------------
(***************************************************************************)
(* What is proved of Flash25 beyond its type invariant and its reads, for  *)
(* every part, buffer, page size and chunk size: a write stays inside its  *)
(* range, what "Done" means for a write and for a verify, that nothing is  *)
(* written after Cancel, and that the part's modes are undone.             *)
(***************************************************************************)
EXTENDS Flash25Proofs

-----------------------------------------------------------------------------
(***************************************************************************)
(* The inductive invariant, in parts.  Frontier: the end of what a write   *)
(* may have programmed so far.                                             *)
(***************************************************************************)
Entering == {"status", "en_wren", "en_op", "en_bank"}
Before  == Entering \cup {"wren", "program"}
Behind  == {"wait", "check", "advance"}
Leaving == {"ex_wren", "ex_op", "ex_bank", "wrdi", "report"}

Frontier ==
  IF pc \in Before THEN addr
  ELSE IF pc \in Behind THEN addr + ChunkLen(job, addr) ELSE End(job)

\* The loops run below the end of their range, and the pages of a write start
\* where its page size has them start.
Aligned(j, a) ==
  /\ j.type = "PAGE" => a = j.start \/ a % j.page = 0
  /\ j.type = "SSTW" => (a - j.start) % 2 = 0

LoopInv ==
  /\ (job.op = "write" /\ pc \in Before \cup Behind) \/ (job.op = "verify" /\ pc \in Fetching)
       => addr < End(job)
  /\ job.op = "write" /\ pc \in Before \cup Behind /\ Suited(job) => Aligned(job, addr)
  /\ pc \in Entering /\ job.op \in Looping => addr = job.start
  /\ pc = "wren" /\ job.op = "write" /\ job.type # "PAGE" => addr = job.start
  /\ pc \in {"en_wren", "en_op", "en_bank", "ex_wren", "ex_op", "ex_bank"} => Wide(job)
  /\ pc \notin Leaving \cup {"close", "idle"} => verdict = "none"

\* Only a write and an erase change the part, and a write only what lies below
\* its frontier.
RangeInv ==
  /\ job.op \notin {"write", "erase"} => chip.mem = before
  /\ job.op = "write" /\ Trusted /\ Suited(job) =>
       \A b \in Addr : b < job.start \/ b >= Frontier => chip.mem[b] = before[b]

\* The address of a running AAI sequence lies in the range, and no other
\* operation than an SST write has one.
AaiInv ==
  clean =>
    /\ job.op # "write" \/ job.type = "PAGE" \/ pc \in Entering => chip.aai = NoAAI
    /\ job.op = "write" /\ Suited(job) /\ pc \in Before \cup Behind /\ chip.aai # NoAAI =>
         chip.aai \in job.start .. Frontier \/ (chip.aai = 0 /\ Frontier = MemSize)

\* While the link is up the part decodes as many address bytes as the loop sends.
ModeInv ==
  (Trusted /\ link = "up" /\ job.op \in Looping) =>
    /\ pc = "status" /\ ~Wide(job) => ~chip.four
    /\ pc = "en_bank" /\ chip.latch = "opcode" => chip.four
    /\ pc \in {"wren", "program", "wait", "check", "advance", "read"} =>
         InStep(chip, Width(job))

\* The part is idle wherever the loops do not wait for it.
RestInv ==
  clean =>
    /\ pc \in Entering => ~chip.busy
    /\ /\ job.op = "write" => ~job.ignore
       /\ pc \in {"wren", "program", "check", "read", "advance", "erase", "unprotect"}
       => ~chip.busy

\* The byte count of a write never runs ahead of its address.
CountInv ==
  /\ job.op = "write" /\ Suited(job) /\ pc \in Before \cup Behind =>
       job.start + count <= Frontier
  /\ job.op = "verify" /\ pc \in {"en_wren", "en_op", "en_bank", "read"} =>
       job.start + count = addr
  /\ job.op = "verify" /\ pc = "advance" => job.start + count = addr + ChunkLen(job, addr)
  /\ job.op \in {"write", "verify"} /\ verdict = "done" =>
        count = job.size /\ pc \in {"close", "idle"}

\* No frame was lost, so the part has understood all of them.
ArmedInv ==
  (job.op = "write" /\ sticky /\ clean /\ Suited(job) /\ ~job.ignore /\ ~warned /\ link = "up"
     /\ pc \in (Before \cup Behind) \ {"status"}) =>
    /\ ~chip.locked
    /\ pc = "program" /\ (job.type = "PAGE" \/ addr = job.start) => chip.wel
    /\ job.type # "PAGE" =>
         /\ pc = "wren" \/ (pc = "program" /\ addr = job.start) => chip.aai = NoAAI
         /\ pc = "program" /\ addr # job.start => chip.aai = addr
         /\ pc \in Behind => chip.aai = Frontier % MemSize

\* As long as nothing is missing from the count, everything below the frontier
\* is programmed.
ExactInv ==
  (job.op = "write" /\ sticky /\ clean /\ Suited(job) /\ ~job.ignore /\ ~warned
     /\ verdict # "refused" /\ job.start + count = Frontier) =>
    \A b \in job.start .. Frontier - 1 :
      chip.mem[b] = Least(before[b], job.data[b - job.start + 1])

\* Up to where the loop has compared the part with the buffer.
Compared ==
  IF pc \in Before \cup {"wait", "check", "read"} THEN addr
  ELSE IF pc = "advance" THEN addr + ChunkLen(job, addr) ELSE End(job)

Comparing ==
  \/ job.op = "write" /\ Suited(job) /\ job.type = "PAGE" /\ job.check /\ ~job.ignore
  \/ job.op = "verify"

ComparedInv ==
  (Trusted /\ Comparing /\ verdict \notin {"refused", "aborted"}
     /\ (pc \in Leaving \cup {"close", "idle"} => count = job.size)) =>
    \A b \in job.start .. Compared - 1 : chip.mem[b] = job.data[b - job.start + 1]

\* On the way out the part is idle, and the modes are undone one by one.
Orderly ==
  /\ link = "up" /\ sticky /\ clean /\ Suited(job) /\ ~job.ignore
  /\ ~(cancel /\ verdict = "aborted") /\ verdict # "refused"

RestoredInv ==
  Orderly =>
    /\ pc \in Leaving \cup {"show", "close"} => ~chip.busy
    /\ pc = "ex_bank" /\ chip.latch = "opcode" => ~chip.four
    /\ pc \in {"status", "wren", "erase", "unprotect", "wait", "show"} /\ job.op \notin Looping => ~chip.four
    /\ pc \in {"wrdi", "report", "close"} => ~chip.four
    /\ pc \in {"report", "close"} => chip.aai = NoAAI /\ (job.op = "write" => ~chip.wel)

\* Cancel takes the handler out of its loop at once.
CancelInv ==
  cancel => \/ pc \in Leaving \cup {"close", "idle"}
            \/ job.op = "verify"

WInv ==
  /\ LoopInv /\ RangeInv /\ AaiInv /\ ModeInv /\ RestInv /\ CountInv
  /\ ArmedInv /\ ExactInv /\ ComparedInv /\ RestoredInv /\ CancelInv

-----------------------------------------------------------------------------
(***************************************************************************)
(* Pages.                                                                  *)
(***************************************************************************)
\* A remainder is the one number below the modulus that differs from a by a
\* multiple of it.
LEMMA RemainderIs ==
  ASSUME NEW a \in Int, NEW n \in Nat \ {0}, NEW q \in Int, NEW r \in 0 .. n - 1,
         a = q * n + r
  PROVE  a % n = r
  OBVIOUS

\* A number is a multiple of the modulus and its remainder.
LEMMA Division ==
  ASSUME NEW a \in Nat, NEW n \in Nat \ {0}
  PROVE  \E q \in Nat : a = q * n + (a % n)
<1>1. a \div n \in Nat /\ a = (a \div n) * n + (a % n)
  OBVIOUS
<1> QED
  BY <1>1

\* The next multiple of a number.
LEMMA NextMultiple ==
  ASSUME NEW a \in Nat, NEW n \in Nat \ {0}
  PROVE  (a + (n - (a % n))) % n = 0
  OBVIOUS

\* Up to the next multiple of a divisor of a page, the page is not left.
LEMMA PageNotLeft ==
  ASSUME NEW P \in Nat \ {0}, NEW n \in Nat \ {0}, P % n = 0,
         NEW a \in Nat
  PROVE  (a % P) + (n - (a % n)) <= P
<1> DEFINE r == a % P
<1>1. PICK k \in Nat : P = k * n
  <2>1. PICK k \in Nat : P = k * n + (P % n)
    BY Division
  <2> QED
    BY <2>1
<1>2. PICK u \in Nat : a = u * P + r
  BY Division
<1>3. r \in 0 .. P - 1 /\ r \in Nat
  BY Remainder
<1> HIDE DEF r
<1>4. PICK q \in Nat : r = q * n + (r % n)
  BY <1>3, Division
<1>5. r % n \in 0 .. n - 1
  BY <1>3, Remainder
<1>6. a % n = r % n
  <2>1. a = (u * k + q) * n + (r % n)
    <3>1. u * P = (u * k) * n
      BY <1>1
    <3>2. (u * k) * n + q * n = (u * k + q) * n
      OBVIOUS
    <3>3. \A x, y, z, w, v \in Int : v = x + w /\ w = y + z => v = x + y + z
      OBVIOUS
    <3>4. u * P \in Int /\ q * n \in Int /\ r % n \in Int
      BY <1>5
    <3>5. a = u * P + q * n + (r % n)
      BY <1>2, <1>3, <1>4, <3>3, <3>4
    <3> QED
      BY <3>1, <3>2, <3>4, <3>5
  <2> QED
    BY <1>5, <2>1, RemainderIs
<1>7. q + 1 <= k
  <2>1. SUFFICES ASSUME q >= k PROVE FALSE
    OBVIOUS
  <2>2. q * n >= k * n
    BY <2>1
  <2> QED
    BY <1>1, <1>3, <1>4, <1>5, <2>2
<1>8. (q + 1) * n <= k * n
  BY <1>7
<1> QED
  BY <1>1, <1>3, <1>4, <1>5, <1>6, <1>8 DEF r

\* Two even numbers differ by two at least.
LEMMA EvenGap ==
  ASSUME NEW m \in Nat, NEW n \in Nat, m < n, m % 2 = 0, n % 2 = 0
  PROVE  n - m >= 2
<1>1. PICK u \in Nat : m = u * 2 + (m % 2)
  BY Division
<1>2. PICK v \in Nat : n = v * 2 + (n % 2)
  BY Division
<1> QED
  BY <1>1, <1>2

\* The settings of a write that suits the part, for the steps that need numbers.
LEMMA WriteNumbers ==
  ASSUME NEW j \in JobType, j.op = "write", ~Refused(j), NEW a \in j.start .. End(j) - 1
  PROVE  /\ j.start \in Nat /\ a \in Nat /\ a < End(j)
         /\ End(j) = j.start + j.size /\ End(j) \in j.start + 1 .. MemSize
         /\ j.size \in Nat /\ Len(j.data) = j.size /\ j.page \in Nat \ {0}
         /\ ChunkLen(j, a) \in 1 .. End(j) - a /\ ChunkLen(j, a) <= j.page
         /\ ChunkLen(j, a) = PageLen(j, a)
         /\ Len(Part(j, a)) = ChunkLen(j, a) /\ Part(j, a) \in Seq(Byte)
<1>1. /\ j.start \in Nat /\ j.size \in Nat /\ j.page \in Nat \ {0}
      /\ Len(j.data) = j.size
      /\ End(j) = j.start + j.size /\ End(j) \in j.start + 1 .. MemSize
  BY JobFields, RangeFits, ChipAssumption DEF Looping, End
<1>2. a \in j.start .. End(j) /\ a < End(j) /\ a \in Nat
  BY <1>1
<1>3. ChunkLen(j, a) \in 0 .. End(j) - a /\ ChunkLen(j, a) > 0
  BY <1>2, ChunkFits
<1>4. ChunkLen(j, a) = PageLen(j, a)
  BY DEF ChunkLen
<1>5. PageLen(j, a) <= j.page
  <2>1. j.start % j.page \in 0 .. j.page - 1
    BY <1>1, Remainder
  <2>2. FirstPage(j) \in Int /\ FirstPage(j) <= j.page
    BY <1>1, <2>1 DEF FirstPage
  <2>3. \A m, n \in Int : Least(m, n) <= m
    BY DEF Least
  <2>4. /\ End(j) - a \in Int /\ j.page \in Int
        /\ (IF a = j.start /\ j.page > 2 THEN FirstPage(j) ELSE j.page) \in Int
        /\ (IF a = j.start /\ j.page > 2 THEN FirstPage(j) ELSE j.page) <= j.page
    BY <1>1, <1>2, <2>2
  <2>5. PageLen(j, a) <= (IF a = j.start /\ j.page > 2 THEN FirstPage(j) ELSE j.page)
    BY <2>3, <2>4 DEF PageLen
  <2>6. PageLen(j, a) \in Int
    BY <1>2, <1>3, <1>4
  <2> QED
    BY <2>4, <2>5, <2>6
<1>6. Len(Part(j, a)) = ChunkLen(j, a) /\ Part(j, a) \in Seq(Byte)
  BY <1>2, PartFits
<1> QED
  BY <1>1, <1>2, <1>3, <1>4, <1>5, <1>6

\* No chunk of a write that suits the part reaches past the page of its size that
\* it starts in.
LEMMA ChunkInPage ==
  ASSUME NEW j \in JobType, j.op = "write", j.type = "PAGE", ~Refused(j), Suited(j),
         NEW a \in j.start .. End(j) - 1, Aligned(j, a)
  PROVE  ChunkLen(j, a) <= j.page - (a % j.page)
<1>1. /\ a \in Nat /\ j.start \in Nat /\ j.page \in Nat \ {0}
      /\ ChunkLen(j, a) = PageLen(j, a) /\ PageLen(j, a) <= j.page
  BY WriteNumbers
<1>2. CASE a % j.page = 0
  BY <1>1, <1>2
<1>3. CASE a % j.page # 0
  <2>1. a = j.start
    BY <1>3 DEF Aligned
  <2>2. j.page > 2
    <3>1. CASE j.page = 1
      BY <1>1, <1>3, <3>1
    <3>2. CASE j.page = 2
      BY <1>3, <2>1, <3>2 DEF Suited
    <3> QED
      BY <1>1, <3>1, <3>2
  <2>3. j.start % j.page \in 0 .. j.page - 1
    BY <1>1, Remainder
  <2> QED
    BY <1>1, <2>1, <2>2, <2>3, JobFields DEF PageLen, Least, FirstPage
<1> QED
  BY <1>2, <1>3

\* So the part does not roll over.
LEMMA PageIsRange ==
  ASSUME NEW j \in JobType, j.op = "write", j.type = "PAGE", ~Refused(j), Suited(j),
         NEW a \in j.start .. End(j) - 1, Aligned(j, a)
  PROVE  \A i \in 1 .. ChunkLen(j, a) : PageSlots(a, ChunkLen(j, a))[i] = a + i - 1
<1> DEFINE P == ChipPage
           r == a % ChipPage
<1>1. /\ a \in Nat /\ j.page \in Nat \ {0} /\ ChunkLen(j, a) \in Nat
      /\ P \in Nat \ {0} /\ P % j.page = 0
  BY WriteNumbers, ChipAssumption DEF Suited
<1>2. r + (j.page - (a % j.page)) <= P
  BY <1>1, PageNotLeft
<1>3. r \in 0 .. P - 1 /\ a % j.page \in 0 .. j.page - 1
  BY <1>1, Remainder
<1>4. r + ChunkLen(j, a) <= P
  BY <1>1, <1>2, <1>3, ChunkInPage
<1>5. PICK q \in Nat : a = q * P + r
  BY <1>1, Division
<1>6. SUFFICES ASSUME NEW i \in 1 .. ChunkLen(j, a)
               PROVE  (a - r) + ((a + i - 1) % P) = a + i - 1
  BY DEF PageSlots
<1> DEFINE x == a + i - 1
           y == r + i - 1
<1>7. x % P = y
  <2>1. y \in 0 .. P - 1
    BY <1>1, <1>3, <1>4
  <2>2. x = q * P + y /\ x \in Int
    <3>1. q * P \in Int
      BY <1>1
    <3> QED
      BY <1>1, <1>3, <1>5, <3>1
  <2> HIDE DEF x, y, P
  <2> QED
    BY <1>1, <2>1, <2>2, RemainderIs
<1>8. (a - r) + y = x /\ x \in Int /\ r \in Int /\ y \in Int
  BY <1>1, <1>3
<1> HIDE DEF r, y
<1> QED
  BY <1>1, <1>7, <1>8

\* The page after a whole one begins where the page size has pages begin.
LEMMA NextIsAligned ==
  ASSUME NEW j \in JobType, j.op = "write", ~Refused(j), Suited(j),
         NEW a \in j.start .. End(j) - 1, Aligned(j, a),
         a + ChunkLen(j, a) < End(j)
  PROVE  Aligned(j, a + ChunkLen(j, a))
<1>1. /\ a \in Nat /\ j.start \in Nat /\ j.page \in Nat \ {0} /\ End(j) \in Nat
      /\ ChunkLen(j, a) = PageLen(j, a) /\ ChunkLen(j, a) \in Nat
  BY WriteNumbers
<1>2. j.start % j.page \in 0 .. j.page - 1
  BY <1>1, Remainder
<1>3. ChunkLen(j, a) = IF a = j.start /\ j.page > 2 THEN FirstPage(j) ELSE j.page
  BY <1>1, <1>2 DEF PageLen, Least, FirstPage
<1>4. CASE j.type = "PAGE"
  <2>1. CASE a = j.start /\ j.page > 2
    <3>1. ChunkLen(j, a) = j.page - (a % j.page)
      BY <1>3, <2>1 DEF FirstPage
    <3>2. (a + (j.page - (a % j.page))) % j.page = 0
      BY <1>1, NextMultiple, Zenon
    <3>3. (a + ChunkLen(j, a)) % j.page = 0
      BY <3>1, <3>2, Zenon
    <3> QED
      BY <1>4, <3>3 DEF Aligned
  <2>2. CASE ~(a = j.start /\ j.page > 2)
    <3>1. a % j.page = 0
      <4>1. CASE j.page = 1
        BY <1>1, <4>1
      <4>2. CASE j.page = 2
        BY <1>4, <4>2 DEF Suited, Aligned
      <4>3. CASE j.page > 2
        BY <1>4, <2>2, <4>3 DEF Aligned
      <4>4. j.page = 1 \/ j.page = 2 \/ j.page > 2
        BY <1>1
      <4> QED
        BY <4>1, <4>2, <4>3, <4>4
    <3>2. ChunkLen(j, a) = j.page - (a % j.page)
      BY <1>1, <1>3, <2>2, <3>1
    <3>3. (a + (j.page - (a % j.page))) % j.page = 0
      BY <1>1, NextMultiple, Zenon
    <3>4. (a + ChunkLen(j, a)) % j.page = 0
      BY <3>2, <3>3, Zenon
    <3> QED
      BY <1>4, <3>4 DEF Aligned
  <2> QED
    BY <2>1, <2>2
<1>5. CASE j.type = "SSTW"
  <2>1. ChunkLen(j, a) = 2 /\ (a - j.start) % 2 = 0
    BY <1>3, <1>5 DEF JobType, Aligned
  <2>2. ((a + 2) - j.start) % 2 = 0
    BY <1>1, <2>1
  <2> QED
    BY <1>5, <2>1, <2>2 DEF Aligned
<1>6. CASE j.type = "SSTB"
  BY <1>6 DEF Aligned
<1> QED
  BY <1>4, <1>5, <1>6, JobFields

\* A write that suits the part sends no stale byte.
LEMMA SentIsPart ==
  ASSUME NEW j \in JobType, j.op = "write", ~Refused(j), Suited(j),
         NEW a \in j.start .. End(j) - 1, Aligned(j, a)
  PROVE  Sent(j, a) = Part(j, a) /\ Len(Sent(j, a)) = ChunkLen(j, a)
<1>1. /\ a \in Nat /\ j.start \in Nat /\ j.page \in Nat \ {0} /\ j.size \in Nat
      /\ End(j) = j.start + j.size
      /\ ChunkLen(j, a) = PageLen(j, a) /\ Len(Part(j, a)) = ChunkLen(j, a)
  BY WriteNumbers
<1>2. CASE j.type = "SSTW"
  <2>1. j.page = 2 /\ j.size % 2 = 0 /\ (a - j.start) % 2 = 0
    BY <1>2 DEF JobType, Suited, Aligned
  <2>2. End(j) - a >= 2
    <3>1. a - j.start \in Nat /\ a - j.start < j.size
      BY <1>1
    <3>2. j.size - (a - j.start) >= 2
      BY <1>1, <2>1, <3>1, EvenGap
    <3> QED
      BY <1>1, <3>2
  <2>3. Len(Part(j, a)) = 2
    BY <1>1, <2>1, <2>2 DEF PageLen, Least
  <2> QED
    BY <1>1, <2>3 DEF Sent
<1>3. CASE j.type # "SSTW"
  BY <1>1, <1>3 DEF Sent
<1> QED
  BY <1>2, <1>3

\* A chunk holds the bytes of the buffer that belong at its addresses.
LEMMA PartIs ==
  ASSUME NEW j \in JobType, j.op \in {"write", "verify"},
         NEW a \in j.start .. End(j), NEW i \in 1 .. ChunkLen(j, a)
  PROVE  Part(j, a)[i] = j.data[(a - j.start) + i]
<1> DEFINE m == (a - j.start) + 1
           n == (a - j.start) + ChunkLen(j, a)
<1>1. /\ End(j) = j.start + Len(j.data)
      /\ Len(j.data) \in Nat /\ j.start \in Nat /\ a \in Nat
      /\ j.start <= a /\ ChunkLen(j, a) \in 0 .. End(j) - a /\ j.data \in Seq(Byte)
  BY ChunkFits, JobFields DEF End
<1>2. m \in Int /\ n \in Int /\ m <= n /\ m .. n \subseteq 1 .. Len(j.data)
  <2>1. m \in Int /\ n \in Int /\ m <= n /\ 1 <= m /\ n <= Len(j.data)
    BY <1>1
  <2> HIDE DEF m, n
  <2> QED
    BY <1>1, <2>1
<1>3. \A k \in m .. n : j.data[k] \in Byte
  <2>1. \A k \in 1 .. Len(j.data) : j.data[k] \in Byte
    BY <1>1, ElementOfSeq
  <2> HIDE DEF m, n
  <2> QED
    BY <1>2, <2>1
<1>4. i \in 1 .. (n - m) + 1 /\ m + i - 1 = (a - j.start) + i
  BY <1>1
<1>5. Part(j, a) = SubSeq(j.data, m, n)
  BY DEF Part
<1> HIDE DEF m, n
<1>6. \A k \in 1 .. (n - m) + 1 : SubSeq(j.data, m, n)[k] = j.data[m + k - 1]
  BY <1>2, <1>3, SubSeqProperties
<1> QED
  BY <1>4, <1>5, <1>6

\* Programming a run of bytes inside the part changes those bytes and no other.
LEMMA BurnRun ==
  ASSUME NEW mem \in [Addr -> Byte], NEW d \in Seq(Byte), NEW a \in Nat,
         a + Len(d) <= MemSize,
         NEW slots, \A i \in 1 .. Len(d) : slots[i] = a + i - 1,
         NEW b \in Addr
  PROVE  /\ b < a \/ b >= a + Len(d) => Burn(mem, slots, d)[b] = mem[b]
         /\ b >= a /\ b < a + Len(d) => Burn(mem, slots, d)[b] = Least(mem[b], d[b - a + 1])
<1>1. Burn(mem, slots, d)[b] = IF \E i \in 1 .. Len(d) : slots[i] = b /\ d[i] = 0
                                 THEN 0 ELSE mem[b]
  BY LenProperties DEF Burn
<1>2. b \in Nat /\ Len(d) \in Nat /\ mem[b] \in {0, 1}
  BY ChipAssumption DEF Addr, Byte
<1>3. \A i \in 1 .. Len(d) : slots[i] = b => i = b - a + 1
  BY <1>2
<1>4. CASE b < a \/ b >= a + Len(d)
  BY <1>1, <1>2, <1>3, <1>4
<1>5. CASE b >= a /\ b < a + Len(d)
  <2>1. b - a + 1 \in 1 .. Len(d) /\ slots[b - a + 1] = b
    BY <1>2, <1>5
  <2>2. d[b - a + 1] \in {0, 1}
    BY <2>1, ElementOfSeq DEF Byte
  <2>3. Burn(mem, slots, d)[b] = IF d[b - a + 1] = 0 THEN 0 ELSE mem[b]
    BY <1>1, <1>3, <2>1
  <2> QED
    BY <1>2, <1>5, <2>2, <2>3 DEF Least
<1> QED
  BY <1>2, <1>4, <1>5

-----------------------------------------------------------------------------
(***************************************************************************)
(* What the frames do to the part.                                         *)
(***************************************************************************)
\* The frames that set a mode leave the contents and the protection alone.
LEMMA ModesKeepContents ==
  ASSUME NEW c \in Chips, NEW by, NEW on \in BOOLEAN,
         NEW d \in WriteEnable(c) \cup WriteDisable(c) \cup SetFour(c, by, on)
                     \cup Unprotect(c)
  PROVE  d.mem = c.mem /\ d.latch = c.latch
  BY DEF WriteEnable, WriteDisable, SetFour, Unprotect, Chips

\* A program frame burns a run of bytes or does nothing.  In step with the loop a
\* page lands where it belongs; an AAI frame that carries no address lands behind
\* the last one the part has taken.
LEMMA ProgramRuns ==
  ASSUME NEW j \in JobType, j.op = "write", ~Refused(j), Suited(j),
         NEW a \in j.start .. End(j) - 1, Aligned(j, a), chip \in Chips,
         j.type = "PAGE" => InStep(chip, Width(j)),
         j.type # "PAGE" /\ chip.aai # NoAAI => chip.aai \in j.start .. a,
         NEW d \in ProgramEffect(j, a)
  PROVE  \/ d = chip
         \/ \E x \in j.start .. a :
              /\ j.type = "PAGE" \/ a = j.start => x = a
              /\ j.type # "PAGE" /\ a # j.start => chip.aai = x
              /\ \E slots : /\ \A i \in 1 .. ChunkLen(j, a) : slots[i] = x + i - 1
                            /\ d.mem = Burn(chip.mem, slots, Part(j, a))
              /\ d.busy /\ d.four = chip.four /\ d.locked = chip.locked
              /\ d.latch = chip.latch
              /\ d.aai = IF j.type = "PAGE" THEN chip.aai
                         ELSE (x + ChunkLen(j, a)) % MemSize
<1>1. /\ a \in Nat /\ j.start \in Nat /\ a < End(j) /\ End(j) \in 1 .. MemSize
      /\ ChunkLen(j, a) \in 1 .. End(j) - a
      /\ Len(Part(j, a)) = ChunkLen(j, a) /\ a \in j.start .. a
  BY WriteNumbers
<1>2. Sent(j, a) = Part(j, a)
  BY SentIsPart
<1>3. Wire(Width(j), a) = a
  BY <1>1, WireIsAddress
<1>4. CASE j.type = "PAGE"
  <2>1. d \in ProgramPage(chip, Width(j), a, Part(j, a))
    BY <1>4 DEF ProgramEffect
  <2>2. Decoded(chip, Width(j), a, Part(j, a)) = {[at |-> a, data |-> Part(j, a)]}
    BY <1>3, <1>4 DEF Decoded
  <2>3. CASE Writable(chip)
    <3>a. PICK f \in Decoded(chip, Width(j), a, Part(j, a)) :
            d = [chip EXCEPT !.mem = Burn(chip.mem, PageSlots(f.at, Len(f.data)), f.data),
                             !.busy = TRUE, !.wel = FALSE]
      BY <2>1, <2>3 DEF ProgramPage
    <3>b. f.at = a /\ f.data = Part(j, a)
      BY <2>2
    <3>1. d = [chip EXCEPT !.mem = Burn(chip.mem, PageSlots(a, ChunkLen(j, a)), Part(j, a)),
                           !.busy = TRUE, !.wel = FALSE]
      BY <1>1, <3>a, <3>b
    <3>2. \A i \in 1 .. ChunkLen(j, a) : PageSlots(a, ChunkLen(j, a))[i] = a + i - 1
      BY <1>4, PageIsRange
    <3> QED
      BY <1>1, <1>4, <3>1, <3>2 DEF Chips
  <2> QED
    BY <2>1, <2>3 DEF ProgramPage
<1>5. CASE j.type # "PAGE"
  <2>1. ASSUME NEW x \in j.start .. a, d = Increment(chip, x, Part(j, a))
        PROVE  /\ \A i \in 1 .. ChunkLen(j, a) : Run(x, ChunkLen(j, a))[i] = x + i - 1
               /\ d.mem = Burn(chip.mem, Run(x, ChunkLen(j, a)), Part(j, a))
               /\ d.busy /\ d.four = chip.four /\ d.locked = chip.locked
               /\ d.latch = chip.latch
               /\ d.aai = (x + ChunkLen(j, a)) % MemSize
    <3>1. x \in Nat /\ x + ChunkLen(j, a) <= MemSize /\ ChunkLen(j, a) \in Nat
      BY <1>1, ChipAssumption
    <3> QED
      BY <1>1, <2>1, <3>1, RunIsRange DEF Increment, Chips
  <2>2. CASE a = j.start
    <3>1. Wire(3, a) = a
      BY <1>3, <1>5 DEF Suited, Width
    <3>2. d = chip \/ d = Increment(chip, a, Part(j, a))
      BY <1>5, <2>2, <3>1 DEF ProgramEffect, ProgramFirst
    <3> QED
      BY <1>1, <1>5, <2>1, <2>2, <3>2
  <2>3. CASE a # j.start
    <3>1. d = chip \/ (chip.aai # NoAAI /\ d = Increment(chip, chip.aai, Part(j, a)))
      BY <1>2, <1>5, <2>3 DEF ProgramEffect, ProgramNext
    <3> QED
      BY <1>5, <2>1, <2>3, <3>1
  <2> QED
    BY <2>2, <2>3
<1> QED
  BY <1>4, <1>5

\* A part that is armed takes the frame: nothing but a cycle that was not waited
\* for, a missing write enable or the protection keeps it from programming.
LEMMA ProgramTakes ==
  ASSUME NEW j \in JobType, j.op = "write", ~Refused(j), Suited(j),
         NEW a \in j.start .. End(j) - 1, Aligned(j, a), chip \in Chips,
         ~chip.busy, ~chip.locked,
         j.type = "PAGE" => InStep(chip, Width(j)),
         j.type = "PAGE" \/ a = j.start => chip.wel /\ chip.aai = NoAAI,
         j.type # "PAGE" /\ a # j.start => chip.aai = a,
         NEW d \in ProgramEffect(j, a)
  PROVE  d.busy
<1>1. CASE j.type = "PAGE" \/ a = j.start
  BY <1>1 DEF ProgramEffect, ProgramPage, ProgramFirst, Increment, Writable, Quiet,
     Listening, Chips
<1>2. CASE j.type # "PAGE" /\ a # j.start
  <2>1. a # NoAAI
    BY WriteNumbers DEF NoAAI
  <2> QED
    BY <1>2, <2>1 DEF ProgramEffect, ProgramNext, Increment, Listening, Chips
<1> QED
  BY <1>1, <1>2

\* So a program frame stays between the start of the range and the end of its
\* chunk, and a page program inside the chunk.
LEMMA ProgramInRange ==
  ASSUME NEW j \in JobType, j.op = "write", ~Refused(j), Suited(j),
         NEW a \in j.start .. End(j) - 1, Aligned(j, a), chip \in Chips,
         j.type = "PAGE" => InStep(chip, Width(j)),
         j.type # "PAGE" /\ chip.aai # NoAAI => chip.aai \in j.start .. a,
         NEW d \in ProgramEffect(j, a), NEW b \in Addr
  PROVE  /\ b < j.start \/ b >= a + ChunkLen(j, a) => d.mem[b] = chip.mem[b]
         /\ j.type = "PAGE" /\ b < a => d.mem[b] = chip.mem[b]
<1>1. CASE d = chip
  BY <1>1
<1>2. CASE d # chip
  <2>1. PICK x \in j.start .. a : 
          /\ j.type = "PAGE" => x = a
          /\ \E slots : /\ \A i \in 1 .. ChunkLen(j, a) : slots[i] = x + i - 1
                        /\ d.mem = Burn(chip.mem, slots, Part(j, a))
    BY <1>2, ProgramRuns
  <2>2. PICK slots : /\ \A i \in 1 .. ChunkLen(j, a) : slots[i] = x + i - 1
                     /\ d.mem = Burn(chip.mem, slots, Part(j, a))
    BY <2>1
  <2>3. /\ j.start \in Nat /\ a \in Nat /\ x \in Nat /\ Part(j, a) \in Seq(Byte)
        /\ Len(Part(j, a)) = ChunkLen(j, a) /\ ChunkLen(j, a) \in 1 .. End(j) - a
        /\ End(j) \in 1 .. MemSize /\ b \in Nat
    BY WriteNumbers, ChipAssumption DEF Addr
  <2>4. x + ChunkLen(j, a) <= MemSize /\ chip.mem \in [Addr -> Byte]
    BY <2>3, ChipAssumption DEF Chips
  <2> DEFINE part == Part(j, a)
             len == ChunkLen(j, a)
             mem == chip.mem
  <2>5. /\ part \in Seq(Byte) /\ Len(part) = len /\ x + Len(part) <= MemSize
        /\ \A i \in 1 .. Len(part) : slots[i] = x + i - 1
        /\ d.mem = Burn(mem, slots, part) /\ x \in Nat /\ mem \in [Addr -> Byte]
    BY <2>2, <2>3, <2>4
  <2> HIDE DEF part, len, mem
  <2>6. b < x \/ b >= x + Len(part) => Burn(mem, slots, part)[b] = mem[b]
    BY <2>5, BurnRun
  <2>7. b < x \/ b >= x + len => d.mem[b] = mem[b]
    BY <2>5, <2>6
  <2>8. len = ChunkLen(j, a) /\ mem = chip.mem
    BY DEF len, mem
  <2> QED
    BY <2>1, <2>3, <2>7, <2>8
<1> QED
  BY <1>1, <1>2

\* And when the part is armed it programs exactly its chunk.
LEMMA ProgramIsExact ==
  ASSUME NEW j \in JobType, j.op = "write", ~Refused(j), Suited(j),
         NEW a \in j.start .. End(j) - 1, Aligned(j, a), chip \in Chips,
         ~chip.busy, ~chip.locked,
         j.type = "PAGE" => InStep(chip, Width(j)),
         j.type = "PAGE" \/ a = j.start => chip.wel /\ chip.aai = NoAAI,
         j.type # "PAGE" /\ a # j.start => chip.aai = a,
         NEW d \in ProgramEffect(j, a)
  PROVE  /\ \A b \in Addr :
              /\ b < a => d.mem[b] = chip.mem[b]
              /\ b >= a /\ b < a + ChunkLen(j, a) =>
                   d.mem[b] = Least(chip.mem[b], j.data[b - j.start + 1])
         /\ d.locked = FALSE
         /\ j.type # "PAGE" => d.aai = (a + ChunkLen(j, a)) % MemSize
<1>1. d.busy /\ d # chip
  BY ProgramTakes
<1>2. /\ j.start \in Nat /\ a \in Nat /\ Part(j, a) \in Seq(Byte)
      /\ Len(Part(j, a)) = ChunkLen(j, a) /\ ChunkLen(j, a) \in 1 .. End(j) - a
      /\ End(j) \in 1 .. MemSize
  BY WriteNumbers
<1>3. j.type # "PAGE" /\ chip.aai # NoAAI => chip.aai \in j.start .. a
  BY <1>2
<1>4. PICK x \in j.start .. a :
        /\ j.type = "PAGE" \/ a = j.start => x = a
        /\ j.type # "PAGE" /\ a # j.start => chip.aai = x
        /\ \E slots : /\ \A i \in 1 .. ChunkLen(j, a) : slots[i] = x + i - 1
                      /\ d.mem = Burn(chip.mem, slots, Part(j, a))
        /\ d.locked = chip.locked
        /\ d.aai = IF j.type = "PAGE" THEN chip.aai ELSE (x + ChunkLen(j, a)) % MemSize
  BY <1>1, <1>3, ProgramRuns
<1>5. x = a
  BY <1>4
<1>6. PICK slots : /\ \A i \in 1 .. ChunkLen(j, a) : slots[i] = a + i - 1
                   /\ d.mem = Burn(chip.mem, slots, Part(j, a))
  BY <1>4, <1>5
<1>7. ASSUME NEW b \in Addr
      PROVE  /\ b < a => d.mem[b] = chip.mem[b]
             /\ b >= a /\ b < a + ChunkLen(j, a) =>
                  d.mem[b] = Least(chip.mem[b], j.data[b - j.start + 1])
  <2>1. b \in Nat /\ a + ChunkLen(j, a) <= MemSize /\ chip.mem \in [Addr -> Byte]
    BY <1>2, ChipAssumption DEF Addr, Chips
  <2>2. /\ b < a => d.mem[b] = chip.mem[b]
        /\ b >= a /\ b < a + ChunkLen(j, a) =>
             d.mem[b] = Least(chip.mem[b], Part(j, a)[b - a + 1])
    <3> DEFINE D == Part(j, a)
    <3>1. /\ D \in Seq(Byte) /\ a + Len(D) <= MemSize
          /\ \A i \in 1 .. Len(D) : slots[i] = a + i - 1
      BY <1>2, <1>6, <2>1
    <3>0. a \in Nat /\ chip.mem \in [Addr -> Byte]
      BY <1>2, <2>1
    <3> DEFINE after == Burn(chip.mem, slots, D)
    <3> HIDE DEF D
    <3>2. \A s : (\A i \in 1 .. Len(D) : s[i] = a + i - 1) =>
            LET burnt == Burn(chip.mem, s, D)
            IN  /\ b < a \/ b >= a + Len(D) => burnt[b] = chip.mem[b]
                /\ b >= a /\ b < a + Len(D) => burnt[b] = Least(chip.mem[b], D[b - a + 1])
      BY <3>0, <3>1, BurnRun
    <3>3. /\ b < a \/ b >= a + Len(D) => after[b] = chip.mem[b]
          /\ b >= a /\ b < a + Len(D) => after[b] = Least(chip.mem[b], D[b - a + 1])
      BY <3>1, <3>2
    <3> QED
      BY <1>2, <1>6, <3>3 DEF D, after
  <2>3. ASSUME b >= a, b < a + ChunkLen(j, a)
        PROVE  Part(j, a)[b - a + 1] = j.data[b - j.start + 1]
    <3>1. b - a + 1 \in 1 .. ChunkLen(j, a) /\ a \in j.start .. End(j)
      BY <1>2, <2>1, <2>3
    <3>2. (a - j.start) + (b - a + 1) = b - j.start + 1
      BY <1>2, <2>1
    <3> QED
      BY <3>1, <3>2, PartIs
  <2> QED
    BY <2>2, <2>3
<1> QED
  BY <1>4, <1>5, <1>7

-----------------------------------------------------------------------------
(***************************************************************************)
(* The steps: each keeps the invariant, part by part.                      *)
(***************************************************************************)
\* On a back end that does not recover a link that is up has lost no frame, and a
\* dead link changes nothing.
LEMMA FrameIs ==
  ASSUME IInv, NEW ok \in BOOLEAN, NEW E, Frame(ok, E)
  PROVE  /\ sticky' = sticky /\ chip' \in E \cup {chip}
         /\ ok => link = "up" /\ link' = "up" /\ chip' \in E
         /\ link' = "up" => link = "up" /\ (sticky => ok)
         /\ link = "down" => chip' = chip
  BY DEF Frame, IInv, TypeOK

\* An operation starts with nothing behind its frontier.
LEMMA StartKeeps ==
  ASSUME IInv, NEW j \in JobType, Start(j)
  PROVE  WInv'
<1>1. /\ job' = j /\ cancel' = FALSE /\ addr' = j.start /\ count' = 0
      /\ before' = chip'.mem /\ clean' = Pristine(chip') /\ chip' = chip
  BY DEF Start
<1>2. /\ j.op \in {"read", "write", "verify", "erase", "unlock"} /\ j.start \in Nat
      /\ Wide(j) \in BOOLEAN
  BY JobFields DEF Wide
<1>3. /\ j.op \in {"write", "erase", "unlock"} => FirstStep(j) = "status"
      /\ j.op \in {"read", "verify"} => FirstStep(j) = IF Wide(j) THEN "en_wren" ELSE "read"
  BY DEF FirstStep, Body
<1>4. \/ pc' = "close" /\ verdict' = "refused"
      \/ pc' = FirstStep(j) /\ verdict' = "none" /\ ~Refused(j)
  BY DEF Start
<1>5. /\ pc' \in {"close", "status", "en_wren", "read"}
      /\ verdict' = IF pc' = "close" THEN "refused" ELSE "none"
      /\ pc' = "en_wren" => Wide(j) /\ j.op \in {"read", "verify"}
      /\ pc' = "read" => ~Wide(j) /\ j.op \in {"read", "verify"}
      /\ pc' # "close" => ~Refused(j)
  BY <1>2, <1>3, <1>4
<1>6. pc' # "close" /\ j.op \in Looping => j.start < End(j)
  BY <1>2, <1>5, RangeFits
<1> USE <1>1, <1>2, <1>5
<1>7. LoopInv'
  BY <1>6 DEF WInv, LoopInv, Leaving, Before, Behind, Entering, Fetching, Aligned, Looping
<1>8. RangeInv'
  BY DEF RangeInv
<1>9. AaiInv'
  BY DEF AaiInv, Pristine, Quiet
<1>10. ModeInv'
  <2>1. SUFFICES ASSUME clean', j.op \in Looping
                 PROVE  /\ ~chip'.four /\ pc' # "en_bank"
                        /\ pc' \in {"wren", "program", "wait", "check", "advance", "read"}
                             => ~Wide(j)
    BY DEF ModeInv, Trusted, InStep, Width
  <2> QED
    BY <2>1 DEF Pristine, Looping
<1>11. RestInv'
  BY DEF RestInv, Pristine, Quiet, Listening
<1>12. CountInv'
  BY DEF CountInv, Frontier, Before, Behind, Entering
<1>13. ArmedInv'
  BY DEF ArmedInv, Before, Behind, Entering
<1>14. ExactInv'
  BY DEF ExactInv, Frontier, Before, Behind, Entering
<1>15. ComparedInv'
  <2>1. SUFFICES ASSUME pc' # "close"
                 PROVE  Compared' = j.start
    BY DEF ComparedInv
  <2> QED
    BY <2>1 DEF Compared, Before, Entering
<1>16. RestoredInv'
  <2>1. SUFFICES ASSUME clean', pc' # "close"
                 PROVE  ~chip'.four
    BY DEF RestoredInv, Orderly, Leaving
  <2> QED
    BY <2>1 DEF Pristine
<1>17. CancelInv'
  BY DEF CancelInv
<1> QED
  BY <1>7, <1>8, <1>9, <1>10, <1>11, <1>12, <1>13, <1>14, <1>15, <1>16, <1>17 DEF WInv

\* Within an operation the settings and the conditions on them stay what they are.
LEMMA SameRun ==
  ASSUME UNCHANGED <<job, sticky, clean>>
  PROVE  (Trusted' <=> Trusted) /\ (Comparing' <=> Comparing)
  BY DEF Trusted, Comparing

\* The numbers of a loop that runs.
LEMMA LoopNumbers ==
  ASSUME IInv, job.op \in Looping, verdict # "refused"
  PROVE  /\ job \in JobType /\ ~Refused(job) /\ chip \in Chips
         /\ job.start \in Nat /\ addr \in Nat /\ addr \in job.start .. End(job)
         /\ End(job) \in job.start + 1 .. MemSize /\ End(job) \in Nat
         /\ job.op # "read" => End(job) = job.start + job.size
         /\ ChunkLen(job, addr) \in 0 .. End(job) - addr /\ ChunkLen(job, addr) \in Nat
         /\ count \in Int
<1>1. /\ job \in JobType /\ ~Refused(job) /\ chip \in Chips /\ count \in Int
      /\ addr \in job.start .. End(job)
  BY DEF IInv, TypeOK, LoopSound
<1>2. job.start \in Nat /\ End(job) \in job.start + 1 .. MemSize
  BY <1>1, JobFields, RangeFits
<1>3. ChunkLen(job, addr) \in 0 .. End(job) - addr
  BY <1>1, ChunkFits
<1> QED
  BY <1>1, <1>2, <1>3, ChipAssumption DEF End

\* While the contents stay what they are, the frontier may move on.
LEMMA FrontierMoves ==
  ASSUME WInv, UNCHANGED <<job, sticky, clean, before, count>>, chip'.mem = chip.mem,
         warned' = warned, verdict # "refused",
         \/ Frontier' = Frontier
         \/ job.op = "write" /\ Suited(job) =>
              /\ Frontier \in Int /\ Frontier' \in Int /\ Frontier <= Frontier'
              /\ job.start \in Int /\ count \in Int /\ job.start + count <= Frontier
  PROVE  RangeInv' /\ ExactInv'
<1>1. Trusted' <=> Trusted
  BY SameRun
<1>2. CASE Frontier' = Frontier
  <2>1. RangeInv'
    BY <1>1, <1>2 DEF WInv, RangeInv
  <2>2. ExactInv'
    BY <1>2 DEF WInv, ExactInv
  <2> QED
    BY <2>1, <2>2
<1>3. CASE job.op = "write" /\ Suited(job) =>
              /\ Frontier \in Int /\ Frontier' \in Int /\ Frontier <= Frontier'
              /\ job.start \in Int /\ count \in Int /\ job.start + count <= Frontier
  <2>1. RangeInv'
    <3>1. job.op \notin {"write", "erase"} => chip'.mem = before'
      BY DEF WInv, RangeInv
    <3>2. ASSUME job.op = "write", Trusted, Suited(job), NEW b \in Addr,
                 b < job.start \/ b >= Frontier'
          PROVE  chip'.mem[b] = before'[b]
      <4>1. b \in Int
        BY ChipAssumption DEF Addr
      <4>2. b < job.start \/ b >= Frontier
        BY <1>3, <3>2, <4>1
      <4> QED
        BY <3>2, <4>2 DEF WInv, RangeInv
    <3> QED
      BY <1>1, <3>1, <3>2 DEF RangeInv
  <2>2. ExactInv'
    <3>1. SUFFICES ASSUME job.op = "write", sticky, clean, Suited(job), ~job.ignore, ~warned,
                          job.start + count = Frontier'
                   PROVE  \A b \in job.start .. Frontier' - 1 :
                            chip.mem[b] = Least(before[b], job.data[b - job.start + 1])
      BY DEF ExactInv
    <3>2. Frontier' = Frontier
      BY <1>3, <3>1
    <3> QED
      BY <3>1, <3>2 DEF WInv, ExactInv
  <2> QED
    BY <2>1, <2>2
<1> QED
  BY <1>2, <1>3

\* And what was compared stays compared.
LEMMA ComparedStays ==
  ASSUME WInv, UNCHANGED <<job, sticky, clean, count>>, chip'.mem = chip.mem,
         verdict' \notin {"refused", "aborted"} => verdict \notin {"refused", "aborted"},
         Compared' = Compared,
         pc \in Leaving \cup {"close", "idle"} => pc' \in Leaving \cup {"close", "idle"}
  PROVE  ComparedInv'
<1>1. (Trusted' <=> Trusted) /\ (Comparing' <=> Comparing)
  BY SameRun
<1> QED
  BY <1>1 DEF WInv, ComparedInv

\* The status read: a write that goes on without the warning goes on unprotected.
LEMMA CheckLocksKeeps ==
  ASSUME IInv, WInv, CheckLocks
  PROVE  WInv'
<1>1. /\ UNCHANGED <<job, before, clean, addr, count, cancel, verdict>>
      /\ pc = "status" /\ job.op \in {"write", "erase", "unlock"} /\ verdict # "refused"
  BY DEF CheckLocks, histVars, IInv, OpFits, OpsAt
<1>2. PICK ok \in BOOLEAN : Frame(ok, {chip}) /\ warned' = (ok /\ chip.locked /\ job.op # "unlock")
  BY DEF CheckLocks
<1>3. /\ chip' = chip /\ sticky' = sticky
      /\ link' = "up" => link = "up" /\ (sticky => ok)
  BY <1>2, FrameIs
<1>4. /\ pc' \in {"wren", "en_wren"}
      /\ job.op # "write" => pc' = "wren"
      /\ pc' = "en_wren" => job.op = "write" /\ Wide(job)
      /\ pc' = "wren" /\ job.op = "write" => ~Wide(job)
  BY <1>1 DEF CheckLocks, Goto, Body, LoopHead, Wide
<1>5. Frontier = addr /\ Frontier' = addr /\ Compared = addr /\ Compared' = addr
  BY <1>1, <1>4 DEF Frontier, Compared, Before, Entering
<1>6. ~cancel
  BY <1>1 DEF WInv, CancelInv, Leaving
<1>7. /\ job.op = "write" => addr = job.start
      /\ job.op = "write" => addr < End(job) /\ (Suited(job) => Aligned(job, addr))
  BY <1>1 DEF WInv, LoopInv, Before, Entering, Looping
<1>8. (Trusted' <=> Trusted) /\ (Comparing' <=> Comparing)
  BY <1>1, <1>3, SameRun
<1>9. job.op = "write" => job.start \in Nat
  BY <1>1, LoopNumbers DEF Looping
<1>10. LoopInv'
  BY <1>1, <1>4, <1>7 DEF WInv, LoopInv, Leaving, Before, Behind, Entering, Fetching, Looping
<1>11. RangeInv'
  BY <1>1, <1>3, <1>5, <1>8 DEF WInv, RangeInv
<1>12. AaiInv'
  BY <1>1, <1>3, <1>4 DEF WInv, AaiInv, Before, Entering
<1>13. ModeInv'
  <2>1. ASSUME Trusted, link' = "up", job.op \in Looping
        PROVE  pc' = "wren" => InStep(chip, Width(job))
    BY <1>1, <1>3, <1>4, <2>1 DEF WInv, ModeInv, Looping, InStep, Width
  <2> QED
    BY <1>1, <1>3, <1>4, <1>8, <2>1 DEF ModeInv
<1>14. RestInv'
  BY <1>1, <1>3, <1>4 DEF WInv, RestInv, Entering
<1>15. CountInv'
  BY <1>1, <1>4, <1>5 DEF WInv, CountInv, Before, Entering
<1>16. ArmedInv'
  <2>1. ASSUME sticky, clean, ~warned', link' = "up", job.op = "write"
        PROVE  ~chip.locked
    BY <1>2, <1>3, <2>1
  <2>2. clean => chip.aai = NoAAI
    BY <1>1 DEF WInv, AaiInv, Entering
  <2> QED
    BY <1>1, <1>3, <1>4, <2>1, <2>2 DEF ArmedInv, Behind
<1>17. ExactInv'
  BY <1>1, <1>5, <1>7, <1>9 DEF ExactInv
<1>18. ComparedInv'
  BY <1>1, <1>3, <1>4, <1>5, ComparedStays DEF Leaving
<1>19. RestoredInv'
  BY <1>1, <1>3, <1>4 DEF WInv, RestoredInv, Orderly, Leaving
<1>20. CancelInv'
  BY <1>1, <1>6 DEF CancelInv
<1> QED
  BY <1>10, <1>11, <1>12, <1>13, <1>14, <1>15, <1>16, <1>17, <1>18, <1>19, <1>20 DEF WInv

\* Entering four byte mode: on a back end whose frames are not lost one by one the
\* part follows.
LEMMA EN4BKeeps ==
  ASSUME IInv, WInv, EN4B
  PROVE  WInv'
<1>1. /\ UNCHANGED <<job, before, clean, addr, count, cancel, verdict, warned>>
      /\ pc \in {"en_wren", "en_op", "en_bank"} /\ job.op \in Looping /\ verdict # "refused"
      /\ chip \in Chips
  BY DEF EN4B, ModeFrame, histVars, IInv, TypeOK, OpFits, OpsAt
<1>2. PICK ok \in BOOLEAN :
        \/ /\ pc = "en_wren" /\ pc' = "en_op" /\ Frame(ok, WriteEnable(chip))
        \/ /\ pc = "en_op" /\ pc' = "en_bank"
           /\ Frame(ok, SetFour(chip, "opcode", TRUE))
        \/ /\ pc = "en_bank" /\ pc' = Body(job)
           /\ Frame(ok, SetFour(chip, "bank", TRUE))
  BY DEF EN4B, ModeFrame, Goto
<1>3. /\ sticky' = sticky
      /\ link' = "up" => link = "up" /\ (sticky => ok)
      /\ chip' = chip \/ chip' \in WriteEnable(chip) \cup SetFour(chip, "opcode", TRUE)
                                   \cup SetFour(chip, "bank", TRUE)
  BY <1>2, FrameIs
<1>4. /\ chip'.mem = chip.mem /\ chip'.busy = chip.busy /\ chip'.aai = chip.aai
      /\ chip'.latch = chip.latch /\ chip'.locked = chip.locked
  BY <1>1, <1>3 DEF WriteEnable, SetFour, Chips
<1>5. /\ pc' \in {"en_op", "en_bank", "wren", "read"}
      /\ pc' = "wren" => job.op = "write"
      /\ pc' = "read" => job.op \in {"read", "verify"}
  BY <1>1, <1>2 DEF Body, LoopHead, Looping
<1>6. /\ Wide(job) /\ addr = job.start
      /\ job.op # "read" => addr < End(job)
      /\ job.op = "write" /\ Suited(job) => Aligned(job, addr)
  BY <1>1 DEF WInv, LoopInv, Before, Entering, Fetching, Looping
<1>7. Compared' = addr /\ Compared = addr /\ (job.op = "write" => Frontier' = Frontier)
  BY <1>1, <1>5 DEF Frontier, Compared, Before, Entering
<1>8. (Trusted' <=> Trusted) /\ (Comparing' <=> Comparing)
  BY <1>1, <1>3, SameRun
<1>9. clean => chip.aai = NoAAI /\ ~chip.busy
  BY <1>1 DEF WInv, AaiInv, RestInv, Entering
<1>10. LoopInv'
  BY <1>1, <1>5, <1>6 DEF WInv, LoopInv, Leaving, Before, Behind, Entering, Fetching, Looping
<1>11. RangeInv'
  BY <1>1, <1>4, <1>7, <1>8 DEF WInv, RangeInv
<1>12. AaiInv'
  BY <1>1, <1>4, <1>9 DEF AaiInv
<1>13. ModeInv'
  <2>1. SUFFICES ASSUME Trusted, link' = "up"
                 PROVE  /\ pc' = "en_bank" /\ chip.latch = "opcode" => chip'.four
                        /\ pc' \in {"wren", "read"} => chip'.four
    BY <1>1, <1>4, <1>5, <1>6, <1>8 DEF ModeInv, InStep, Width
  <2>2. ok /\ link = "up" /\ Quiet(chip)
    BY <1>3, <1>6, <1>9, <2>1 DEF Trusted, Quiet, Listening
  <2>3. pc = "en_bank" /\ chip.latch = "opcode" => chip.four
    BY <1>1, <2>1, <2>2 DEF WInv, ModeInv
  <2>4. \/ pc = "en_wren" /\ pc' = "en_op"
        \/ pc = "en_op" /\ pc' = "en_bank" /\ chip' \in SetFour(chip, "opcode", TRUE)
        \/ pc = "en_bank" /\ pc' = Body(job) /\ chip' \in SetFour(chip, "bank", TRUE)
    BY <1>2, <2>2, FrameIs
  <2>5. chip.latch \in {"opcode", "bank"}
    BY <1>1 DEF Chips
  <2>6. CASE pc = "en_bank"
    BY <1>1, <1>5, <2>2, <2>3, <2>4, <2>5, <2>6 DEF SetFour, Chips
  <2>7. CASE pc = "en_op"
    BY <1>1, <2>2, <2>4, <2>7 DEF SetFour, Chips
  <2> QED
    BY <1>1, <2>4, <2>6, <2>7
<1>14. RestInv'
  BY <1>1, <1>4, <1>9 DEF RestInv
<1>15. CountInv'
  BY <1>1, <1>5, <1>7 DEF WInv, CountInv, Before, Behind, Entering
<1>16. ArmedInv'
  BY <1>1, <1>3, <1>4, <1>5, <1>9 DEF WInv, ArmedInv, Before, Behind, Entering
<1>17. ExactInv'
  <2>1. CASE job.op = "write"
    BY <1>1, <1>3, <1>4, <1>7, <2>1 DEF WInv, ExactInv
  <2>2. CASE job.op # "write"
    BY <1>1, <2>2 DEF ExactInv
  <2> QED
    BY <2>1, <2>2
<1>18. ComparedInv'
  BY <1>1, <1>3, <1>4, <1>5, <1>7, ComparedStays DEF Leaving
<1>19. RestoredInv'
  BY <1>1, <1>5 DEF RestoredInv, Leaving
<1>20. CancelInv'
  BY <1>1 DEF WInv, CancelInv, Leaving
<1> QED
  BY <1>10, <1>11, <1>12, <1>13, <1>14, <1>15, <1>16, <1>17, <1>18, <1>19, <1>20 DEF WInv

\* Leaving four byte mode again.
LEMMA EX4BKeeps ==
  ASSUME IInv, WInv, EX4B
  PROVE  WInv'
<1>1. /\ UNCHANGED <<job, before, clean, addr, count, cancel, verdict, warned>>
      /\ pc \in {"ex_wren", "ex_op", "ex_bank"} /\ job.op \in Looping /\ verdict # "refused"
      /\ chip \in Chips
  BY DEF EX4B, ModeFrame, histVars, IInv, TypeOK, OpFits, OpsAt
<1>2. PICK ok \in BOOLEAN :
        \/ /\ pc = "ex_wren" /\ pc' = "ex_op" /\ Frame(ok, WriteEnable(chip))
        \/ /\ pc = "ex_op" /\ pc' = "ex_bank"
           /\ Frame(ok, SetFour(chip, "opcode", FALSE))
        \/ /\ pc = "ex_bank" /\ pc' = AfterModes(job)
           /\ Frame(ok, SetFour(chip, "bank", FALSE))
  BY DEF EX4B, ModeFrame, Goto
<1>3. /\ sticky' = sticky
      /\ link' = "up" => link = "up" /\ (sticky => ok)
      /\ chip' = chip \/ chip' \in WriteEnable(chip) \cup SetFour(chip, "opcode", FALSE)
                                   \cup SetFour(chip, "bank", FALSE)
  BY <1>2, FrameIs
<1>4. /\ chip'.mem = chip.mem /\ chip'.busy = chip.busy /\ chip'.aai = chip.aai
      /\ chip'.latch = chip.latch
      /\ pc # "ex_wren" => chip'.wel = chip.wel
  BY <1>1, <1>2, <1>3, FrameIs DEF WriteEnable, SetFour, Chips
<1>5. /\ pc' \in {"ex_op", "ex_bank", "wrdi", "report"}
      /\ pc' \in {"ex_op", "ex_bank"} => pc # "ex_bank"
      /\ pc' = "report" => job.op # "write"
  BY <1>1, <1>2 DEF AfterModes
<1>6. Wide(job)
  BY <1>1 DEF WInv, LoopInv
<1>7. /\ Compared' = Compared /\ Frontier' = Frontier
  BY <1>1, <1>5 DEF Frontier, Compared, Before, Behind, Entering
<1>8. clean /\ Suited(job) => chip.aai = NoAAI
  BY <1>1, <1>6 DEF WInv, AaiInv, Suited, Looping
<1>10. LoopInv'
  BY <1>1, <1>5, <1>6 DEF WInv, LoopInv, Leaving, Before, Behind, Entering, Fetching
<1>11. RangeInv' /\ ExactInv'
  BY <1>1, <1>3, <1>4, <1>7, FrontierMoves
<1>12. AaiInv'
  BY <1>1, <1>4, <1>5 DEF WInv, AaiInv, Before, Behind, Entering
<1>13. ModeInv' /\ RestInv'
  BY <1>1, <1>5 DEF ModeInv, RestInv, Entering
<1>15. CountInv'
  BY <1>1, <1>5 DEF WInv, CountInv, Before, Behind, Entering
<1>16. ArmedInv'
  BY <1>5 DEF ArmedInv, Before, Behind, Entering
<1>18. ComparedInv'
  BY <1>1, <1>3, <1>4, <1>5, <1>7, ComparedStays DEF Leaving
<1>19. RestoredInv'
  <2>1. SUFFICES ASSUME Orderly'
                 PROVE  /\ ~chip'.busy
                        /\ pc' = "ex_bank" /\ chip'.latch = "opcode" => ~chip'.four
                        /\ pc' \in {"wrdi", "report"} => ~chip'.four
                        /\ pc' = "report" => chip'.aai = NoAAI
    BY <1>1, <1>5 DEF RestoredInv, Leaving
  <2>2. Orderly /\ ok
    BY <1>1, <1>3, <2>1 DEF Orderly
  <2>3. ~chip.busy /\ Quiet(chip)
    BY <1>1, <1>8, <2>2 DEF WInv, RestoredInv, Leaving, Orderly, Quiet, Listening
  <2>4. pc = "ex_bank" /\ chip.latch = "opcode" => ~chip.four
    BY <2>2 DEF WInv, RestoredInv
  <2>5. \/ pc = "ex_wren" /\ pc' = "ex_op"
        \/ pc = "ex_op" /\ pc' = "ex_bank" /\ chip' \in SetFour(chip, "opcode", FALSE)
        \/ pc = "ex_bank" /\ pc' = AfterModes(job) /\ chip' \in SetFour(chip, "bank", FALSE)
    BY <1>2, <2>2, FrameIs
  <2>6. chip.latch \in {"opcode", "bank"}
    BY <1>1 DEF Chips
  <2>7. CASE pc = "ex_bank"
    BY <1>1, <1>4, <1>5, <2>3, <2>4, <2>5, <2>6, <2>7 DEF SetFour, Chips, Quiet
  <2>8. CASE pc = "ex_op"
    BY <1>1, <1>4, <2>3, <2>5, <2>8 DEF SetFour, Chips
  <2> QED
    BY <1>1, <1>4, <2>3, <2>5, <2>7, <2>8
<1>20. CancelInv'
  BY <1>5 DEF CancelInv, Leaving
<1> QED
  BY <1>10, <1>11, <1>12, <1>13, <1>15, <1>16, <1>18, <1>19, <1>20 DEF WInv

\* The write disable at the end of a write.
LEMMA WrdiKeeps ==
  ASSUME IInv, WInv, Wrdi
  PROVE  WInv'
<1>1. /\ UNCHANGED <<job, before, clean, addr, count, cancel, verdict, warned>>
      /\ pc = "wrdi" /\ pc' = "report" /\ job.op = "write" /\ verdict # "refused"
      /\ chip \in Chips
  BY DEF Wrdi, ModeFrame, Goto, histVars, IInv, TypeOK, OpFits, OpsAt
<1>2. PICK ok \in BOOLEAN : Frame(ok, WriteDisable(chip))
  BY DEF Wrdi, ModeFrame
<1>3. /\ sticky' = sticky
      /\ link' = "up" => link = "up" /\ (sticky => ok)
      /\ ok => chip' \in WriteDisable(chip)
      /\ chip' = chip \/ chip' \in WriteDisable(chip)
  BY <1>2, FrameIs
<1>4. /\ chip'.mem = chip.mem /\ chip'.busy = chip.busy /\ chip'.four = chip.four
      /\ chip'.aai \in {chip.aai, NoAAI}
  BY <1>1, <1>3 DEF WriteDisable, Chips
<1>7. /\ Compared' = Compared /\ Frontier' = Frontier
  BY <1>1 DEF Frontier, Compared, Before, Behind, Entering
<1>10. LoopInv'
  BY <1>1 DEF WInv, LoopInv, Leaving, Before, Behind, Entering
<1>11. RangeInv' /\ ExactInv'
  BY <1>1, <1>3, <1>4, <1>7, FrontierMoves
<1>12. AaiInv'
  BY <1>1, <1>4 DEF WInv, AaiInv, Before, Behind, Entering
<1>13. ModeInv' /\ RestInv'
  BY <1>1 DEF ModeInv, RestInv, Entering
<1>15. CountInv'
  BY <1>1 DEF WInv, CountInv, Before, Behind, Entering
<1>16. ArmedInv'
  BY <1>1 DEF ArmedInv, Before, Behind, Entering
<1>18. ComparedInv'
  BY <1>1, <1>3, <1>4, <1>7, ComparedStays DEF Leaving
<1>19. RestoredInv'
  <2>1. SUFFICES ASSUME Orderly'
                 PROVE  ~chip'.busy /\ ~chip'.four /\ chip'.aai = NoAAI /\ ~chip'.wel
    BY <1>1 DEF RestoredInv, Leaving
  <2>2. Orderly /\ ok
    BY <1>1, <1>3, <2>1 DEF Orderly
  <2>3. ~chip.busy /\ ~chip.four
    BY <1>1, <2>2 DEF WInv, RestoredInv, Leaving
  <2> QED
    BY <1>1, <1>3, <2>2, <2>3 DEF WriteDisable, Listening, Chips
<1>20. CancelInv'
  BY <1>1 DEF CancelInv, Leaving
<1> QED
  BY <1>10, <1>11, <1>12, <1>13, <1>15, <1>16, <1>18, <1>19, <1>20 DEF WInv

\* The write enable: an idle part without an AAI sequence takes it.
LEMMA WrenKeeps ==
  ASSUME IInv, WInv, Wren, job.op = "write"
  PROVE  WInv'
<1>1. /\ UNCHANGED <<job, before, clean, addr, count, cancel, verdict, warned>>
      /\ pc = "wren" /\ pc' = "program" /\ verdict # "refused" /\ chip \in Chips
  BY DEF Wren, ModeFrame, Goto, histVars, IInv, TypeOK, OpFits, OpsAt
<1>2. PICK ok \in BOOLEAN : Frame(ok, WriteEnable(chip))
  BY DEF Wren, ModeFrame
<1>3. /\ sticky' = sticky
      /\ link' = "up" => link = "up" /\ (sticky => ok)
      /\ ok => chip' \in WriteEnable(chip)
      /\ chip' = chip \/ chip' \in WriteEnable(chip)
  BY <1>2, FrameIs
<1>4. /\ chip'.mem = chip.mem /\ chip'.busy = chip.busy /\ chip'.four = chip.four
      /\ chip'.aai = chip.aai /\ chip'.locked = chip.locked
  BY <1>1, <1>3 DEF WriteEnable, Chips
<1>5. /\ addr < End(job) /\ (Suited(job) => Aligned(job, addr))
      /\ job.type # "PAGE" => addr = job.start
  BY <1>1 DEF WInv, LoopInv, Before
<1>7. Compared' = Compared /\ Frontier' = Frontier
  BY <1>1 DEF Frontier, Compared, Before
<1>8. Trusted' <=> Trusted
  BY <1>1, <1>3, SameRun
<1>10. LoopInv'
  BY <1>1, <1>5 DEF WInv, LoopInv, Leaving, Entering
<1>11. RangeInv' /\ ExactInv'
  BY <1>1, <1>3, <1>4, <1>7, FrontierMoves
<1>12. AaiInv'
  BY <1>1, <1>4, <1>7 DEF WInv, AaiInv, Before, Entering
<1>13. ModeInv'
  BY <1>1, <1>3, <1>4, <1>8 DEF WInv, ModeInv, InStep
<1>14. RestInv'
  BY <1>1, <1>4 DEF WInv, RestInv, Entering
<1>15. CountInv'
  BY <1>1, <1>7 DEF WInv, CountInv, Before
<1>16. ArmedInv'
  <2>1. SUFFICES ASSUME sticky, clean, Suited(job), ~job.ignore, ~warned, link' = "up"
                 PROVE  /\ ~chip'.locked /\ chip'.wel
                        /\ job.type # "PAGE" => chip'.aai = NoAAI
    BY <1>1, <1>3, <1>5 DEF ArmedInv, Behind
  <2>2. ~chip.locked /\ (job.type # "PAGE" => chip.aai = NoAAI)
    BY <1>1, <1>3, <2>1 DEF WInv, ArmedInv, Before
  <2>3. Quiet(chip)
    BY <1>1, <2>1, <2>2 DEF WInv, RestInv, AaiInv, Quiet, Listening
  <2> QED
    BY <1>1, <1>3, <1>4, <2>1, <2>2, <2>3 DEF WriteEnable, Chips
<1>18. ComparedInv'
  BY <1>1, <1>3, <1>4, <1>7, ComparedStays DEF Leaving
<1>19. RestoredInv'
  BY <1>1 DEF RestoredInv, Leaving, Looping
<1>20. CancelInv'
  BY <1>1 DEF WInv, CancelInv, Leaving
<1> QED
  BY <1>10, <1>11, <1>12, <1>13, <1>14, <1>15, <1>16, <1>18, <1>19, <1>20 DEF WInv

\* The frames of an erase and of clearing the protection.
LEMMA OtherFramesKeep ==
  ASSUME IInv, WInv, Wren \/ ChipErase \/ WriteSR \/ ShowStatus, job.op # "write"
  PROVE  WInv'
<1>1. /\ UNCHANGED <<job, before, clean, addr, count, cancel, verdict, warned>>
      /\ pc \in {"wren", "erase", "unprotect", "show"}
      /\ pc' \in {"erase", "unprotect", "wait", "close"}
      /\ pc' \in {"erase", "unprotect"} => pc = "wren"
      /\ pc' = "close" => pc = "show"
      /\ job.op \in {"erase", "unlock"} /\ chip \in Chips
      /\ pc = "erase" => job.op = "erase"
  BY DEF Wren, ChipErase, WriteSR, ShowStatus, ModeFrame, Goto, histVars, IInv, TypeOK,
     OpFits, OpsAt
<1>2. PICK ok \in BOOLEAN :
        \/ pc = "wren" /\ Frame(ok, WriteEnable(chip))
        \/ pc = "erase" /\ Frame(ok, EraseAll(chip))
        \/ pc = "unprotect" /\ Frame(ok, Unprotect(chip))
        \/ pc = "show" /\ Frame(ok, {chip})
  BY DEF Wren, ChipErase, WriteSR, ShowStatus, ModeFrame
<1>3. /\ sticky' = sticky
      /\ link' = "up" => link = "up"
      /\ chip' = chip \/ chip' \in IF pc = "wren" THEN WriteEnable(chip)
                                   ELSE IF pc = "erase" THEN EraseAll(chip)
                                   ELSE IF pc = "unprotect" THEN Unprotect(chip) ELSE {chip}
  BY <1>2, FrameIs
<1>4. /\ chip'.four = chip.four /\ chip'.aai = chip.aai
      /\ pc \in {"wren", "show"} => chip'.busy = chip.busy
      /\ pc # "erase" => chip'.mem = chip.mem
  BY <1>1, <1>3 DEF WriteEnable, EraseAll, Unprotect, Chips
<1>5. job.op \notin Looping
  BY <1>1 DEF Looping
<1>6. ~cancel
  <2>1. CASE pc # "show"
    BY <1>1, <2>1 DEF WInv, CancelInv, Leaving
  <2>2. CASE pc = "show"
    BY <1>1, <2>2 DEF WInv, CancelInv, Leaving
  <2> QED
    BY <2>1, <2>2
<1>10. LoopInv'
  BY <1>1, <1>5 DEF WInv, LoopInv, Leaving, Entering
<1>11. RangeInv'
  BY <1>1, <1>4 DEF WInv, RangeInv
<1>12. AaiInv'
  BY <1>1, <1>4 DEF WInv, AaiInv
<1>13. ModeInv'
  BY <1>1, <1>5 DEF ModeInv
<1>14. RestInv'
  BY <1>1, <1>4 DEF WInv, RestInv, Entering
<1>15. CountInv' /\ ArmedInv' /\ ExactInv'
  BY <1>1 DEF CountInv, ArmedInv, ExactInv
<1>18. ComparedInv'
  BY <1>1 DEF ComparedInv, Comparing
<1>19. RestoredInv'
  <2>1. SUFFICES ASSUME Orderly'
                 PROVE  /\ ~chip'.four
                        /\ pc' = "close" => ~chip'.busy /\ chip'.aai = NoAAI
    BY <1>1 DEF RestoredInv, Leaving
  <2>2. Orderly
    BY <1>1, <1>3, <2>1 DEF Orderly
  <2>3. ~chip.four /\ (pc = "show" => ~chip.busy)
    BY <1>1, <1>5, <2>2 DEF WInv, RestoredInv
  <2>4. chip.aai = NoAAI
    BY <1>1, <2>2 DEF WInv, AaiInv, Orderly
  <2> QED
    BY <1>1, <1>4, <2>3, <2>4
<1>20. CancelInv'
  BY <1>1, <1>6 DEF CancelInv
<1> QED
  BY <1>10, <1>11, <1>12, <1>13, <1>14, <1>15, <1>18, <1>19, <1>20 DEF WInv

\* Every way out of a loop.  What is left undone by then the count lacks, and the
\* part is in the mode the finally block expects.
LEMMA LeaveKeeps ==
  ASSUME IInv, WInv, NEW v \in {"none", "aborted"}, Leave(v),
         UNCHANGED <<job, before, clean, warned, sticky, chip>>, link' = "up" => link = "up",
         job.op \in Looping, verdict # "refused",
         pc \in {"wait", "check", "advance", "read"}, pc = "read" => job.op # "write",
         job.op # "read" /\ v = "none" => pc = "advance",
         job.op = "write" \/ (job.op = "verify" /\ v = "none") => count' = count,
         Orderly' => ~chip.busy
  PROVE  WInv'
<1>1. /\ verdict' = v /\ pc' \in {"ex_wren", "wrdi", "report"}
      /\ pc' = "ex_wren" => Wide(job)
      /\ pc' \in {"wrdi", "report"} => ~Wide(job)
      /\ pc' = "report" => job.op # "write"
  BY DEF Leave, Looping, Wide
<1>2. /\ End(job) \in Nat /\ addr \in Nat /\ job.start \in Nat /\ count \in Int
      /\ ChunkLen(job, addr) \in 0 .. End(job) - addr /\ addr \in job.start .. End(job)
      /\ job.op # "read" => End(job) = job.start + job.size
      /\ job.size \in Nat
  BY LoopNumbers, JobFields, ChipAssumption
<1>3. Frontier' = End(job) /\ Compared' = End(job)
  BY <1>1 DEF Frontier, Compared, Before, Behind, Entering
<1>4. job.op = "write" => Frontier = addr + ChunkLen(job, addr)
  BY DEF Frontier, Before, Behind, Entering
<1>5. (Trusted' <=> Trusted) /\ (Comparing' <=> Comparing)
  BY SameRun
<1>6. /\ job.op = "write" /\ Suited(job) => job.start + count <= addr + ChunkLen(job, addr)
      /\ job.op = "verify" /\ pc = "advance" => job.start + count = addr + ChunkLen(job, addr)
  BY <1>4 DEF WInv, CountInv, Behind
<1>7. job.op = "write" => RangeInv' /\ ExactInv'
  <2>1. SUFFICES ASSUME job.op = "write" PROVE RangeInv' /\ ExactInv'
    OBVIOUS
  <2>2. Suited(job) =>
          /\ Frontier \in Int /\ Frontier' \in Int /\ Frontier <= Frontier'
          /\ job.start \in Int /\ count \in Int /\ job.start + count <= Frontier
    BY <1>2, <1>3, <1>4, <1>6, <2>1
  <2> QED
    BY <2>1, <2>2, FrontierMoves
<1>8. job.op # "write" => RangeInv' /\ ExactInv'
  BY DEF WInv, RangeInv, ExactInv, Looping
<1>10. LoopInv'
  BY <1>1 DEF WInv, LoopInv, Leaving, Before, Behind, Entering, Fetching
<1>12. AaiInv'
  BY <1>1 DEF WInv, AaiInv, Before, Behind, Entering
<1>13. ModeInv' /\ RestInv'
  BY <1>1 DEF ModeInv, RestInv, Entering
<1>15. CountInv'
  BY <1>1 DEF CountInv, Before, Behind, Entering
<1>16. ArmedInv'
  BY <1>1 DEF ArmedInv, Before, Behind, Entering
<1>18. ComparedInv'
  <2>1. SUFFICES ASSUME Trusted, Comparing, v = "none", count' = job.size
                 PROVE  \A b \in job.start .. End(job) - 1 :
                          chip.mem[b] = job.data[b - job.start + 1]
    BY <1>1, <1>3, <1>5 DEF ComparedInv, Leaving
  <2>2. /\ job.op \in {"write", "verify"} /\ pc = "advance" /\ count = job.size
        /\ job.op = "write" => Suited(job)
    BY <2>1 DEF Comparing
  <2>3. addr + ChunkLen(job, addr) = End(job)
    BY <1>2, <1>6, <2>2
  <2>4. Compared = End(job)
    BY <2>2, <2>3 DEF Compared, Before, Entering
  <2>5. verdict # "aborted"
    BY <2>2 DEF WInv, LoopInv, Leaving
  <2> QED
    BY <2>1, <2>2, <2>4, <2>5 DEF WInv, ComparedInv, Leaving
<1>19. RestoredInv'
  <2>1. SUFFICES ASSUME Orderly'
                 PROVE  /\ ~chip.busy
                        /\ pc' \in {"wrdi", "report"} => ~chip.four
                        /\ pc' = "report" => chip.aai = NoAAI
    BY <1>1 DEF RestoredInv, Leaving
  <2>2. link = "up" /\ sticky /\ clean
    BY <2>1 DEF Orderly
  <2>3. pc' \in {"wrdi", "report"} => ~chip.four
    BY <1>1, <2>2 DEF WInv, ModeInv, Trusted, InStep, Width
  <2>4. pc' = "report" => chip.aai = NoAAI
    BY <1>1, <2>2 DEF WInv, AaiInv
  <2> QED
    BY <2>1, <2>3, <2>4
<1>20. CancelInv'
  BY <1>1 DEF CancelInv, Leaving
<1> QED
  BY <1>7, <1>8, <1>10, <1>12, <1>13, <1>15, <1>16, <1>18, <1>19, <1>20 DEF WInv

\* No program frame, whatever its settings, touches a mode of the part, and a page
\* program starts no AAI sequence.
LEMMA ProgramKeepsModes ==
  ASSUME NEW j \in JobType, NEW a, chip \in Chips, NEW d \in ProgramEffect(j, a)
  PROVE  /\ d.four = chip.four /\ d.latch = chip.latch
         /\ j.type = "PAGE" => d.aai = chip.aai
<1>1. ASSUME NEW x, NEW e
      PROVE  Increment(chip, x, e).four = chip.four /\ Increment(chip, x, e).latch = chip.latch
  BY DEF Increment, Chips
<1>2. ASSUME NEW m
      PROVE  /\ [chip EXCEPT !.mem = m, !.busy = TRUE, !.wel = FALSE].four = chip.four
             /\ [chip EXCEPT !.mem = m, !.busy = TRUE, !.wel = FALSE].latch = chip.latch
             /\ [chip EXCEPT !.mem = m, !.busy = TRUE, !.wel = FALSE].aai = chip.aai
  BY DEF Chips
<1>3. CASE j.type = "PAGE"
  <2>1. \/ d = chip
        \/ \E m : d = [chip EXCEPT !.mem = m, !.busy = TRUE, !.wel = FALSE]
    BY <1>3 DEF ProgramEffect, ProgramPage
  <2> QED
    BY <1>2, <2>1
<1>4. CASE j.type # "PAGE"
  <2>1. d = chip \/ \E x, e : d = Increment(chip, x, e)
    BY <1>4 DEF ProgramEffect, ProgramFirst, ProgramNext
  <2> QED
    BY <1>1, <1>4, <2>1
<1> QED
  BY <1>3, <1>4

\* A page that is skipped is erased in the buffer, so programming it would change
\* nothing.
LEMMA SkippedIsErased ==
  ASSUME NEW j \in JobType, j.op = "write", ~Refused(j),
         NEW a \in j.start .. End(j) - 1, SkipPage(j, a),
         NEW b \in a .. a + ChunkLen(j, a) - 1
  PROVE  j.data[b - j.start + 1] = Erased
<1>1. /\ j.start \in Nat /\ a \in Nat /\ ChunkLen(j, a) \in Nat
      /\ Part(j, a) \in Seq(Byte) /\ Len(Part(j, a)) = ChunkLen(j, a)
      /\ a \in j.start .. End(j)
  BY WriteNumbers
<1>2. b - a + 1 \in 1 .. ChunkLen(j, a) /\ (a - j.start) + (b - a + 1) = b - j.start + 1
  BY <1>1
<1>3. Part(j, a)[b - a + 1] = Erased
  BY <1>1, <1>2, LenProperties DEF SkipPage
<1> QED
  BY <1>1, <1>2, <1>3, PartIs

\* What the part is when a program frame is sent.
LEMMA BeforeProgram ==
  ASSUME IInv, WInv, pc = "program"
  PROVE  /\ job.op = "write" /\ verdict # "refused" /\ ~cancel
         /\ addr \in job.start .. End(job) - 1
         /\ Suited(job) => Aligned(job, addr)
         /\ Trusted /\ link = "up" => InStep(chip, Width(job))
         /\ clean /\ job.type = "PAGE" => chip.aai = NoAAI
         /\ clean /\ Suited(job) /\ job.type # "PAGE" /\ chip.aai # NoAAI =>
              chip.aai \in job.start .. addr
         /\ clean /\ ~job.ignore => ~chip.busy
         /\ Suited(job) => job.start + count <= addr
<1>1. job.op = "write" /\ verdict # "refused"
  BY DEF IInv, OpFits, OpsAt
<1>2. addr < End(job) /\ (Suited(job) => Aligned(job, addr))
  BY <1>1 DEF WInv, LoopInv, Before
<1>3. /\ addr \in Nat /\ job.start \in Nat /\ End(job) \in job.start + 1 .. MemSize
      /\ addr \in job.start .. End(job)
  BY <1>1, LoopNumbers DEF Looping
<1>4. Trusted /\ link = "up" => InStep(chip, Width(job))
  BY <1>1 DEF WInv, ModeInv, Looping
<1>5. Frontier = addr
  BY DEF Frontier, Before
<1>6. ASSUME clean, Suited(job), job.type # "PAGE", chip.aai # NoAAI
      PROVE  chip.aai \in job.start .. addr
  <2>1. chip.aai \in job.start .. addr \/ (chip.aai = 0 /\ addr = MemSize)
    BY <1>1, <1>5, <1>6 DEF WInv, AaiInv, Before
  <2> QED
    BY <1>2, <1>3, <2>1, ChipAssumption
<1>7. ~cancel
  BY <1>1 DEF WInv, CancelInv, Leaving
<1> QED
  BY <1>1, <1>2, <1>3, <1>4, <1>5, <1>6, <1>7 DEF WInv, AaiInv, RestInv, CountInv, Before

\* A program frame, or a page that is skipped.
LEMMA ProgramKeeps ==
  ASSUME IInv, WInv, Program
  PROVE  WInv'
<1> DEFINE n == ChunkLen(job, addr)
           Took == link = "up" /\ chip' \in ProgramEffect(job, addr)
           Skipped == SkipPage(job, addr) /\ chip' = chip
<1>1. /\ UNCHANGED <<job, before, clean, addr, cancel, warned, verdict>>
      /\ pc = "program" /\ job.op = "write" /\ verdict # "refused" /\ ~cancel
      /\ addr \in job.start .. End(job) - 1
      /\ Suited(job) => Aligned(job, addr)
      /\ job \in JobType /\ ~Refused(job) /\ chip \in Chips
  BY BeforeProgram, LoopNumbers DEF Program, histVars, Looping
<1>2. /\ pc' \in {"wait", "check", "advance"}
      /\ ~job.ignore /\ pc' # "wait" => SkipPage(job, addr)
      /\ job.check /\ job.type = "PAGE" => pc' # "advance"
  BY <1>1 DEF Program, Goto, AfterProgram
<1>3. /\ n \in Nat /\ n > 0 /\ addr \in Nat /\ job.start \in Nat /\ addr < End(job)
      /\ End(job) \in Nat /\ End(job) <= MemSize /\ addr + n <= End(job) /\ count \in Int
      /\ MemSize \in Nat /\ job.start <= addr
  BY <1>1, WriteNumbers, LoopNumbers, ChipAssumption DEF Looping
<1>4. \/ Skipped /\ UNCHANGED <<sticky, link>> /\ count' = count + n
      \/ ~SkipPage(job, addr) /\ \E ok \in BOOLEAN : /\ Frame(ok, ProgramEffect(job, addr))
                              /\ count' = count + Returned(ok, job, addr)
  BY DEF Program, linkVars
<1>5. /\ sticky' = sticky
      /\ link' = "up" => link = "up"
      /\ Skipped \/ (~SkipPage(job, addr) /\ (Took \/ (chip' = chip /\ (sticky => link' # "up"))))
  <2>1. link \in {"up", "down"}
    BY DEF IInv, TypeOK
  <2> QED
    BY <1>4, <2>1, FrameIs
<1>6. /\ chip'.four = chip.four /\ chip'.latch = chip.latch
      /\ job.type = "PAGE" => chip'.aai = chip.aai
  BY <1>1, <1>5, ProgramKeepsModes
<1>7. Suited(job) =>
        /\ count' \in Int /\ count' <= count + n
        /\ count' = count + n => Skipped \/ Took
  <2>1. ASSUME Suited(job), NEW ok \in BOOLEAN
        PROVE  /\ Returned(ok, job, addr) \in Int /\ Returned(ok, job, addr) <= n
               /\ ~ok => Returned(ok, job, addr) < n
    <3>1. Len(Sent(job, addr)) = n
      BY <1>1, <2>1, SentIsPart
    <3> QED
      BY <1>3, <3>1 DEF Returned
  <2>2. ASSUME Suited(job), NEW ok \in BOOLEAN, Frame(ok, ProgramEffect(job, addr)),
               count' = count + Returned(ok, job, addr)
        PROVE  /\ count' \in Int /\ count' <= count + n
               /\ count' = count + n => Took
    BY <1>3, <2>1, <2>2, FrameIs
  <2> QED
    BY <1>3, <1>4, <2>2
<1>8. Frontier = addr /\ Frontier' = addr + n /\ (pc' # "advance" => Compared' = addr) /\ Compared = addr
  BY <1>1, <1>2 DEF Frontier, Compared, Before, Behind, Entering
<1>9. (Trusted' <=> Trusted) /\ (Comparing' <=> Comparing)
  BY <1>1, <1>5, SameRun
<1>b. /\ Trusted /\ link = "up" => InStep(chip, Width(job))
      /\ clean /\ job.type = "PAGE" => chip.aai = NoAAI
      /\ clean /\ Suited(job) /\ job.type # "PAGE" /\ chip.aai # NoAAI =>
           chip.aai \in job.start .. addr
      /\ clean /\ ~job.ignore => ~chip.busy
      /\ Suited(job) => job.start + count <= addr
  BY <1>1, BeforeProgram
<1>c. ASSUME Trusted, Suited(job), Took, NEW b \in Addr
      PROVE  /\ b < job.start \/ b >= addr + n => chip'.mem[b] = chip.mem[b]
             /\ job.type = "PAGE" /\ b < addr => chip'.mem[b] = chip.mem[b]
  BY <1>1, <1>b, <1>c, ProgramInRange DEF Trusted
<1>d. ASSUME sticky, clean, Suited(job), ~job.ignore, ~warned, Took
      PROVE  /\ \A b \in Addr :
                  /\ b < addr => chip'.mem[b] = chip.mem[b]
                  /\ b >= addr /\ b < addr + n =>
                       chip'.mem[b] = Least(chip.mem[b], job.data[b - job.start + 1])
             /\ chip'.locked = FALSE
             /\ job.type # "PAGE" => chip'.aai = (addr + n) % MemSize
  <2>1. /\ ~chip.locked
        /\ job.type = "PAGE" \/ addr = job.start => chip.wel /\ chip.aai = NoAAI
        /\ job.type # "PAGE" /\ addr # job.start => chip.aai = addr
    BY <1>1, <1>b, <1>d DEF WInv, ArmedInv, Before
  <2>2. ~chip.busy /\ InStep(chip, Width(job))
    BY <1>b, <1>d DEF Trusted
  <2> QED
    BY <1>1, <1>d, <2>1, <2>2, ProgramIsExact
<1> HIDE DEF n
<1>10. LoopInv'
  BY <1>1, <1>2, <1>3 DEF WInv, LoopInv, Leaving, Entering, Fetching
<1>11. RangeInv'
  <2>1. SUFFICES ASSUME Trusted, Suited(job), NEW b \in Addr, b < job.start \/ b >= addr + n
                 PROVE  chip'.mem[b] = before[b]
    BY <1>1, <1>8, <1>9 DEF RangeInv
  <2>2. b \in Nat
    BY ChipAssumption DEF Addr
  <2>3. chip.mem[b] = before[b]
    BY <1>1, <1>3, <1>8, <2>1, <2>2 DEF WInv, RangeInv
  <2> QED
    BY <1>5, <1>c, <2>1, <2>3
<1>12. AaiInv'
  <2>1. SUFFICES ASSUME clean, Suited(job), job.type # "PAGE", chip'.aai # NoAAI
                 PROVE  chip'.aai \in job.start .. addr + n \/ (chip'.aai = 0 /\ addr + n = MemSize)
    BY <1>1, <1>2, <1>6, <1>8, <1>b DEF AaiInv, Behind, Entering
  <2>2. CASE chip' = chip
    BY <1>3, <1>b, <2>1, <2>2
  <2>3. CASE chip' # chip /\ Took
    <3>1. PICK x \in job.start .. addr : chip'.aai = (x + n) % MemSize
      <4>1. ~Wide(job)
        BY <1>1, <2>1 DEF Suited
      <4>2. \E x \in job.start .. addr :
              chip'.aai = IF job.type = "PAGE" THEN chip.aai ELSE (x + n) % MemSize
        BY <1>1, <1>b, <2>1, <2>3, ProgramRuns DEF n
      <4> QED
        BY <2>1, <4>2
    <3>2. x + n \in Nat /\ x + n <= MemSize /\ x + n <= addr + n /\ job.start <= x + n
          /\ addr + n <= MemSize
      BY <1>3
    <3>3. CASE x + n < MemSize
      <4>1. (x + n) % MemSize = x + n
        BY <3>2, <3>3, Remainder, ChipAssumption
      <4> QED
        BY <1>3, <3>1, <3>2, <4>1
    <3>4. CASE x + n = MemSize
      <4>1. (x + n) % MemSize = 0
        BY <3>4, ChipAssumption
      <4> QED
        BY <1>3, <3>1, <3>2, <3>4, <4>1
    <3> QED
      BY <1>3, <3>2, <3>3, <3>4
  <2> QED
    BY <1>5, <2>2, <2>3
<1>13. ModeInv'
  BY <1>1, <1>2, <1>5, <1>6, <1>9, <1>b DEF ModeInv, InStep
<1>14. RestInv'
  BY <1>1, <1>2, <1>5, <1>b DEF RestInv, Entering
<1>15. CountInv'
  <2>1. verdict = "none"
    BY <1>1 DEF WInv, LoopInv, Leaving
  <2>2. Suited(job) => job.start + count' <= addr + n
    BY <1>3, <1>7, <1>b
  <2> QED
    BY <1>1, <1>8, <2>1, <2>2 DEF CountInv
<1>16. ArmedInv'
  <2>1. SUFFICES ASSUME sticky, clean, Suited(job), ~job.ignore, ~warned, link' = "up"
                 PROVE  /\ ~chip'.locked
                        /\ job.type # "PAGE" => chip'.aai = (addr + n) % MemSize
    BY <1>1, <1>2, <1>5, <1>8 DEF ArmedInv, Before, Entering
  <2>2. CASE Skipped
    BY <1>1, <1>5, <2>1, <2>2 DEF WInv, ArmedInv, Before, SkipPage
  <2>3. CASE Took
    BY <1>d, <2>1, <2>3
  <2> QED
    BY <1>5, <2>1, <2>2, <2>3
<1>17. ExactInv'
  <2>a. SUFFICES ASSUME sticky, clean, Suited(job), ~job.ignore, ~warned,
                        job.start + count' = addr + n
                 PROVE  \A b \in job.start .. (addr + n) - 1 :
                          chip'.mem[b] = Least(before[b], job.data[b - job.start + 1])
    BY <1>1, <1>5, <1>8 DEF ExactInv
  <2>1. SUFFICES ASSUME sticky, clean, Suited(job), ~job.ignore, ~warned,
                        job.start + count' = addr + n,
                        NEW b \in job.start .. (addr + n) - 1
                 PROVE  chip'.mem[b] = Least(before[b], job.data[b - job.start + 1])
    BY <2>a
  <2>2. count' = count + n /\ job.start + count = addr
    BY <1>3, <1>7, <1>b, <2>1
  <2>3. b \in Addr /\ b \in Nat /\ b < addr + n
    BY <1>3, <2>1 DEF Addr
  <2>4. b < addr => chip.mem[b] = Least(before[b], job.data[b - job.start + 1])
    BY <1>1, <1>3, <1>8, <2>1, <2>2, <2>3 DEF WInv, ExactInv
  <2>5. b >= addr => chip.mem[b] = before[b]
    BY <1>1, <1>3, <1>8, <2>1, <2>3 DEF WInv, RangeInv, Trusted
  <2>6. CASE Took
    <3>1. CASE b < addr
      BY <1>d, <2>1, <2>3, <2>4, <2>6, <3>1
    <3>2. CASE b >= addr
      <4>1. chip'.mem[b] = Least(chip.mem[b], job.data[b - job.start + 1])
        BY <1>d, <2>1, <2>3, <2>6, <3>2
      <4> QED
        BY <2>5, <3>2, <4>1
    <3> QED
      BY <1>3, <2>3, <3>1, <3>2
  <2>7. CASE Skipped
    <3>1. b >= addr => job.data[b - job.start + 1] = Erased
      BY <1>1, <1>3, <2>1, <2>3, <2>7, SkippedIsErased DEF n
    <3>2. before[b] \in {0, 1}
      BY <2>3 DEF IInv, TypeOK, Byte
    <3> QED
      BY <1>3, <2>3, <2>4, <2>5, <2>7, <3>1, <3>2 DEF Least, Erased
  <2> QED
    BY <1>7, <2>1, <2>2, <2>6, <2>7
<1>18. ComparedInv'
  <2>1. SUFFICES ASSUME Trusted, Comparing, NEW b \in job.start .. addr - 1
                 PROVE  chip'.mem[b] = job.data[b - job.start + 1]
    BY <1>1, <1>2, <1>8, <1>9 DEF ComparedInv, Comparing
  <2>2. Suited(job) /\ job.type = "PAGE" /\ b \in Addr /\ b < addr
    BY <1>1, <1>3, <2>1 DEF Comparing, Addr
  <2>3. chip.mem[b] = job.data[b - job.start + 1]
    <3>1. verdict = "none"
      BY <1>1 DEF WInv, LoopInv, Leaving
    <3> QED
      BY <1>1, <1>8, <2>1, <3>1 DEF WInv, ComparedInv, Leaving
  <2> QED
    BY <1>5, <1>c, <2>1, <2>2, <2>3
<1>19. RestoredInv'
  BY <1>1, <1>2 DEF RestoredInv, Leaving, Looping
<1>20. CancelInv'
  BY <1>1 DEF CancelInv
<1> QED
  BY <1>10, <1>11, <1>12, <1>13, <1>14, <1>15, <1>16, <1>17, <1>18, <1>19, <1>20 DEF WInv

\* While the program waits nothing changes but the link, and that the part may
\* finish its cycle.
LEMMA WaitingKeeps ==
  ASSUME IInv, WInv,
         UNCHANGED <<pc, job, before, clean, addr, count, cancel, warned, verdict, sticky>>,
         link' = "up" => link = "up", chip' = chip \/ chip' = Finish(chip)
  PROVE  WInv'
<1>1. /\ chip'.mem = chip.mem /\ chip'.four = chip.four /\ chip'.aai = chip.aai
      /\ chip'.latch = chip.latch /\ chip'.wel = chip.wel /\ chip'.locked = chip.locked
      /\ ~chip.busy => ~chip'.busy
  BY DEF Finish, IInv, TypeOK, Chips
<1>2. (Trusted' <=> Trusted) /\ (Comparing' <=> Comparing)
  BY SameRun
<1>3. Frontier' = Frontier /\ Compared' = Compared
  BY DEF Frontier, Compared
<1>4. Orderly' => Orderly
  BY DEF Orderly
<1>10. LoopInv'
  BY DEF WInv, LoopInv
<1>11. RangeInv'
  BY <1>1, <1>2, <1>3 DEF WInv, RangeInv
<1>12. AaiInv'
  BY <1>1, <1>3 DEF WInv, AaiInv
<1>13. ModeInv'
  BY <1>1, <1>2 DEF WInv, ModeInv, InStep
<1>14. RestInv'
  BY <1>1 DEF WInv, RestInv
<1>15. CountInv'
  BY <1>3 DEF WInv, CountInv
<1>16. ArmedInv'
  BY <1>1, <1>3 DEF WInv, ArmedInv
<1>17. ExactInv'
  BY <1>1, <1>3 DEF WInv, ExactInv
<1>18. ComparedInv'
  BY <1>1, <1>2, <1>3 DEF WInv, ComparedInv
<1>19. RestoredInv'
  BY <1>1, <1>4 DEF WInv, RestoredInv
<1>20. CancelInv'
  BY DEF WInv, CancelInv
<1> QED
  BY <1>10, <1>11, <1>12, <1>13, <1>14, <1>15, <1>16, <1>17, <1>18, <1>19, <1>20 DEF WInv

\* A chunk that was read from an idle part in step with the loop and equals its
\* piece of the buffer is what the part holds.
LEMMA ChunkCompared ==
  ASSUME IInv, job.op \in {"write", "verify"}, verdict # "refused", addr < End(job),
         Quiet(chip), InStep(chip, Width(job)),
         NEW data \in Buffer(TRUE, job, addr), data = Part(job, addr),
         NEW b \in addr .. addr + ChunkLen(job, addr) - 1
  PROVE  chip.mem[b] = job.data[b - job.start + 1]
<1>1. /\ job \in JobType /\ ~Refused(job) /\ chip \in Chips
      /\ job.start \in Nat /\ addr \in Nat /\ addr \in job.start .. End(job)
      /\ End(job) \in Nat /\ ChunkLen(job, addr) \in Nat /\ job.op \in Looping
  BY LoopNumbers DEF Looping
<1>2. addr \in job.start .. End(job) - 1
  BY <1>1
<1>3. data \in Answers(chip, Width(job), addr, ChunkLen(job, addr))
  BY DEF Buffer
<1>4. \A k \in 1 .. ChunkLen(job, addr) : data[k] = chip.mem[addr + k - 1]
  BY <1>1, <1>2, <1>3, AnswerIsContents
<1>5. /\ b - addr + 1 \in 1 .. ChunkLen(job, addr)
      /\ addr + (b - addr + 1) - 1 = b
      /\ (addr - job.start) + (b - addr + 1) = b - job.start + 1
  BY <1>1
<1>6. data[b - addr + 1] = job.data[b - job.start + 1]
  BY <1>1, <1>5, PartIs
<1> QED
  BY <1>4, <1>5, <1>6

\* The page read back.
LEMMA CheckKeeps ==
  ASSUME IInv, WInv, Check
  PROVE  WInv'
<1>1. /\ UNCHANGED <<job, before, clean, addr, count, cancel, warned>>
      /\ pc = "check" /\ job.op = "write" /\ job.op \in Looping /\ verdict # "refused"
      /\ verdict = "none"
  BY DEF Check, histVars, IInv, OpFits, OpsAt, Looping, WInv, LoopInv, Leaving
<1>a. PICK ok \in BOOLEAN :
        \E data \in Buffer(ok, job, addr) :
          /\ Frame(ok, {chip})
          /\ \/ /\ Got(ok, Len(data)) = Len(data) /\ data = Part(job, addr)
                /\ pc' = "advance" /\ verdict' = verdict
             \/ Leave("aborted")
  BY DEF Check, Goto
<1>2. PICK data \in Buffer(ok, job, addr) :
          /\ Frame(ok, {chip})
          /\ \/ /\ Got(ok, Len(data)) = Len(data) /\ data = Part(job, addr)
                /\ pc' = "advance" /\ verdict' = verdict
             \/ Leave("aborted")
  BY <1>a
<1>3. /\ chip' = chip /\ sticky' = sticky
      /\ ok => link = "up"
      /\ link' = "up" => link = "up"
  BY <1>2, FrameIs
<1>4. CASE Leave("aborted")
  <2>1. Orderly' => ~chip.busy
    BY <1>1 DEF Orderly, WInv, RestInv
  <2> QED
    BY <1>1, <1>3, <1>4, <2>1, LeaveKeeps
<1>5. CASE Got(ok, Len(data)) = Len(data) /\ data = Part(job, addr)
             /\ pc' = "advance" /\ verdict' = verdict
  <2>1. /\ job \in JobType /\ chip \in Chips /\ addr \in job.start .. End(job)
        /\ addr \in Nat /\ job.start \in Nat /\ End(job) \in Nat
        /\ ChunkLen(job, addr) \in Nat
    BY <1>1, LoopNumbers
  <2>2. Len(data) = ChunkLen(job, addr)
    BY <2>1, BufferFits
  <2>3. ok /\ link = "up"
    BY <1>3, <1>5, <2>1, <2>2 DEF Got
  <2>4. addr < End(job) /\ (Suited(job) => Aligned(job, addr))
    BY <1>1 DEF WInv, LoopInv, Behind
  <2>5. Frontier' = Frontier /\ Compared = addr /\ Compared' = addr + ChunkLen(job, addr)
    BY <1>1, <1>5 DEF Frontier, Compared, Before, Behind, Entering
  <2>6. (Trusted' <=> Trusted) /\ (Comparing' <=> Comparing)
    BY <1>1, <1>3, SameRun
  <2>10. LoopInv'
    BY <1>1, <1>5, <2>4 DEF WInv, LoopInv, Leaving, Entering, Fetching
  <2>11. RangeInv' /\ ExactInv'
    BY <1>1, <1>3, <2>5, FrontierMoves
  <2>12. AaiInv'
    BY <1>1, <1>3, <1>5, <2>5 DEF WInv, AaiInv, Behind, Entering
  <2>13. ModeInv'
    BY <1>1, <1>3, <1>5, <2>6 DEF WInv, ModeInv
  <2>14. RestInv'
    BY <1>1, <1>3, <1>5 DEF WInv, RestInv, Entering
  <2>15. CountInv'
    BY <1>1, <1>5, <2>5 DEF WInv, CountInv, Behind
  <2>16. ArmedInv'
    BY <1>1, <1>3, <1>5, <2>5 DEF WInv, ArmedInv, Behind
  <2>18. ComparedInv'
    <3>1. SUFFICES ASSUME Trusted, Comparing
                   PROVE  \A b \in job.start .. (addr + ChunkLen(job, addr)) - 1 :
                            chip.mem[b] = job.data[b - job.start + 1]
      BY <1>1, <1>3, <2>5, <2>6 DEF ComparedInv
    <3>2. SUFFICES ASSUME NEW b \in job.start .. (addr + ChunkLen(job, addr)) - 1
                   PROVE  chip.mem[b] = job.data[b - job.start + 1]
      OBVIOUS
    <3>3. CASE b < addr
      <4>1. b \in job.start .. addr - 1
        BY <2>1, <3>3
      <4> QED
        BY <1>1, <2>5, <3>1, <4>1 DEF WInv, ComparedInv, Leaving
    <3>4. CASE b >= addr
      <4>1. b \in addr .. addr + ChunkLen(job, addr) - 1
        BY <2>1, <3>4
      <4>2. Quiet(chip)
        BY <1>1, <3>1 DEF WInv, RestInv, AaiInv, Comparing, Trusted, Quiet, Listening
      <4>3. InStep(chip, Width(job))
        BY <1>1, <2>3, <3>1 DEF WInv, ModeInv
      <4>4. data \in Buffer(TRUE, job, addr)
        BY <2>3
      <4> QED
        BY <1>1, <1>5, <2>4, <4>1, <4>2, <4>3, <4>4, ChunkCompared
    <3> QED
      BY <2>1, <3>3, <3>4
  <2>19. RestoredInv'
    BY <1>1, <1>5 DEF RestoredInv, Leaving
  <2>20. CancelInv'
    BY <1>1 DEF WInv, CancelInv, Leaving
  <2> QED
    BY <2>10, <2>11, <2>12, <2>13, <2>14, <2>15, <2>16, <2>18, <2>19, <2>20 DEF WInv
<1> QED
  BY <1>2, <1>4, <1>5

\* WaitChipReady: only a ready part lets a write go on, and only a lost frame or
\* Cancel leaves a busy part behind.
LEMMA WaitReadyKeeps ==
  ASSUME IInv, WInv, WaitReady
  PROVE  WInv'
<1>1. /\ UNCHANGED <<job, before, clean, addr, count, warned>>
      /\ pc = "wait" /\ job.op \in {"write", "erase", "unlock"} /\ verdict # "refused"
      /\ verdict = "none" /\ ~cancel
  BY DEF WaitReady, histVars, IInv, OpFits, OpsAt, WInv, LoopInv, CancelInv, Leaving
<1>2. PICK ok \in BOOLEAN :
        /\ Frame(ok, {chip})
        /\ \/ ~ok /\ StopWaiting /\ cancel' = cancel
           \/ ok /\ ~chip.busy /\ Ready /\ cancel' = cancel
           \/ ok /\ chip.busy /\ cancel' /\ StopWaiting
           \/ ok /\ chip.busy /\ ~cancel' /\ UNCHANGED <<pc, verdict>>
  BY DEF WaitReady
<1>3. /\ chip' = chip /\ sticky' = sticky
      /\ link' = "up" => link = "up" /\ (sticky => ok)
  BY <1>2, FrameIs
<1>4. CASE StopWaiting /\ (~ok \/ cancel')
  <2>1. verdict' = "aborted"
    BY <1>4 DEF StopWaiting, Leave
  <2>2. ~Orderly'
    BY <1>3, <1>4, <2>1 DEF Orderly
  <2>3. CASE job.op = "write"
    <3>1. Leave("aborted")
      BY <1>4, <2>3 DEF StopWaiting
    <3> QED
      BY <1>1, <1>3, <2>2, <2>3, <3>1, LeaveKeeps DEF Looping
  <2>4. CASE job.op # "write"
    <3>1. pc' = "close" /\ job.op \notin Looping
      BY <1>1, <1>4, <2>4 DEF StopWaiting, Goto, Looping
    <3>2. LoopInv'
      BY <1>1, <2>4, <3>1 DEF LoopInv, Entering, Fetching, Looping
    <3>3. RangeInv' /\ AaiInv'
      BY <1>1, <1>3, <2>4 DEF WInv, RangeInv, AaiInv
    <3>4. ModeInv' /\ RestInv' /\ CountInv' /\ ArmedInv' /\ ExactInv' /\ ComparedInv'
      BY <1>1, <2>1, <2>4, <3>1
      DEF ModeInv, RestInv, CountInv, ArmedInv, ExactInv, ComparedInv, Entering, Looping
    <3>5. RestoredInv' /\ CancelInv'
      BY <2>2, <3>1 DEF RestoredInv, CancelInv
    <3> QED
      BY <3>2, <3>3, <3>4, <3>5 DEF WInv
  <2> QED
    BY <2>3, <2>4
<1>5. CASE ok /\ ~chip.busy /\ Ready /\ cancel' = cancel /\ job.op = "write"
  <2>1. /\ pc' = AfterProgram(job) /\ verdict' = verdict /\ pc' \in {"check", "advance"}
        /\ job.check /\ job.type = "PAGE" => pc' = "check"
    BY <1>5 DEF Ready, Goto, AfterProgram
  <2>2. addr < End(job) /\ (Suited(job) => Aligned(job, addr))
    BY <1>1, <1>5 DEF WInv, LoopInv, Behind
  <2>3. /\ Frontier' = Frontier /\ Compared = addr
        /\ Comparing => Compared' = addr
    BY <1>1, <1>5, <2>1 DEF Frontier, Compared, Comparing, Before, Behind, Entering
  <2>4. (Trusted' <=> Trusted) /\ (Comparing' <=> Comparing)
    BY <1>1, <1>3, SameRun
  <2>10. LoopInv'
    BY <1>1, <1>5, <2>1, <2>2 DEF WInv, LoopInv, Entering, Fetching
  <2>11. RangeInv' /\ ExactInv'
    BY <1>1, <1>3, <2>3, FrontierMoves
  <2>12. AaiInv'
    BY <1>1, <1>3, <1>5, <2>1, <2>3 DEF WInv, AaiInv, Behind, Entering
  <2>13. ModeInv'
    BY <1>1, <1>3, <1>5, <2>1, <2>4 DEF WInv, ModeInv
  <2>14. RestInv'
    BY <1>3, <1>5, <2>1 DEF RestInv
  <2>15. CountInv'
    BY <1>1, <1>5, <2>1, <2>3 DEF WInv, CountInv, Behind
  <2>16. ArmedInv'
    BY <1>1, <1>3, <1>5, <2>1, <2>3 DEF WInv, ArmedInv, Before, Behind, Entering
  <2>18. ComparedInv'
    BY <1>1, <1>3, <2>1, <2>3, <2>4 DEF WInv, ComparedInv, Leaving
  <2>19. RestoredInv'
    BY <1>1, <2>1 DEF RestoredInv, Leaving
  <2>20. CancelInv'
    BY <1>1, <1>5 DEF CancelInv
  <2> QED
    BY <2>10, <2>11, <2>12, <2>13, <2>14, <2>15, <2>16, <2>18, <2>19, <2>20 DEF WInv
<1>6. CASE ok /\ ~chip.busy /\ Ready /\ cancel' = cancel /\ job.op # "write"
  <2>1. /\ pc' \in {"close", "show"} /\ verdict' \in {"none", "done"}
        /\ pc' = "show" => verdict' = "none"
        /\ job.op \notin Looping
    BY <1>1, <1>6 DEF Ready, Goto, Looping
  <2>2. LoopInv'
    BY <1>1, <1>6, <2>1 DEF LoopInv, Entering, Fetching
  <2>3. RangeInv' /\ AaiInv'
    BY <1>1, <1>3, <1>6 DEF WInv, RangeInv, AaiInv
  <2>4. ModeInv' /\ RestInv' /\ CountInv' /\ ArmedInv' /\ ExactInv' /\ ComparedInv'
    BY <1>1, <2>1
    DEF ModeInv, RestInv, CountInv, ArmedInv, ExactInv, ComparedInv, Comparing, Entering, Looping
  <2>5. RestoredInv'
    <3>1. SUFFICES ASSUME Orderly'
                   PROVE  ~chip.busy /\ ~chip.four /\ chip.aai = NoAAI
      BY <1>1, <1>3, <1>6, <2>1 DEF RestoredInv, Leaving
    <3>2. Orderly
      BY <1>1, <1>3, <3>1 DEF Orderly
    <3> QED
      BY <1>1, <1>6, <2>1, <3>2 DEF WInv, RestoredInv, AaiInv, Orderly
  <2>6. CancelInv'
    BY <1>1, <1>6 DEF CancelInv
  <2> QED
    BY <2>2, <2>3, <2>4, <2>5, <2>6 DEF WInv
<1>7. CASE ok /\ chip.busy /\ ~cancel' /\ UNCHANGED <<pc, verdict>>
  <2>1. cancel' = cancel
    <3>1. cancel \in BOOLEAN /\ cancel' \in BOOLEAN
      <4>1. IInv'
        BY WaitReadyFits
      <4> QED
        BY <4>1 DEF IInv, TypeOK
    <3> QED
      BY <1>1, <1>7, <3>1
  <2> QED
    BY <1>1, <1>3, <1>7, <2>1, WaitingKeeps
<1> QED
  BY <1>2, <1>4, <1>5, <1>6, <1>7

\* One chunk of a read or a verify.
LEMMA ReadBodyKeeps ==
  ASSUME IInv, WInv, ReadBody
  PROVE  WInv'
<1>1. /\ UNCHANGED <<job, before, clean, addr, cancel, warned>>
      /\ pc = "read" /\ job.op \in {"read", "verify"} /\ job.op \in Looping
      /\ verdict = "none"
  BY DEF ReadBody, histVars, IInv, OpFits, OpsAt, Looping, WInv, LoopInv, Leaving
<1>2. /\ job \in JobType /\ chip \in Chips /\ addr \in job.start .. End(job)
      /\ addr \in Nat /\ job.start \in Nat /\ End(job) \in Nat /\ count \in Int
      /\ ChunkLen(job, addr) \in Nat
  BY <1>1, LoopNumbers
<1>a. PICK ok \in BOOLEAN :
        \E data \in Buffer(ok, job, addr) : Frame(ok, {chip}) /\ Take(ok, data)
  BY DEF ReadBody
<1>3. PICK data \in Buffer(ok, job, addr) : Frame(ok, {chip}) /\ Take(ok, data)
  BY <1>a
<1>4. /\ chip' = chip /\ sticky' = sticky
      /\ ok => link = "up"
      /\ link' = "up" => link = "up"
  BY <1>3, FrameIs
<1>5. Len(data) = ChunkLen(job, addr)
  BY <1>2, BufferFits
<1>6. \/ Leave("none") /\ job.op = "read"
      \/ Leave("aborted")
      \/ /\ ok /\ count' = count + ChunkLen(job, addr)
         /\ job.op = "verify" => data = Part(job, addr)
         /\ pc' = "advance" /\ verdict' = verdict
  BY <1>1, <1>2, <1>3, <1>5 DEF Take, Got, Goto
<1>7. clean => ~chip.busy /\ chip.aai = NoAAI
  BY <1>1 DEF WInv, RestInv, AaiInv
<1>8. CASE (Leave("none") /\ job.op = "read") \/ Leave("aborted")
  <2>1. Orderly' => ~chip.busy
    BY <1>1, <1>7 DEF Orderly
  <2>2. PICK v \in {"none", "aborted"} : Leave(v) /\ (v = "none" => job.op = "read")
    BY <1>8
  <2> QED
    BY <1>1, <1>4, <2>1, <2>2, LeaveKeeps
<1>9. CASE /\ ok /\ count' = count + ChunkLen(job, addr)
           /\ job.op = "verify" => data = Part(job, addr)
           /\ pc' = "advance" /\ verdict' = verdict
  <2>1. job.op = "verify" => addr < End(job)
    BY <1>1 DEF WInv, LoopInv, Fetching
  <2>2. (Trusted' <=> Trusted) /\ (Comparing' <=> Comparing)
    BY <1>1, <1>4, SameRun
  <2>3. Compared = addr /\ Compared' = addr + ChunkLen(job, addr)
    BY <1>1, <1>9 DEF Compared, Before, Entering
  <2>10. LoopInv'
    BY <1>1, <1>9, <2>1 DEF WInv, LoopInv, Leaving, Entering, Fetching
  <2>11. RangeInv' /\ AaiInv'
    BY <1>1, <1>4 DEF WInv, RangeInv, AaiInv
  <2>13. ModeInv'
    BY <1>1, <1>4, <1>9, <2>2 DEF WInv, ModeInv
  <2>14. RestInv'
    BY <1>1, <1>4, <1>7 DEF RestInv
  <2>15. CountInv'
    <3>1. job.op = "verify" => job.start + count = addr
      BY <1>1 DEF WInv, CountInv
    <3>2. job.op = "verify" => job.start + count' = addr + ChunkLen(job, addr)
      BY <1>2, <1>9, <3>1
    <3> QED
      BY <1>1, <1>9, <3>2 DEF CountInv
  <2>16. ArmedInv' /\ ExactInv'
    BY <1>1 DEF ArmedInv, ExactInv
  <2>18. ComparedInv'
    <3>1. SUFFICES ASSUME Trusted, Comparing
                   PROVE  \A b \in job.start .. (addr + ChunkLen(job, addr)) - 1 :
                            chip.mem[b] = job.data[b - job.start + 1]
      BY <1>1, <1>4, <2>2, <2>3 DEF ComparedInv
    <3>2. SUFFICES ASSUME NEW b \in job.start .. (addr + ChunkLen(job, addr)) - 1
                   PROVE  chip.mem[b] = job.data[b - job.start + 1]
      OBVIOUS
    <3>3. CASE b < addr
      <4>1. b \in job.start .. addr - 1
        BY <1>2, <3>3
      <4> QED
        BY <1>1, <2>3, <3>1, <4>1 DEF WInv, ComparedInv, Leaving
    <3>4. CASE b >= addr
      <4>1. b \in addr .. addr + ChunkLen(job, addr) - 1
        BY <1>2, <3>4
      <4>2. Quiet(chip) /\ InStep(chip, Width(job))
        BY <1>1, <1>4, <1>7, <1>9, <3>1 DEF WInv, ModeInv, Trusted, Quiet, Listening
      <4>3. job.op = "verify" /\ data = Part(job, addr) /\ data \in Buffer(TRUE, job, addr)
        BY <1>1, <1>9, <3>1 DEF Comparing
      <4> QED
        BY <1>1, <2>1, <4>1, <4>2, <4>3, ChunkCompared
    <3> QED
      BY <1>2, <3>3, <3>4
  <2>19. RestoredInv'
    BY <1>1, <1>9 DEF RestoredInv, Leaving
  <2>20. CancelInv'
    BY <1>1 DEF WInv, CancelInv, Leaving
  <2> QED
    BY <2>10, <2>11, <2>13, <2>14, <2>15, <2>16, <2>18, <2>19, <2>20 DEF WInv
<1> QED
  BY <1>6, <1>8, <1>9

\* The end of a loop body: out of the loop, or to the next chunk.
LEMMA AdvanceKeeps ==
  ASSUME IInv, WInv, Advance
  PROVE  WInv'
<1>1. /\ UNCHANGED <<chip, sticky, link, job, before, clean, count, warned>>
      /\ pc = "advance" /\ job.op \in Looping /\ verdict # "refused" /\ verdict = "none"
      /\ addr' = addr + ChunkLen(job, addr)
  BY DEF Advance, linkVars, histVars, IInv, OpFits, OpsAt, Looping, WInv, LoopInv, Leaving
<1>2. CASE LoopEnds(job, addr', cancel')
  <2>1. Leave("none")
    BY <1>2 DEF Advance
  <2>2. Orderly' => ~chip.busy
    BY <1>1 DEF Orderly, WInv, RestInv
  <2> QED
    BY <1>1, <2>1, <2>2, LeaveKeeps
<1>3. CASE ~LoopEnds(job, addr', cancel')
  <2>1. /\ ~cancel' /\ verdict' = verdict
        /\ pc' = (IF job.op = "write" THEN LoopHead(job, addr') ELSE "read")
    BY <1>3 DEF Advance, LoopEnds, Goto
  <2>2. /\ job \in JobType /\ ~Refused(job)
        /\ job.start \in Nat /\ addr \in Nat /\ addr \in job.start .. End(job)
        /\ End(job) \in job.start + 1 .. MemSize
        /\ ChunkLen(job, addr) \in Nat /\ count \in Int
    BY <1>1, LoopNumbers
  <2>3. addr' \in Nat /\ addr' < End(job)
    BY <1>1, <1>3, <2>2, ChipAssumption DEF LoopEnds
  <2>4. addr < End(job) /\ ChunkLen(job, addr) > 0 /\ addr' # job.start
    <3>1. addr < End(job)
      BY <1>1, <2>2, <2>3, ChipAssumption
    <3> QED
      BY <1>1, <2>2, <3>1, ChunkFits
  <2>5. /\ job.op = "write" /\ job.type = "PAGE" => pc' = "wren"
        /\ job.op = "write" /\ job.type # "PAGE" => pc' = "program"
        /\ job.op # "write" => pc' = "read"
    BY <2>1, <2>4 DEF LoopHead
  <2>6. job.op = "write" /\ Suited(job) => Aligned(job, addr')
    <3>1. SUFFICES ASSUME job.op = "write", Suited(job) PROVE Aligned(job, addr')
      OBVIOUS
    <3>2. Aligned(job, addr)
      BY <1>1, <3>1 DEF WInv, LoopInv, Behind
    <3>3. addr \in job.start .. End(job) - 1
      BY <2>2, <2>4
    <3> QED
      BY <1>1, <2>2, <2>3, <3>1, <3>2, <3>3, NextIsAligned
  <2>7. /\ job.op = "write" => Frontier = addr' /\ Frontier' = addr'
        /\ Compared = addr' /\ Compared' = addr'
    BY <1>1, <2>5 DEF Frontier, Compared, Before, Behind, Entering
  <2>8. (Trusted' <=> Trusted) /\ (Comparing' <=> Comparing)
    BY <1>1, SameRun
  <2>10. LoopInv'
    BY <1>1, <2>3, <2>5, <2>6, <2>1 DEF LoopInv, Before, Behind, Entering
  <2>11. RangeInv' /\ ExactInv'
    <3>1. CASE job.op = "write"
      BY <1>1, <2>7, <3>1, FrontierMoves
    <3>2. CASE job.op # "write"
      BY <1>1, <3>2 DEF WInv, RangeInv, ExactInv
    <3> QED
      BY <3>1, <3>2
  <2>12. AaiInv'
    BY <1>1, <2>5, <2>7 DEF WInv, AaiInv, Before, Behind, Entering
  <2>13. ModeInv'
    BY <1>1, <2>5, <2>8 DEF WInv, ModeInv
  <2>14. RestInv'
    BY <1>1, <2>5 DEF WInv, RestInv, Entering
  <2>15. CountInv'
    BY <1>1, <2>1, <2>5, <2>7 DEF WInv, CountInv, Before, Behind, Entering
  <2>16. ArmedInv'
    <3>1. addr' % MemSize = addr'
      <4>1. /\ MemSize \in Nat \ {0} /\ addr' \in Nat
            /\ addr' < MemSize
        BY <2>2, <2>3, ChipAssumption
      <4> QED
        BY <4>1, Remainder
    <3>2. ASSUME job.op = "write", sticky, clean, Suited(job), ~job.ignore, ~warned, link = "up"
          PROVE  /\ ~chip.locked
                 /\ job.type # "PAGE" => chip.aai = addr'
      BY <1>1, <2>7, <3>1, <3>2 DEF WInv, ArmedInv, Behind
    <3> QED
      BY <1>1, <2>4, <2>5, <3>2 DEF ArmedInv, Behind
  <2>18. ComparedInv'
    BY <1>1, <2>1, <2>5, <2>7, ComparedStays DEF Leaving
  <2>19. RestoredInv'
    BY <1>1, <2>5 DEF RestoredInv, Leaving
  <2>20. CancelInv'
    BY <2>1 DEF CancelInv
  <2> QED
    BY <2>10, <2>11, <2>12, <2>13, <2>14, <2>15, <2>16, <2>18, <2>19, <2>20 DEF WInv
<1> QED
  BY <1>2, <1>3

\* The line after the loop: a byte count that is complete has everything behind it.
LEMMA ReportKeeps ==
  ASSUME IInv, WInv, Report
  PROVE  WInv'
<1>1. /\ UNCHANGED <<chip, sticky, link, job, before, clean, addr, count, cancel, warned>>
      /\ pc = "report" /\ pc' = "close" /\ job.op \in Looping /\ verdict # "refused"
      /\ verdict' = IF verdict = "aborted" THEN "aborted"
                    ELSE IF count = Expected(job) THEN "done" ELSE "wrong"
  BY DEF Report, Goto, linkVars, histVars, IInv, OpFits, OpsAt, Looping
<1>2. Frontier' = Frontier /\ Compared' = Compared
  BY <1>1 DEF Frontier, Compared, Before, Behind, Entering
<1>3. Orderly' => Orderly
  BY <1>1 DEF Orderly
<1>10. LoopInv'
  BY <1>1 DEF LoopInv, Before, Behind, Entering, Fetching
<1>11. RangeInv' /\ ExactInv'
  BY <1>1, <1>2, FrontierMoves
<1>12. AaiInv'
  BY <1>1 DEF WInv, AaiInv, Before, Behind, Entering
<1>13. ModeInv' /\ RestInv' /\ ArmedInv'
  BY <1>1 DEF ModeInv, RestInv, ArmedInv, Before, Behind, Entering
<1>15. CountInv'
  BY <1>1 DEF CountInv, Expected, Before, Behind, Entering
<1>18. ComparedInv'
  BY <1>1, <1>2, ComparedStays DEF Leaving
<1>19. RestoredInv'
  BY <1>1, <1>3 DEF WInv, RestoredInv, Leaving
<1>20. CancelInv'
  BY <1>1 DEF CancelInv
<1> QED
  BY <1>10, <1>11, <1>12, <1>13, <1>15, <1>18, <1>19, <1>20 DEF WInv

\* The end of the handler, which for a checked AAI write is the start of a verify.
LEMMA CloseKeeps ==
  ASSUME IInv, WInv, Close
  PROVE  WInv'
<1>1. UNCHANGED <<chip, sticky, link, cancel, warned>> /\ pc = "close"
  BY DEF Close, linkVars
<1>2. CASE VerifyAfter(job) /\ verdict # "refused"
  <2>1. job \in JobType /\ job.op = "write" /\ ~Refused(job)
    BY <1>2 DEF VerifyAfter, IInv, TypeOK, LoopSound, Looping
  <2>2. /\ job' = [job EXCEPT !.op = "verify"]
        /\ pc' = (IF Wide(job) THEN "en_wren" ELSE "read")
        /\ addr' = job.start /\ count' = 0 /\ verdict' = "none"
        /\ before' = chip.mem /\ clean' = Pristine(chip)
    BY <1>2 DEF Close, Goto
  <2>3. /\ job' \in JobType /\ job'.op = "verify" /\ job'.start = job.start
        /\ job'.size = job.size
    BY <2>1, <2>2 DEF JobType
  <2>4. /\ End(job') = End(job) /\ Wide(job') = Wide(job)
        /\ job.start \in Nat /\ job.start < End(job)
    <3>1. End(job') = End(job)
      BY <2>1, <2>3 DEF End
    <3>2. Wide(job') = Wide(job)
      BY <3>1 DEF Wide
    <3>3. job.start \in Nat /\ End(job) \in job.start + 1 .. MemSize
      BY <2>1, RangeFits, JobFields DEF Looping
    <3> QED
      BY <3>1, <3>2, <3>3, ChipAssumption
  <2>5. pc' \in {"en_wren", "read"} /\ (pc' = "en_wren" <=> Wide(job))
    BY <2>2
  <2>10. LoopInv'
    BY <2>2, <2>3, <2>4, <2>5 DEF LoopInv, Leaving, Entering
  <2>11. RangeInv'
    BY <1>1, <2>2, <2>3 DEF RangeInv
  <2>12. AaiInv'
    BY <1>1, <2>2, <2>3 DEF AaiInv, Pristine, Quiet
  <2>13. ModeInv'
    <3>1. SUFFICES ASSUME clean', pc' = "read"
                   PROVE  ~chip.four /\ ~Wide(job)
      BY <1>1, <2>4, <2>5 DEF ModeInv, Trusted, InStep, Width
    <3> QED
      BY <2>2, <2>5, <3>1 DEF Pristine
  <2>14. RestInv'
    BY <1>1, <2>2, <2>5 DEF RestInv, Pristine, Quiet, Listening
  <2>15. CountInv'
    BY <2>2, <2>3, <2>4, <2>5 DEF CountInv
  <2>16. ArmedInv' /\ ExactInv'
    BY <2>3 DEF ArmedInv, ExactInv
  <2>18. ComparedInv'
    <3>1. Compared' = job.start
      BY <2>2, <2>5 DEF Compared, Before, Entering
    <3> QED
      BY <2>3, <2>4, <3>1 DEF ComparedInv
  <2>19. RestoredInv'
    BY <2>3, <2>5 DEF RestoredInv, Leaving, Looping
  <2>20. CancelInv'
    BY <2>3 DEF CancelInv
  <2> QED
    BY <2>10, <2>11, <2>12, <2>13, <2>14, <2>15, <2>16, <2>18, <2>19, <2>20 DEF WInv
<1>3. CASE ~(VerifyAfter(job) /\ verdict # "refused")
  <2>1. pc' = "idle" /\ UNCHANGED <<job, addr, count, verdict, before, clean>>
    BY <1>3 DEF Close, Goto, histVars
  <2>2. Frontier' = Frontier /\ Compared' = Compared
    BY <1>1, <2>1 DEF Frontier, Compared, Before, Behind, Entering
  <2>3. (Trusted' <=> Trusted) /\ (Comparing' <=> Comparing)
    BY <1>1, <2>1, SameRun
  <2>10. LoopInv'
    BY <2>1 DEF LoopInv, Before, Behind, Entering, Fetching
  <2>11. RangeInv' /\ ExactInv'
    BY <1>1, <2>1, <2>2, <2>3 DEF WInv, RangeInv, ExactInv
  <2>12. AaiInv'
    BY <1>1, <2>1 DEF WInv, AaiInv, Before, Behind, Entering
  <2>13. ModeInv' /\ RestInv' /\ ArmedInv'
    BY <2>1 DEF ModeInv, RestInv, ArmedInv, Before, Behind, Entering
  <2>15. CountInv'
    BY <2>1 DEF WInv, CountInv, Before, Behind, Entering
  <2>18. ComparedInv'
    BY <1>1, <2>1, <2>2, ComparedStays
  <2>19. RestoredInv'
    BY <2>1 DEF RestoredInv, Leaving
  <2>20. CancelInv'
    BY <2>1 DEF CancelInv
  <2> QED
    BY <2>10, <2>11, <2>12, <2>13, <2>15, <2>18, <2>19, <2>20 DEF WInv
<1> QED
  BY <1>2, <1>3

\* Every step of the program and of the part keeps the invariant.
LEMMA WInvStep ==
  ASSUME IInv, WInv, [Next]_vars
  PROVE  WInv'
<1>1. CASE Click \/ NextOfCombo
  <2>1. \E j \in JobType : Start(j)
    <3>1. queue \in Seq(JobType)
      BY DEF IInv, TypeOK
    <3>2. CASE NextOfCombo
      BY <3>1, <3>2, HeadTailProperties DEF NextOfCombo
    <3>3. CASE Click
      <4>1. PICK q \in Jobs : Start(Head(q))
        BY <3>3 DEF Click
      <4>2. q \in Seq(JobType) /\ q # <<>>
        BY JobsAssumption
      <4> QED
        BY <4>1, <4>2, HeadTailProperties
    <3> QED
      BY <1>1, <3>2, <3>3
  <2> QED
    BY <2>1, StartKeeps
<1>2. CASE Wren
  <2>1. CASE job.op = "write"
    BY <1>2, <2>1, WrenKeeps
  <2>2. CASE job.op # "write"
    BY <1>2, <2>2, OtherFramesKeep
  <2> QED
    BY <2>1, <2>2
<1>3. CASE ChipErase \/ WriteSR \/ ShowStatus
  <2>1. job.op # "write"
    BY <1>3 DEF ChipErase, WriteSR, ShowStatus, ModeFrame, IInv, OpFits, OpsAt
  <2> QED
    BY <1>3, <2>1, OtherFramesKeep
<1>4. CASE ChipFinishes \/ UNCHANGED vars
  <2>1. /\ UNCHANGED <<pc, job, before, clean, addr, count, cancel, warned, verdict, sticky>>
        /\ link' = link
        /\ chip' = chip \/ chip' = Finish(chip)
    BY <1>4 DEF ChipFinishes, vars, hostVars, linkVars, histVars
  <2> QED
    BY <2>1, WaitingKeeps
<1> QED
  BY <1>1, <1>2, <1>3, <1>4, CheckLocksKeeps, EN4BKeeps, EX4BKeeps, WrdiKeeps,
     ProgramKeeps, CheckKeeps, WaitReadyKeeps, ReadBodyKeeps, AdvanceKeeps, ReportKeeps,
     CloseKeeps DEF Next, Host

\* And it holds when the program has just started: nothing is running.
LEMMA WInvInit ==
  ASSUME Init
  PROVE  WInv
<1>1. /\ pc = "idle" /\ verdict = "none" /\ cancel = FALSE /\ clean = TRUE
      /\ job.op = "unlock" /\ chip.mem = before
      /\ chip.busy = FALSE /\ chip.four = FALSE /\ chip.aai = NoAAI
  BY DEF Init, NoJob
<1>2. LoopInv /\ RangeInv /\ CountInv /\ CancelInv
  BY <1>1 DEF LoopInv, RangeInv, CountInv, CancelInv, Before, Behind, Entering, Fetching,
     Leaving, Looping
<1>3. AaiInv /\ ModeInv /\ RestInv
  BY <1>1 DEF AaiInv, ModeInv, RestInv, Entering, Looping
<1>4. ArmedInv /\ ExactInv /\ ComparedInv /\ RestoredInv
  BY <1>1 DEF ArmedInv, ExactInv, ComparedInv, Comparing, RestoredInv, Leaving
<1> QED
  BY <1>2, <1>3, <1>4 DEF WInv

\* The invariant, for the theorems below.
LEMMA Inductive == Spec => [](IInv /\ WInv)
<1>1. Init => IInv /\ WInv
  BY IInvInit, WInvInit
<1>2. IInv /\ WInv /\ [Next]_vars => (IInv /\ WInv)'
  BY IInvStep, WInvStep
<1> QED
  BY <1>1, <1>2, PTL DEF Spec

-----------------------------------------------------------------------------
(***************************************************************************)
(* What the user relies on.                                                *)
(***************************************************************************)
\* For every part, buffer, page size and chunk size, whatever frames are lost and
\* wherever the user cancels: nothing but an erase changes a byte outside the
\* range of a write, so no page rolls over and no address is cut short.
THEOREM Flash25RangeSafe == Spec => []RangeSafe
<1>1. IInv /\ WInv => RangeSafe
  <2>1. SUFFICES ASSUME IInv, WInv, Trusted, Suited(job), job.op # "erase",
                        NEW b \in Addr, ~(job.op = "write" /\ b \in Target(job))
                 PROVE  chip.mem[b] = before[b]
    BY DEF RangeSafe
  <2>2. CASE job.op # "write"
    BY <2>1, <2>2 DEF WInv, RangeInv
  <2>3. CASE job.op = "write" /\ verdict # "refused"
    <3>1. /\ job.start \in Nat /\ addr \in Nat /\ addr \in job.start .. End(job)
          /\ End(job) \in Nat /\ ChunkLen(job, addr) \in 0 .. End(job) - addr
      BY <2>1, <2>3, LoopNumbers DEF Looping
    <3>2. Frontier \in Nat /\ Frontier <= End(job)
      BY <3>1 DEF Frontier
    <3>3. b \in Int
      BY ChipAssumption DEF Addr
    <3>4. b < job.start \/ b >= End(job)
      BY <2>1, <2>3, <3>1, <3>3 DEF Target
    <3>5. b < job.start \/ b >= Frontier
      BY <3>1, <3>2, <3>3, <3>4
    <3> QED
      BY <2>1, <2>3, <3>5 DEF WInv, RangeInv
  <2>4. CASE job.op = "write" /\ verdict = "refused"
    <3>1. pc \in {"close", "idle"}
      BY <2>1, <2>4 DEF IInv, OpFits
    <3>2. Frontier = End(job)
      BY <3>1 DEF Frontier, Before, Behind, Entering
    <3>3. b \in Int /\ job.start \in Nat /\ End(job) \in Int
      BY <2>1, JobFields, ChipAssumption DEF Addr, End, IInv, TypeOK
    <3>4. b < job.start \/ b >= Frontier
      BY <2>1, <2>4, <3>2, <3>3 DEF Target
    <3> QED
      BY <2>1, <2>4, <3>4 DEF WInv, RangeInv
  <2> QED
    BY <2>2, <2>3, <2>4
<1> QED
  BY <1>1, Inductive, PTL

\* A write that logs "Done" has the part hold the whole buffer, unless the busy bit
\* was ignored or the protection warning shown: a frame that was lost, a cycle
\* that was not waited for or a page that was not enabled takes "Done" away.
THEOREM Flash25DoneMeansProgrammed == Spec => []DoneMeansProgrammed
<1>1. IInv /\ WInv => DoneMeansProgrammed
  <2>1. SUFFICES ASSUME IInv, WInv, WriteDone, Suited(job), sticky, clean, ~job.ignore, ~warned
                 PROVE  Programmed(job)
    BY DEF DoneMeansProgrammed
  <2>2. pc = "close" /\ job.op = "write" /\ verdict = "done" /\ count = job.size
    BY <2>1 DEF WriteDone, WInv, CountInv
  <2>3. Frontier = End(job) /\ End(job) = job.start + job.size
    BY <2>2 DEF Frontier, Before, Behind, Entering, End
  <2> QED
    BY <2>1, <2>2, <2>3 DEF WInv, ExactInv, Programmed, Target
<1> QED
  BY <1>1, Inductive, PTL

\* With Auto check "Done" means that part and buffer are equal, whatever frames
\* are lost one by one: every page was read back.
THEOREM Flash25CheckedDoneMeansEqual == Spec => []CheckedDoneMeansEqual
<1>1. IInv /\ WInv => CheckedDoneMeansEqual
  <2>1. SUFFICES ASSUME IInv, WInv, WriteDone, Trusted, Suited(job), job.type = "PAGE",
                        job.check, ~job.ignore
                 PROVE  \A b \in Target(job) : chip.mem[b] = job.data[b - job.start + 1]
    BY DEF CheckedDoneMeansEqual
  <2>2. pc = "close" /\ job.op = "write" /\ verdict = "done" /\ count = job.size
    BY <2>1 DEF WriteDone, WInv, CountInv
  <2>3. Compared = End(job) /\ Comparing
    BY <2>1, <2>2 DEF Compared, Comparing, Before, Entering
  <2> QED
    BY <2>1, <2>2, <2>3 DEF WInv, ComparedInv, Target
<1> QED
  BY <1>1, Inductive, PTL

\* A verify that logs "Done" has seen every byte of the part, also the verify a
\* checked AAI write runs.
THEOREM Flash25VerifyDoneMeansEqual == Spec => []VerifyDoneMeansEqual
<1>1. IInv /\ WInv => VerifyDoneMeansEqual
  <2>1. SUFFICES ASSUME IInv, WInv, pc = "close", job.op = "verify", verdict = "done", Trusted
                 PROVE  \A b \in Target(job) : chip.mem[b] = job.data[b - job.start + 1]
    BY DEF VerifyDoneMeansEqual
  <2>2. count = job.size
    BY <2>1 DEF WInv, CountInv
  <2>3. Compared = End(job) /\ Comparing
    BY <2>1 DEF Compared, Comparing, Before, Entering
  <2> QED
    BY <2>1, <2>2, <2>3 DEF WInv, ComparedInv, Target
<1> QED
  BY <1>1, Inductive, PTL

\* Every path out of an operation undoes its modes, in the order that leaves none
\* behind: the part is idle by then, but for a Cancel or a lost frame.
THEOREM Flash25ModeRestored == Spec => []ModeRestored
<1>1. IInv /\ WInv => ModeRestored
  <2>1. SUFFICES ASSUME IInv, WInv, pc = "close", Orderly
                 PROVE  Pristine(chip) /\ (job.op = "write" => ~chip.wel)
    BY DEF ModeRestored, Orderly
  <2> QED
    BY <2>1 DEF WInv, RestoredInv, Leaving, Pristine, Quiet, Listening
<1> QED
  BY <1>1, Inductive, PTL

\* Once Cancel is seen no frame that could still change a byte is sent: only a
\* program and an erase frame do, and the handler is past both.
THEOREM Flash25NoWriteAfterCancel == Spec => NoWriteAfterCancel
<1>1. IInv /\ WInv /\ [Next]_vars => [cancel /\ cancel' => chip'.mem = chip.mem]_vars
  <2>1. SUFFICES ASSUME IInv, WInv, Next, cancel, cancel'
                 PROVE  chip'.mem = chip.mem
    BY DEF vars
  <2>2. pc \notin {"program", "erase"}
    <3>1. pc = "program" => job.op = "write"
      BY <2>1 DEF IInv, OpFits, OpsAt
    <3>2. pc = "erase" => job.op = "erase"
      BY <2>1 DEF IInv, OpFits, OpsAt
    <3> QED
      BY <2>1, <3>1, <3>2 DEF WInv, CancelInv, Leaving
  <2>3. chip \in Chips /\ link \in {"up", "down"}
    BY <2>1 DEF IInv, TypeOK
  <2>4. ~Program /\ ~ChipErase
    BY <2>2 DEF Program, ChipErase, ModeFrame
  <2>5. CASE Click \/ NextOfCombo \/ Advance \/ Report \/ Close
    BY <2>5 DEF Click, NextOfCombo, Start, Advance, Report, Close
  <2>6. CASE CheckLocks \/ Check \/ WaitReady \/ ReadBody \/ ShowStatus
    <3>1. \E ok \in BOOLEAN : Frame(ok, {chip})
      BY <2>6 DEF CheckLocks, Check, WaitReady, ReadBody, ShowStatus, ModeFrame
    <3> QED
      BY <2>3, <3>1 DEF Frame
  <2>7. CASE EN4B \/ EX4B \/ Wrdi \/ Wren \/ WriteSR
    <3>1. \E ok \in BOOLEAN :
            \/ Frame(ok, WriteEnable(chip))
            \/ Frame(ok, WriteDisable(chip))
            \/ Frame(ok, Unprotect(chip))
            \/ \E by \in {"opcode", "bank"}, on \in BOOLEAN : Frame(ok, SetFour(chip, by, on))
      BY <2>7 DEF EN4B, EX4B, Wrdi, Wren, WriteSR, ModeFrame
    <3>2. PICK ok, E : Frame(ok, E) /\ \A c \in E : c.mem = chip.mem
      BY <2>3, <3>1, ModesKeepContents
    <3> QED
      BY <2>3, <3>2 DEF Frame
  <2>8. CASE ChipFinishes
    BY <2>3, <2>8 DEF ChipFinishes, Finish, Chips
  <2> QED
    BY <2>1, <2>4, <2>5, <2>6, <2>7, <2>8 DEF Next, Host
<1> QED
  BY <1>1, Inductive, PTL DEF Spec, NoWriteAfterCancel
=============================================================================
