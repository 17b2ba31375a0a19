--------------------------- MODULE Flash25Proofs ---------------------------
(***************************************************************************)
(* What is proved of Flash25 for every part, buffer, page size and chunk   *)
(* size: its type invariant, and that a read never puts a byte in the image*)
(* that the part did not hold.                                             *)
(***************************************************************************)
EXTENDS Flash25, SequenceTheorems, TLAPS

Looping == {"read", "write", "verify"}

(***************************************************************************)
(* The inductive invariant. OpFits: which operation can be at which step;  *)
(* LoopSound: a loop that runs has sensible settings and its address lies  *)
(* in the range of the pass.                                               *)
(***************************************************************************)
OpsAt(step) ==
  CASE step \in {"status", "wren", "wait"}    -> {"write", "erase", "unlock"}
    [] step \in {"en_wren", "en_op", "en_bank", "ex_wren", "ex_op", "ex_bank",
                 "advance", "report"}         -> Looping
    [] step \in {"program", "check", "wrdi"}  -> {"write"}
    [] step = "read"                          -> {"read", "verify"}
    [] step = "erase"                         -> {"erase"}
    [] step \in {"unprotect", "show"}         -> {"unlock"}
    [] step \in {"idle", "close"}             -> Looping \cup {"erase", "unlock"}

OpFits ==
  /\ job.op \in OpsAt(pc)
  /\ verdict = "refused" => pc \in {"close", "idle"}

LoopSound ==
  (verdict # "refused" /\ job.op \in Looping) =>
    ~Refused(job) /\ addr \in job.start .. End(job)

IInv == TypeOK /\ OpFits /\ LoopSound

(***************************************************************************)
(* The same for a read. Untouched: while the link is up the part is as the *)
(* read found it and its addressing width is the one the loop uses.        *)
(***************************************************************************)
Reading == job.op = "read" /\ Trusted

Fetching == {"en_wren", "en_op", "en_bank", "read", "advance"}

Untouched ==
  (Reading /\ pc \in Fetching /\ link = "up") =>
    /\ chip.mem = before /\ Quiet(chip)
    /\ pc \in {"read", "advance"} => InStep(chip, Width(job))
    /\ pc = "en_bank" /\ chip.latch = "opcode" => chip.four

Counted ==
  job.op = "read" =>
    /\ count = Len(image)
    /\ pc \in {"en_wren", "en_op", "en_bank", "read"} => addr = job.start + Len(image)
    /\ pc \in {"en_wren", "en_op", "en_bank", "read", "advance"} => addr < End(job)
    /\ pc = "advance" => addr + ChunkLen(job, addr) = job.start + Len(image)
    /\ pc \in {"en_wren", "en_op", "en_bank"} => Wide(job)
    /\ verdict = "done" => pc \in {"close", "idle"} /\ count = Expected(job)

ReadInv == Untouched /\ Counted /\ ImageIsPrefix
-----------------------------------------------------------------------------
(***************************************************************************)
(* The operators of the loops.                                             *)
(***************************************************************************)
\* A remainder lies below the modulus, and small numbers are their own.
LEMMA Remainder ==
  ASSUME NEW a \in Nat, NEW n \in Nat \ {0}
  PROVE  a % n \in 0 .. n - 1 /\ (a < n => a % n = a)
  OBVIOUS

\* The fields of an operation, for the steps that need their types only.
LEMMA JobFields ==
  ASSUME NEW j \in JobType
  PROVE  /\ j.op \in {"read", "write", "verify", "erase", "unlock"}
         /\ j.start \in Addr /\ j.start \in Nat
         /\ j.size \in 0 .. MemSize /\ j.data \in Seq(Byte)
         /\ j.page \in Nat \ {0} /\ j.type \in {"PAGE", "SSTB", "SSTW"}
         /\ j.check \in BOOLEAN /\ j.ignore \in BOOLEAN /\ j.skip \in BOOLEAN
         /\ j.op \in {"write", "verify"} => Len(j.data) = j.size
         /\ End(j) \in Nat
  BY ChipAssumption DEF JobType, Addr, End

\* A pass that is not refused ends inside the part and is not empty.
LEMMA RangeFits ==
  ASSUME NEW j \in JobType, j.op \in Looping, ~Refused(j)
  PROVE  End(j) \in j.start + 1 .. MemSize
  BY JobFields, ChipAssumption DEF Looping, Refused, End

\* Every chunk is as long as a number of bytes can be, stays inside the pass,
\* and takes it on.
LEMMA ChunkFits ==
  ASSUME NEW j \in JobType, NEW a \in j.start .. End(j)
  PROVE  /\ ChunkLen(j, a) \in 0 .. End(j) - a
         /\ a < End(j) => ChunkLen(j, a) > 0
<1>1. /\ j.page \in Nat \ {0} /\ j.start \in Nat /\ End(j) \in Nat
      /\ ReadChunk \in Nat \ {0}
  BY JobFields, JobsAssumption
<1>2. j.start % j.page \in 0 .. j.page - 1
  BY <1>1, Remainder
<1>3. FirstPage(j) \in Nat \ {0}
  BY <1>1, <1>2 DEF FirstPage
<1> QED
  BY <1>1, <1>3 DEF ChunkLen, PageLen, Least

\* What a chunk holds is a piece of the buffer.
LEMMA PartFits ==
  ASSUME NEW j \in JobType, j.op \in {"write", "verify"},
         NEW a \in j.start .. End(j)
  PROVE  /\ Part(j, a) \in Seq(Byte)
         /\ Len(Part(j, a)) = ChunkLen(j, a)
<1> DEFINE m == (a - j.start) + 1
           n == (a - j.start) + ChunkLen(j, a)
<1>1. m \in Int /\ n \in Int /\ ChunkLen(j, a) \in Nat
  BY ChunkFits, JobFields
<1>a. /\ End(j) = j.start + Len(j.data)
      /\ Len(j.data) \in Nat /\ j.start \in Nat /\ a \in Nat
      /\ j.start <= a /\ ChunkLen(j, a) <= End(j) - a
  BY ChunkFits, JobFields DEF End
<1>2. m .. n \subseteq 1 .. Len(j.data)
  <2>1. 1 <= m /\ n <= Len(j.data)
    BY <1>1, <1>a
  <2> HIDE DEF m, n
  <2> QED
    BY <1>1, <1>a, <2>1
<1>3. \A i \in m .. n : j.data[i] \in Byte
  <2>1. \A i \in 1 .. Len(j.data) : j.data[i] \in Byte
    BY JobFields, ElementOfSeq
  <2> HIDE DEF m, n
  <2> QED
    BY <1>2, <2>1
<1> HIDE DEF m, n
<1>4. /\ SubSeq(j.data, m, n) \in Seq(Byte)
      /\ Len(SubSeq(j.data, m, n)) = IF m <= n THEN n - m + 1 ELSE 0
  BY <1>1, <1>3, SubSeqProperties
<1>5. Part(j, a) = SubSeq(j.data, m, n)
  BY DEF Part, m, n
<1>6. (IF m <= n THEN n - m + 1 ELSE 0) = ChunkLen(j, a)
  BY <1>1, JobFields DEF m, n
<1> QED
  BY <1>4, <1>5, <1>6

\* The bytes of a program frame are bytes, the stale one of WriteSSTW included.
LEMMA SentFits ==
  ASSUME NEW j \in JobType, j.op = "write", NEW a \in j.start .. End(j)
  PROVE  Sent(j, a) \in Seq(Byte)
<1>1. Part(j, a) \in Seq(Byte) /\ Len(Part(j, a)) = ChunkLen(j, a)
  BY PartFits
<1>2. CASE j.type = "SSTW" /\ a # j.start /\ Len(Part(j, a)) = 1
  <2>1. a - j.start \in 1 .. Len(j.data)
    BY <1>1, <1>2, ChunkFits, JobFields DEF End
  <2>2. <<j.data[a - j.start]>> \in Seq(Byte)
    BY <2>1, JobFields, ElementOfSeq
  <2> QED
    BY <1>1, <1>2, <2>2, ConcatProperties DEF Sent
<1>3. CASE ~(j.type = "SSTW" /\ a # j.start /\ Len(Part(j, a)) = 1)
  BY <1>1, <1>3 DEF Sent
<1> QED
  BY <1>2, <1>3

-----------------------------------------------------------------------------
(***************************************************************************)
(* The part: every effect leaves a part.                                   *)
(***************************************************************************)
LEMMA BurnFits ==
  ASSUME NEW c \in Chips, NEW slots, NEW d
  PROVE  Burn(c.mem, slots, d) \in [Addr -> Byte]
  BY DEF Chips, Burn, Byte

\* Mode and latch commands.
LEMMA ModeEffects ==
  ASSUME NEW c \in Chips
  PROVE  /\ WriteEnable(c) \subseteq Chips
         /\ WriteDisable(c) \subseteq Chips
         /\ \A by : \A on \in BOOLEAN : SetFour(c, by, on) \subseteq Chips
         /\ Unprotect(c) \subseteq Chips
         /\ EraseAll(c) \subseteq Chips
         /\ Finish(c) \in Chips
<1> USE DEF Chips
<1>1. WriteEnable(c) \subseteq Chips
  BY DEF WriteEnable
<1>2. WriteDisable(c) \subseteq Chips
  BY DEF WriteDisable
<1>3. ASSUME NEW by, NEW on \in BOOLEAN
      PROVE  SetFour(c, by, on) \subseteq Chips
  BY DEF SetFour
<1>4. Unprotect(c) \subseteq Chips
  BY DEF Unprotect
<1>5. EraseAll(c) \subseteq Chips
  <2>1. [a \in Addr |-> Erased] \in [Addr -> Byte]
    BY DEF Byte, Erased
  <2> QED
    BY <2>1 DEF EraseAll
<1>6. Finish(c) \in Chips
  BY DEF Finish
<1> QED
  BY <1>1, <1>2, <1>3, <1>4, <1>5, <1>6

\* A page program, an AAI program.
LEMMA ProgramEffects ==
  ASSUME NEW c \in Chips, NEW w, NEW a \in Nat, NEW d \in Seq(Byte)
  PROVE  /\ ProgramPage(c, w, a, d) \subseteq Chips
         /\ ProgramFirst(c, a, d) \subseteq Chips
         /\ ProgramNext(c, d) \subseteq Chips
<1>1. ProgramPage(c, w, a, d) \subseteq Chips
  <2>1. ASSUME NEW slots, NEW e
        PROVE  [c EXCEPT !.mem = Burn(c.mem, slots, e), !.busy = TRUE, !.wel = FALSE]
                 \in Chips
    BY BurnFits DEF Chips
  <2>2. ASSUME NEW f
        PROVE  [c EXCEPT !.mem = Burn(c.mem, PageSlots(f.at, Len(f.data)), f.data),
                         !.busy = TRUE, !.wel = FALSE] \in Chips
    BY <2>1
  <2> QED
    BY <2>2 DEF ProgramPage
<1>2. ASSUME NEW x \in Nat
      PROVE  Increment(c, x, d) \in Chips
  <2>1. (x + Len(d)) % MemSize \in Addr
    BY Remainder, ChipAssumption, LenProperties DEF Addr
  <2> QED
    BY <2>1, BurnFits DEF Chips, Increment
<1>3. Wire(3, a) \in Nat
  BY Remainder, ChipAssumption DEF Wire
<1>4. c.aai # NoAAI => c.aai \in Nat
  BY DEF Chips, Addr
<1> QED
  BY <1>1, <1>2, <1>3, <1>4 DEF ProgramFirst, ProgramNext

\* Whatever a read returns is that many bytes.
LEMMA AnswersFit ==
  ASSUME NEW c \in Chips, NEW w, NEW a \in Nat, NEW n \in Nat
  PROVE  Answers(c, w, a, n) \subseteq [1 .. n -> Byte]
<1>1. ASSUME NEW x \in Nat
      PROVE  Stored(c, x, n) \in [1 .. n -> Byte]
  <2>1. \A i \in 1 .. n : x + i - 1 \in Nat /\ (x + i - 1) % MemSize \in Addr
    BY Remainder, ChipAssumption DEF Addr
  <2> QED
    BY <2>1 DEF Stored, Run, Chips
<1>2. Wire(w, a) \in Nat
  BY Remainder, ChipAssumption DEF Wire
<1> QED
  BY <1>1, <1>2 DEF Answers, Addr

-----------------------------------------------------------------------------
(***************************************************************************)
(* The steps of the host.                                                  *)
(***************************************************************************)
\* A frame leaves a part and a link, whatever it is told to do.
LEMMA FrameFits ==
  ASSUME TypeOK, NEW ok \in BOOLEAN, NEW E, E \subseteq Chips, Frame(ok, E)
  PROVE  /\ chip' \in Chips /\ sticky' \in BOOLEAN
         /\ link' \in {"up", "down"} /\ faults' \in 0 .. MaxFaults
  BY JobsAssumption DEF TypeOK, Frame

\* The way out of a loop.
LEMMA LeaveFits ==
  ASSUME NEW v \in {"none", "aborted"}, TypeOK, job.op \in Looping, job' = job, Leave(v)
  PROVE  /\ verdict' = v
         /\ pc' \in Steps /\ job'.op \in OpsAt(pc')
         /\ pc' \in {"ex_wren", "wrdi", "report"}
  BY DEF Leave, Steps, OpsAt, Looping

\* A loop that is entered goes on at a step its operation has.
LEMMA BodyFits ==
  ASSUME NEW j \in JobType, j.op \in Looping
  PROVE  /\ Body(j) \in Steps \ {"close", "idle"} /\ j.op \in OpsAt(Body(j))
         /\ Body(j) \in {"wren", "program", "read"}
  BY JobFields DEF Body, LoopHead, Steps, OpsAt, Looping

\* Starting any operation.
LEMMA StartFits ==
  ASSUME IInv, NEW j \in JobType, Start(j), queue' \in Seq(JobType),
         clicks' \in 0 .. MaxJobs
  PROVE  IInv'
<1> USE DEF IInv, TypeOK
<1>1. FirstStep(j) \in Steps /\ j.op \in OpsAt(FirstStep(j))
  BY BodyFits, JobFields DEF FirstStep, Steps, OpsAt, Looping
<1>2. /\ job' = j /\ job' \in JobType
      /\ \/ pc' = "close" /\ verdict' = "refused"
         \/ pc' = FirstStep(j) /\ verdict' = "none" /\ ~Refused(j)
  BY DEF Start
<1>3. OpFits'
  BY <1>1, <1>2, JobFields DEF OpFits, OpsAt, Looping
<1>4. LoopSound'
  <2>1. SUFFICES ASSUME ~Refused(j), j.op \in Looping
                 PROVE  addr' \in j.start .. End(j)
    BY <1>2 DEF LoopSound
  <2> QED
    BY <2>1, RangeFits, JobFields DEF Start
<1>5. TypeOK'
  <2>1. addr' \in 0 .. MemSize
    BY JobFields, ChipAssumption DEF Start, Addr
  <2>2. before' \in [Addr -> Byte] /\ clean' \in BOOLEAN
    BY DEF Start, Chips, Pristine, Quiet, Listening
  <2>3. image' \in Seq(Byte)
    BY EmptySeq DEF Start
  <2>4. pc' \in Steps /\ verdict' \in Verdicts
    BY <1>1, <1>2 DEF Steps, Verdicts
  <2>5. link' \in {"up", "down"}
    BY DEF Start
  <2>6. /\ chip' \in Chips /\ sticky' \in BOOLEAN /\ faults' \in 0 .. MaxFaults
        /\ cancel' \in BOOLEAN /\ warned' \in BOOLEAN /\ count' \in Int
    <3>1. /\ chip' = chip /\ sticky' = sticky /\ faults' = faults
          /\ cancel' = FALSE /\ warned' = FALSE /\ count' = 0
      BY DEF Start
    <3>2. chip \in Chips /\ sticky \in BOOLEAN /\ faults \in 0 .. MaxFaults
      OBVIOUS
    <3>3. chip' \in Chips /\ sticky' \in BOOLEAN /\ faults' \in 0 .. MaxFaults
      BY <3>1, <3>2
    <3>4. cancel' \in BOOLEAN /\ warned' \in BOOLEAN
      BY <3>1
    <3>5. count' \in Int
      BY <3>1
    <3> QED
      BY <3>3, <3>4, <3>5
  <2> QED
    BY <1>2, <2>1, <2>2, <2>3, <2>4, <2>5, <2>6
<1> QED
  BY <1>3, <1>4, <1>5

\* The frames whose result nobody looks at.
LEMMA ModeFrameFits ==
  ASSUME IInv, NEW from, NEW E, NEW to, E \subseteq Chips,
         from \notin {"close", "idle"}, to \in Steps, job.op \in OpsAt(to),
         ModeFrame(from, E, to)
  PROVE  IInv'
<1> USE DEF IInv, ModeFrame, Goto
<1>0. PICK ok \in BOOLEAN : Frame(ok, E)
  OBVIOUS
<1>f. /\ chip' \in Chips /\ sticky' \in BOOLEAN
      /\ link' \in {"up", "down"} /\ faults' \in 0 .. MaxFaults
  BY <1>0, FrameFits
<1>1. TypeOK'
  BY <1>f DEF TypeOK, histVars
<1>2. OpFits'
  BY DEF OpFits
<1>3. LoopSound'
  BY DEF LoopSound
<1> QED
  BY <1>1, <1>2, <1>3

\* The actions that send one of those frames.
LEMMA ModeActionsFit ==
  ASSUME IInv, EN4B \/ EX4B \/ Wrdi \/ Wren \/ ChipErase \/ WriteSR \/ ShowStatus
  PROVE  IInv'
<1>1. chip \in Chips /\ {chip} \subseteq Chips /\ job \in JobType
      /\ job.op \in OpsAt(pc)
  BY DEF IInv, TypeOK, OpFits
<1> USE ModeEffects
<1>2. CASE EN4B
  <2>1. pc \in {"en_wren", "en_op", "en_bank"}
    BY <1>2 DEF EN4B, ModeFrame
  <2>2. job.op \in Looping
    BY <1>1, <2>1 DEF OpsAt
  <2>3. /\ Body(job) \in Steps /\ job.op \in OpsAt(Body(job))
        /\ job.op \in OpsAt("en_op") /\ job.op \in OpsAt("en_bank")
        /\ "en_op" \in Steps /\ "en_bank" \in Steps
    BY <1>1, <2>2, BodyFits DEF OpsAt, Steps
  <2> QED
    BY <1>1, <1>2, <2>3, ModeFrameFits DEF EN4B
<1>3. CASE EX4B
  <2>1. pc \in {"ex_wren", "ex_op", "ex_bank"}
    BY <1>3 DEF EX4B, ModeFrame
  <2>2. job.op \in Looping
    BY <1>1, <2>1 DEF OpsAt
  <2>3. /\ AfterModes(job) \in Steps /\ job.op \in OpsAt(AfterModes(job))
        /\ job.op \in OpsAt("ex_op") /\ job.op \in OpsAt("ex_bank")
        /\ "ex_op" \in Steps /\ "ex_bank" \in Steps
    BY <2>2 DEF OpsAt, Steps, AfterModes, Looping
  <2> QED
    BY <1>1, <1>3, <2>3, ModeFrameFits DEF EX4B
<1>4. CASE Wrdi
  <2>1. "report" \in Steps /\ job.op \in OpsAt("report")
    BY <1>1, <1>4 DEF Wrdi, ModeFrame, OpsAt, Steps, Looping
  <2> QED
    BY <1>1, <1>4, <2>1, ModeFrameFits DEF Wrdi
<1>5. CASE Wren
  <2> DEFINE to == CASE job.op = "write" -> "program"
                     [] job.op = "erase" -> "erase"
                     [] job.op = "unlock" -> "unprotect"
  <2>1. job.op \in {"write", "erase", "unlock"}
    BY <1>1, <1>5 DEF Wren, ModeFrame, OpsAt
  <2>2. to \in Steps /\ job.op \in OpsAt(to)
    BY <2>1 DEF Steps, OpsAt
  <2>3. ModeFrame("wren", WriteEnable(chip), to)
    BY <1>5 DEF Wren
  <2> HIDE DEF to
  <2> QED
    BY <1>1, <2>2, <2>3, ModeFrameFits
<1>6. CASE ChipErase
  <2>1. "wait" \in Steps /\ job.op \in OpsAt("wait")
    BY <1>1, <1>6 DEF ChipErase, ModeFrame, OpsAt, Steps
  <2> QED
    BY <1>1, <1>6, <2>1, ModeFrameFits DEF ChipErase
<1>7. CASE WriteSR
  <2>1. "wait" \in Steps /\ job.op \in OpsAt("wait")
    BY <1>1, <1>7 DEF WriteSR, ModeFrame, OpsAt, Steps
  <2> QED
    BY <1>1, <1>7, <2>1, ModeFrameFits DEF WriteSR
<1>8. CASE ShowStatus
  <2>1. "close" \in Steps /\ job.op \in OpsAt("close")
    BY <1>1, <1>8 DEF ShowStatus, ModeFrame, OpsAt, Steps, Looping
  <2> QED
    BY <1>1, <1>8, <2>1, ModeFrameFits DEF ShowStatus
<1> QED
  BY <1>2, <1>3, <1>4, <1>5, <1>6, <1>7, <1>8

\* The actions that start an operation.
LEMMA StartActionsFit ==
  ASSUME IInv, Click \/ NextOfCombo
  PROVE  IInv'
<1>1. queue \in Seq(JobType) /\ clicks \in 0 .. MaxJobs
  BY DEF IInv, TypeOK
<1>2. CASE Click
  <2>1. PICK q \in Jobs : Start(Head(q)) /\ queue' = Tail(q)
    BY <1>2 DEF Click
  <2>2. q \in Seq(JobType) /\ q # <<>>
    BY JobsAssumption
  <2>3. Head(q) \in JobType /\ queue' \in Seq(JobType)
    BY <2>1, <2>2, HeadTailProperties
  <2>4. clicks' \in 0 .. MaxJobs
    BY <1>1, <1>2, JobsAssumption DEF Click
  <2> QED
    BY <2>1, <2>3, <2>4, StartFits
<1>3. CASE NextOfCombo
  <2>1. Head(queue) \in JobType /\ queue' \in Seq(JobType)
    BY <1>1, <1>3, HeadTailProperties DEF NextOfCombo
  <2>2. Start(Head(queue)) /\ clicks' = clicks
    BY <1>3 DEF NextOfCombo
  <2> QED
    BY <1>1, <2>1, <2>2, StartFits
<1> QED
  BY <1>2, <1>3

\* IsLockBitsEnabled.
LEMMA CheckLocksFits ==
  ASSUME IInv, CheckLocks
  PROVE  IInv'
<1> DEFINE to == CASE job.op \in {"erase", "unlock"}  -> "wren"
                   [] job.op = "write" /\ Wide(job)   -> "en_wren"
                   [] job.op = "write" /\ ~Wide(job)  -> Body(job)
<1>1. chip \in Chips /\ job \in JobType /\ job.op \in {"write", "erase", "unlock"}
  BY DEF IInv, TypeOK, OpFits, OpsAt, CheckLocks
<1>2. to \in Steps /\ job.op \in OpsAt(to)
  <2>1. CASE job.op = "write"
    <3>1. Body(job) \in Steps /\ job.op \in OpsAt(Body(job))
      BY <1>1, <2>1, BodyFits DEF Looping
    <3>2. to = IF Wide(job) THEN "en_wren" ELSE Body(job)
      BY <2>1 DEF Wide
    <3> QED
      BY <2>1, <3>1, <3>2 DEF Steps, OpsAt, Looping
  <2>2. CASE job.op # "write"
    BY <1>1, <2>2 DEF Steps, OpsAt
  <2> QED
    BY <2>1, <2>2
<1>3. /\ pc' = to /\ warned' \in BOOLEAN
      /\ \E ok \in BOOLEAN : Frame(ok, {chip})
      /\ UNCHANGED <<histVars, job, queue, addr, count, image, cancel, verdict, clicks>>
  BY <1>1 DEF CheckLocks, Goto, Chips
<1>4. /\ chip' \in Chips /\ sticky' \in BOOLEAN
      /\ link' \in {"up", "down"} /\ faults' \in 0 .. MaxFaults
  BY <1>1, <1>3, FrameFits DEF IInv
<1>5. verdict # "refused"
  BY DEF IInv, OpFits, CheckLocks
<1> HIDE DEF to
<1> QED
  BY <1>2, <1>3, <1>4, <1>5 DEF IInv, TypeOK, OpFits, LoopSound, histVars

\* The program loop: a frame or a skipped page.
LEMMA ProgramFits ==
  ASSUME IInv, Program
  PROVE  IInv'
<1>1. /\ chip \in Chips /\ job \in JobType /\ job.op = "write" /\ verdict # "refused"
      /\ addr \in job.start .. End(job) /\ count \in Int
  BY DEF IInv, TypeOK, OpFits, OpsAt, LoopSound, Program, Looping
<1>2. /\ Part(job, addr) \in Seq(Byte) /\ Sent(job, addr) \in Seq(Byte)
      /\ ChunkLen(job, addr) \in Nat /\ addr \in Nat
  BY <1>1, PartFits, SentFits, ChunkFits, JobFields
<1>3. ProgramEffect(job, addr) \subseteq Chips
  <2>1. job.type \in {"PAGE", "SSTB", "SSTW"}
    BY <1>1, JobFields
  <2> QED
    BY <1>1, <1>2, <2>1, ProgramEffects DEF ProgramEffect
<1>4. \A ok \in BOOLEAN : Returned(ok, job, addr) \in Int
  <2>1. Len(Sent(job, addr)) \in Int
    BY <1>2, LenProperties
  <2> QED
    BY <2>1 DEF Returned
<1>5. AfterProgram(job) \in {"check", "advance"}
  BY DEF AfterProgram
<1>6. /\ chip' \in Chips /\ sticky' \in BOOLEAN
      /\ link' \in {"up", "down"} /\ faults' \in 0 .. MaxFaults
      /\ count' \in Int
      /\ pc' \in {"check", "advance", "wait"}
  <2>1. CASE SkipPage(job, addr)
    BY <1>1, <1>2, <1>5, <2>1 DEF Program, IInv, TypeOK, linkVars, Goto
  <2>2. CASE ~SkipPage(job, addr)
    <3>1. PICK ok \in BOOLEAN : /\ Frame(ok, ProgramEffect(job, addr))
                                /\ count' = count + Returned(ok, job, addr)
      BY <2>2 DEF Program
    <3>2. pc' \in {"check", "advance", "wait"}
      BY <1>5, <2>2 DEF Program, Goto
    <3> QED
      BY <1>1, <1>3, <1>4, <3>1, <3>2, FrameFits DEF IInv
  <2> QED
    BY <2>1, <2>2
<1>7. UNCHANGED <<histVars, job, queue, addr, image, cancel, warned, verdict, clicks>>
  BY DEF Program
<1>8. pc' \in Steps /\ job.op \in OpsAt(pc')
  BY <1>1, <1>6 DEF Steps, OpsAt, Looping
<1> QED
  BY <1>1, <1>6, <1>7, <1>8 DEF IInv, TypeOK, OpFits, LoopSound, histVars

\* The page read back.
LEMMA CheckFits ==
  ASSUME IInv, Check
  PROVE  IInv'
<1>1. /\ chip \in Chips /\ job \in JobType /\ job.op = "write" /\ verdict # "refused"
      /\ verdict \in Verdicts
  BY DEF IInv, TypeOK, OpFits, OpsAt, Check
<1>2. PICK ok \in BOOLEAN :
        /\ Frame(ok, {chip})
        /\ (pc' = "advance" /\ verdict' = verdict) \/ Leave("aborted")
  BY DEF Check, Goto
<1>3. UNCHANGED <<histVars, job, queue, addr, count, image, cancel, warned, clicks>>
  BY DEF Check
<1>4. /\ chip' \in Chips /\ sticky' \in BOOLEAN
      /\ link' \in {"up", "down"} /\ faults' \in 0 .. MaxFaults
  BY <1>1, <1>2, FrameFits DEF IInv
<1>5. /\ pc' \in Steps /\ job.op \in OpsAt(pc')
      /\ verdict' \in Verdicts /\ verdict' # "refused"
  <2>1. CASE Leave("aborted")
    BY <1>1, <1>3, <2>1, LeaveFits DEF IInv, Looping, Verdicts
  <2>2. CASE pc' = "advance" /\ verdict' = verdict
    BY <1>1, <2>2 DEF Steps, OpsAt, Looping
  <2> QED
    BY <1>2, <2>1, <2>2
<1> QED
  BY <1>1, <1>3, <1>4, <1>5 DEF IInv, TypeOK, OpFits, LoopSound, histVars

\* WaitChipReady.
LEMMA WaitReadyFits ==
  ASSUME IInv, WaitReady
  PROVE  IInv'
<1>1. /\ chip \in Chips /\ job \in JobType /\ job.op \in {"write", "erase", "unlock"}
      /\ verdict # "refused" /\ verdict \in Verdicts /\ cancel \in BOOLEAN
      /\ pc = "wait"
  BY DEF IInv, TypeOK, OpFits, OpsAt, WaitReady
<1>2. PICK ok \in BOOLEAN :
        /\ Frame(ok, {chip})
        /\ StopWaiting \/ Ready \/ UNCHANGED <<pc, verdict>>
        /\ cancel' \in BOOLEAN
  BY <1>1 DEF WaitReady, Poll
<1>3. UNCHANGED <<histVars, job, queue, addr, count, image, warned, clicks>>
  BY DEF WaitReady
<1>4. /\ chip' \in Chips /\ sticky' \in BOOLEAN
      /\ link' \in {"up", "down"} /\ faults' \in 0 .. MaxFaults
  BY <1>1, <1>2, FrameFits DEF IInv
<1>5. /\ pc' \in Steps /\ job.op \in OpsAt(pc')
      /\ verdict' \in Verdicts /\ verdict' # "refused"
  <2>1. CASE StopWaiting /\ job.op = "write"
    <3>1. Leave("aborted")
      BY <2>1 DEF StopWaiting
    <3> QED
      BY <1>1, <1>3, <2>1, <3>1, LeaveFits DEF IInv, Looping, Verdicts
  <2>2. CASE StopWaiting /\ job.op # "write"
    BY <1>1, <2>2 DEF StopWaiting, Goto, Steps, OpsAt, Verdicts, Looping
  <2>3. CASE Ready
    <3>1. \/ pc' \in {"check", "advance"} /\ job.op = "write" /\ verdict' = verdict
          \/ pc' = "close" /\ verdict' = "done"
          \/ pc' = "show" /\ job.op = "unlock" /\ verdict' = verdict
      BY <1>1, <2>3 DEF Ready, Goto, AfterProgram
    <3> QED
      BY <1>1, <3>1 DEF Steps, OpsAt, Verdicts, Looping
  <2>4. CASE UNCHANGED <<pc, verdict>>
    BY <1>1, <2>4 DEF IInv, TypeOK, OpFits
  <2> QED
    BY <1>2, <2>1, <2>2, <2>3, <2>4
<1> QED
  BY <1>1, <1>2, <1>3, <1>4, <1>5 DEF IInv, TypeOK, OpFits, LoopSound, histVars

\* What is in the buffer has the length of the chunk, whether or not it was read.
LEMMA BufferFits ==
  ASSUME chip \in Chips, NEW ok \in BOOLEAN, NEW j \in JobType,
         NEW a \in j.start .. End(j), NEW data \in Buffer(ok, j, a)
  PROVE  /\ data \in Seq(Byte) /\ Len(data) = ChunkLen(j, a)
         /\ data \in [1 .. ChunkLen(j, a) -> Byte]
<1>1. a \in Nat /\ ChunkLen(j, a) \in Nat
  BY JobFields, ChunkFits
<1>2. data \in [1 .. ChunkLen(j, a) -> Byte]
  BY <1>1, AnswersFit DEF Buffer
<1> QED
  BY <1>1, <1>2, SeqDef, LenProperties

\* One chunk of a read or a verify.
LEMMA ReadBodyFits ==
  ASSUME IInv, ReadBody
  PROVE  IInv'
<1>1. /\ chip \in Chips /\ job \in JobType /\ job.op \in {"read", "verify"}
      /\ verdict # "refused" /\ verdict \in Verdicts
      /\ addr \in job.start .. End(job) /\ count \in Int /\ image \in Seq(Byte)
  BY DEF IInv, TypeOK, OpFits, OpsAt, LoopSound, ReadBody, Looping
<1>a. PICK ok \in BOOLEAN :
        \E data \in Buffer(ok, job, addr) : Frame(ok, {chip}) /\ Take(ok, data)
  BY DEF ReadBody
<1>2. PICK data \in Buffer(ok, job, addr) : Frame(ok, {chip}) /\ Take(ok, data)
  BY <1>a
<1>3. UNCHANGED <<histVars, job, queue, addr, cancel, warned, clicks>>
  BY DEF ReadBody
<1>4. /\ chip' \in Chips /\ sticky' \in BOOLEAN
      /\ link' \in {"up", "down"} /\ faults' \in 0 .. MaxFaults
  BY <1>1, <1>2, FrameFits DEF IInv
<1>5. data \in Seq(Byte) /\ Len(data) \in Nat
  BY <1>1, BufferFits, LenProperties
<1>6. count' \in Int /\ image' \in Seq(Byte)
  <2>1. image \o data \in Seq(Byte)
    BY <1>1, <1>5, ConcatProperties
  <2>2. count + Len(data) \in Int
    BY <1>1, <1>5
  <2>3. /\ count' \in {count, count + Len(data)}
        /\ image' \in {image, image \o data}
    BY <1>2 DEF Take
  <2> QED
    BY <1>1, <2>1, <2>2, <2>3
<1>7. \/ Leave("none") \/ Leave("aborted")
      \/ pc' = "advance" /\ verdict' = verdict
  BY <1>2 DEF Take, Goto
<1>8. /\ pc' \in Steps /\ job.op \in OpsAt(pc')
      /\ verdict' \in Verdicts /\ verdict' # "refused"
  <2>1. CASE Leave("none") \/ Leave("aborted")
    BY <1>1, <1>3, <2>1, LeaveFits DEF IInv, Looping, Verdicts
  <2>2. CASE pc' = "advance" /\ verdict' = verdict
    BY <1>1, <2>2 DEF Steps, OpsAt, Looping
  <2> QED
    BY <1>7, <2>1, <2>2
<1> QED
  BY <1>1, <1>3, <1>4, <1>6, <1>8 DEF IInv, TypeOK, OpFits, LoopSound, histVars

\* The end of a loop body.
LEMMA AdvanceFits ==
  ASSUME IInv, Advance
  PROVE  IInv'
<1>1. /\ job \in JobType /\ job.op \in Looping /\ verdict # "refused"
      /\ verdict \in Verdicts /\ addr \in job.start .. End(job)
      /\ ~Refused(job) /\ cancel \in BOOLEAN
  BY DEF IInv, TypeOK, OpFits, OpsAt, LoopSound, Advance
<1>2. /\ UNCHANGED <<chip, linkVars, histVars, job, queue, count, image, warned, clicks>>
      /\ addr' = addr + ChunkLen(job, addr)
      /\ cancel' \in BOOLEAN
  BY <1>1 DEF Advance, Poll
<1>3. addr' \in job.start .. End(job) /\ addr' \in 0 .. MemSize
  <2>1. ChunkLen(job, addr) \in 0 .. End(job) - addr
    BY <1>1, ChunkFits
  <2>2. End(job) \in job.start + 1 .. MemSize
    BY <1>1, RangeFits
  <2>3. job.start \in Nat
    BY <1>1, JobFields
  <2> QED
    BY <1>1, <1>2, <2>1, <2>2, <2>3, ChipAssumption
<1>4. /\ pc' \in Steps /\ job.op \in OpsAt(pc')
      /\ verdict' \in Verdicts /\ verdict' # "refused"
  <2>1. CASE LoopEnds(job, addr', cancel')
    BY <1>1, <1>2, <2>1, LeaveFits DEF Advance, IInv, Verdicts
  <2>2. CASE ~LoopEnds(job, addr', cancel')
    <3>1. /\ verdict' = verdict
          /\ pc' = IF job.op = "write" THEN LoopHead(job, addr') ELSE "read"
      BY <2>2 DEF Advance, Goto
    <3> QED
      BY <1>1, <3>1 DEF LoopHead, Steps, OpsAt, Looping
  <2> QED
    BY <2>1, <2>2
<1> QED
  BY <1>1, <1>2, <1>3, <1>4 DEF IInv, TypeOK, OpFits, LoopSound, histVars, linkVars

\* The line after the finally block.
LEMMA ReportFits ==
  ASSUME IInv, Report
  PROVE  IInv'
<1>1. job.op \in Looping /\ verdict # "refused"
  BY DEF IInv, OpFits, OpsAt, Report
<1>2. /\ verdict' \in {"aborted", "done", "wrong"} /\ pc' = "close"
      /\ UNCHANGED <<chip, linkVars, histVars, job, queue, addr, count, image, cancel,
                     warned, clicks>>
  BY DEF Report, Goto
<1>3. pc' \in Steps /\ job.op \in OpsAt(pc') /\ verdict' \in Verdicts
  BY <1>1, <1>2 DEF Steps, OpsAt, Verdicts
<1> QED
  BY <1>1, <1>2, <1>3 DEF IInv, TypeOK, OpFits, LoopSound, histVars, linkVars

\* The handler's finally block, or the verify of an SST write.
LEMMA CloseFits ==
  ASSUME IInv, Close
  PROVE  IInv'
<1>1. /\ chip \in Chips /\ job \in JobType
      /\ UNCHANGED <<chip, linkVars, queue, image, cancel, warned, clicks>>
  BY DEF IInv, TypeOK, Close
<1>2. CASE VerifyAfter(job) /\ verdict # "refused"
  <2>1. job.op = "write" /\ ~Refused(job) /\ addr \in job.start .. End(job)
    BY <1>2 DEF VerifyAfter, IInv, LoopSound, Looping
  <2>2. /\ job' = [job EXCEPT !.op = "verify"]
        /\ pc' = (IF Wide(job) THEN "en_wren" ELSE "read")
        /\ addr' = job.start /\ count' = 0 /\ verdict' = "none"
        /\ before' = chip.mem /\ clean' = Pristine(chip)
    BY <1>2 DEF Close, Goto
  <2>3. /\ job' \in JobType /\ job'.op = "verify" /\ job'.start = job.start
        /\ job'.size = job.size
    BY <1>1, <2>1, <2>2 DEF JobType
  <2>4. ~Refused(job') /\ End(job') = End(job)
    BY <2>1, <2>3 DEF Refused, End
  <2>5. addr' \in job'.start .. End(job') /\ addr' \in 0 .. MemSize
    <3>1. End(job) \in job.start + 1 .. MemSize /\ job.start \in Nat
      BY <1>1, <2>1, RangeFits, JobFields DEF Looping
    <3> QED
      BY <2>2, <2>3, <2>4, <3>1, ChipAssumption
  <2>6. before' \in [Addr -> Byte] /\ clean' \in BOOLEAN
    BY <1>1, <2>2 DEF Chips, Pristine, Quiet, Listening
  <2>7. pc' \in Steps /\ job'.op \in OpsAt(pc')
    BY <2>2, <2>3 DEF Steps, OpsAt, Looping
  <2>8. verdict' \in Verdicts /\ verdict' # "refused" /\ count' \in Int
    BY <2>2 DEF Verdicts
  <2> QED
    BY <1>1, <2>3, <2>4, <2>5, <2>6, <2>7, <2>8
    DEF IInv, TypeOK, OpFits, LoopSound, linkVars
<1>3. CASE ~(VerifyAfter(job) /\ verdict # "refused")
  <2>1. pc' = "idle" /\ UNCHANGED <<job, addr, count, verdict, histVars>>
    BY <1>3 DEF Close, Goto
  <2>2. pc' \in Steps /\ job.op \in OpsAt(pc')
    BY <1>1, <2>1, JobFields DEF Steps, OpsAt, Looping
  <2> QED
    BY <1>1, <2>1, <2>2 DEF IInv, TypeOK, OpFits, LoopSound, linkVars, histVars
<1> QED
  BY <1>2, <1>3

\* Every step of the program and of the part keeps the invariant.
LEMMA IInvStep ==
  ASSUME IInv, [Next]_vars
  PROVE  IInv'
<1>1. CASE Click \/ NextOfCombo
  BY <1>1, StartActionsFit
<1>2. CASE EN4B \/ EX4B \/ Wrdi \/ Wren \/ ChipErase \/ WriteSR \/ ShowStatus
  BY <1>2, ModeActionsFit
<1>3. CASE ChipFinishes
  <2>1. chip' \in Chips /\ UNCHANGED <<hostVars, linkVars, histVars>>
    BY <1>3, ModeEffects DEF ChipFinishes, IInv, TypeOK
  <2> QED
    BY <2>1 DEF IInv, TypeOK, OpFits, LoopSound, hostVars, linkVars, histVars
<1>4. CASE UNCHANGED vars
  BY <1>4 DEF vars, IInv, TypeOK, OpFits, LoopSound, hostVars, linkVars, histVars
<1> QED
  BY <1>1, <1>2, <1>3, <1>4, CheckLocksFits, ProgramFits, CheckFits, WaitReadyFits,
     ReadBodyFits, AdvanceFits, ReportFits, CloseFits DEF Next, Host

\* And it holds when the program has just started.
LEMMA IInvInit ==
  ASSUME Init
  PROVE  IInv
<1>1. chip \in Chips /\ before \in [Addr -> Byte]
  BY ChipAssumption, JobsAssumption DEF Init, Chips
<1>2. job \in JobType /\ job.op = "unlock"
  <2>1. 0 \in Addr /\ <<>> \in Seq(Byte)
    BY ChipAssumption, EmptySeq DEF Addr
  <2>2. 0 \in 0 .. MemSize /\ 1 \in Nat \ {0}
    BY ChipAssumption
  <2> QED
    BY <2>1, <2>2 DEF Init, NoJob, JobType
<1>3. /\ sticky \in BOOLEAN /\ link \in {"up", "down"} /\ faults \in 0 .. MaxFaults
      /\ clicks \in 0 .. MaxJobs /\ addr \in 0 .. MemSize
  BY ChipAssumption, JobsAssumption DEF Init
<1>4. /\ pc \in Steps /\ job.op \in OpsAt(pc) /\ verdict \in Verdicts
      /\ verdict # "refused"
  BY <1>2 DEF Init, Steps, OpsAt, Verdicts, Looping
<1>5. queue \in Seq(JobType) /\ image \in Seq(Byte)
  BY EmptySeq DEF Init
<1>6. cancel = FALSE /\ warned = FALSE /\ clean = TRUE /\ count = 0
  BY DEF Init
<1>7. TypeOK
  <2>1. cancel \in BOOLEAN /\ warned \in BOOLEAN /\ clean \in BOOLEAN
    BY <1>6, Zenon
  <2>2. count \in Int
    BY <1>6
  <2> QED
    BY <1>1, <1>2, <1>3, <1>4, <1>5, <2>1, <2>2 DEF TypeOK
<1>8. OpFits /\ LoopSound
  BY <1>2, <1>4 DEF OpFits, LoopSound, Looping
<1> QED
  BY <1>7, <1>8 DEF IInv

\* For every part, buffer, page size and chunk size the loops of main.pas keep
\* their address inside the part and everything else what it is meant to be.
THEOREM Flash25TypeOK == Spec => []TypeOK
<1>1. Init => IInv
  BY IInvInit
<1>2. IInv /\ [Next]_vars => IInv'
  BY IInvStep
<1>3. IInv => TypeOK
  BY DEF IInv
<1> QED
  BY <1>1, <1>2, <1>3, PTL DEF Spec

-----------------------------------------------------------------------------
(***************************************************************************)
(* Reading.                                                                *)
(***************************************************************************)
\* No address of a pass is past what the address bytes can express.
LEMMA WireIsAddress ==
  ASSUME NEW j \in JobType, NEW a \in Nat, a < End(j)
  PROVE  Wire(Width(j), a) = a
<1>1. CASE Wide(j)
  BY <1>1 DEF Wire, Width
<1>2. CASE ~Wide(j)
  <2>1. a < Limit3B
    BY <1>2, ChipAssumption, JobFields DEF Wide
  <2>2. a % Limit3B = a
    BY <2>1, ChipAssumption, Remainder
  <2> QED
    BY <1>2, <2>2 DEF Wire, Width
<1> QED
  BY <1>1, <1>2

\* Inside the part the address counter does not wrap.
LEMMA RunIsRange ==
  ASSUME NEW a \in Nat, NEW n \in Nat, a + n <= MemSize
  PROVE  \A i \in 1 .. n : Run(a, n)[i] = a + i - 1
<1>1. SUFFICES ASSUME NEW i \in 1 .. n
               PROVE  (a + i - 1) % MemSize = a + i - 1
  BY DEF Run
<1>2. a + i - 1 \in Nat /\ a + i - 1 < MemSize
  BY ChipAssumption
<1> QED
  BY <1>2, Remainder, ChipAssumption

\* A part that is quiet and in step answers with what it holds from address a
\* on.
LEMMA AnswerIsContents ==
  ASSUME NEW c \in Chips, NEW j \in JobType, j.op \in Looping, ~Refused(j),
         NEW a \in j.start .. End(j) - 1,
         Quiet(c), InStep(c, Width(j)),
         NEW data \in Answers(c, Width(j), a, ChunkLen(j, a))
  PROVE  \A k \in 1 .. ChunkLen(j, a) : data[k] = c.mem[a + k - 1]
<1>1. /\ j.start \in Nat /\ End(j) \in j.start + 1 .. MemSize /\ a \in Nat
      /\ ChunkLen(j, a) \in 0 .. End(j) - a
  BY JobFields, RangeFits, ChunkFits
<1>2. data = Stored(c, a, ChunkLen(j, a))
  BY <1>1, WireIsAddress DEF Answers
<1>3. \A k \in 1 .. ChunkLen(j, a) : Run(a, ChunkLen(j, a))[k] = a + k - 1
  BY <1>1, ChipAssumption, RunIsRange
<1> QED
  BY <1>2, <1>3 DEF Stored

\* Nothing is claimed of the operations that are not reads.
LEMMA NotReading ==
  ASSUME job'.op # "read"
  PROVE  ReadInv'
  BY DEF ReadInv, Untouched, Counted, ImageIsPrefix, Reading

\* A read begins with an empty image and, if it is trusted, on a quiet part.
LEMMA StartReads ==
  ASSUME IInv, NEW j \in JobType, Start(j)
  PROVE  ReadInv'
<1>1. CASE j.op # "read"
  BY <1>1, NotReading DEF Start
<1>2. CASE j.op = "read"
  <2>1. /\ job' = j /\ image' = <<>> /\ count' = 0 /\ addr' = j.start
        /\ before' = chip.mem /\ clean' = Pristine(chip) /\ chip' = chip
    BY DEF Start
  <2>2. \/ pc' = "close" /\ verdict' = "refused"
        \/ pc' = FirstStep(j) /\ verdict' = "none" /\ ~Refused(j)
    BY DEF Start
  <2>3. FirstStep(j) = IF Wide(j) THEN "en_wren" ELSE "read"
    BY <1>2 DEF FirstStep, Body
  <2>4. Len(image') = 0 /\ DOMAIN image' = {}
    BY <2>1
  <2>5. Untouched'
    <3>1. SUFFICES ASSUME clean', pc' \in Fetching
                   PROVE  /\ chip'.mem = before' /\ Quiet(chip')
                          /\ pc' \in {"read", "advance"} => InStep(chip', Width(job'))
                          /\ pc' # "en_bank"
      BY DEF Untouched, Reading, Trusted
    <3>2. Quiet(chip) /\ ~chip.four
      BY <2>1, <3>1 DEF Pristine
    <3>3. pc' = "en_wren" \/ (pc' = "read" /\ ~Wide(j))
      BY <2>2, <2>3, <3>1 DEF Fetching
    <3> QED
      BY <2>1, <3>2, <3>3 DEF InStep, Width
  <2>6. Counted'
    <3>1. ~Refused(j) => j.start \in Nat /\ End(j) \in j.start + 1 .. MemSize
      BY <1>2, RangeFits, JobFields DEF Looping
    <3> QED
      BY <1>2, <2>1, <2>2, <2>3, <2>4, <3>1, JobFields DEF Counted
  <2>7. ImageIsPrefix'
    BY <2>4 DEF ImageIsPrefix
  <2> QED
    BY <2>5, <2>6, <2>7 DEF ReadInv
<1> QED
  BY <1>1, <1>2

\* Entering and leaving four byte mode around a read.
LEMMA ModesRead ==
  ASSUME IInv, ReadInv, EN4B \/ EX4B, job.op = "read"
  PROVE  ReadInv'
<1>1. UNCHANGED <<before, clean, job, addr, count, image, verdict>>
  BY DEF EN4B, EX4B, ModeFrame, histVars
<1>2. chip \in Chips
  BY DEF IInv, TypeOK
<1>3. CASE EN4B
  <2>1. PICK ok \in BOOLEAN :
          \/ /\ pc = "en_wren" /\ pc' = "en_op" /\ Frame(ok, WriteEnable(chip))
          \/ /\ pc = "en_op" /\ pc' = "en_bank"
             /\ Frame(ok, SetFour(chip, "opcode", TRUE))
          \/ /\ pc = "en_bank" /\ pc' = "read"
             /\ Frame(ok, SetFour(chip, "bank", TRUE))
    BY <1>3 DEF EN4B, ModeFrame, Goto, Body
  <2>2. Wide(job)
    BY <2>1 DEF ReadInv, Counted
  <2>3. sticky' = sticky
    BY <2>1 DEF Frame
  <2>4. Untouched'
    <3>1. SUFFICES ASSUME Trusted, link' = "up"
                   PROVE  /\ chip'.mem = before /\ Quiet(chip')
                          /\ pc' = "read" => chip'.four
                          /\ pc' = "en_bank" /\ chip'.latch = "opcode" => chip'.four
      BY <1>1, <2>1, <2>2, <2>3 DEF Untouched, Reading, Trusted, InStep, Width, Wide, End
    <3>2. ok /\ link = "up"
      BY <2>1, <2>2, <2>3, <3>1 DEF Frame, Trusted
    <3>3. /\ chip.mem = before /\ Quiet(chip)
          /\ pc = "en_bank" /\ chip.latch = "opcode" => chip.four
      BY <2>1, <3>1, <3>2 DEF ReadInv, Untouched, Reading, Fetching
    <3>4. \/ pc = "en_wren" /\ pc' = "en_op" /\ chip' \in WriteEnable(chip)
          \/ pc = "en_op" /\ pc' = "en_bank" /\ chip' \in SetFour(chip, "opcode", TRUE)
          \/ pc = "en_bank" /\ pc' = "read" /\ chip' \in SetFour(chip, "bank", TRUE)
      BY <2>1, <3>2 DEF Frame
    <3> QED
      BY <1>2, <3>3, <3>4 DEF WriteEnable, SetFour, Quiet, Listening, Chips
  <2>5. Counted'
    BY <1>1, <2>1, <2>2 DEF ReadInv, Counted, Wide, End, Expected
  <2>6. ImageIsPrefix'
    BY <1>1, <2>3 DEF ReadInv, ImageIsPrefix, Trusted, Wide, End
  <2> QED
    BY <2>4, <2>5, <2>6 DEF ReadInv
<1>4. CASE EX4B
  <2>1. PICK ok \in BOOLEAN : \E E : Frame(ok, E) 
    BY <1>4 DEF EX4B, ModeFrame
  <2>2. sticky' = sticky
    BY <2>1 DEF Frame
  <2>3. pc' \in {"ex_op", "ex_bank", "report"}
    BY <1>4 DEF EX4B, ModeFrame, Goto, AfterModes
  <2>4. Untouched'
    BY <2>3 DEF Untouched, Fetching
  <2>5. Counted'
    <3>1. pc \notin {"close", "idle"}
      BY <1>4 DEF EX4B, ModeFrame
    <3> QED
      BY <1>1, <2>3, <3>1 DEF ReadInv, Counted, Expected
  <2>6. ImageIsPrefix'
    BY <1>1, <2>2 DEF ReadInv, ImageIsPrefix, Trusted, Wide, End
  <2> QED
    BY <2>4, <2>5, <2>6 DEF ReadInv
<1> QED
  BY <1>3, <1>4

\* One chunk: it is added to the image only when it was read, and then it is
\* what the part holds.
LEMMA ReadBodyReads ==
  ASSUME IInv, ReadInv, ReadBody, job.op = "read"
  PROVE  ReadInv'
<1>1. /\ chip \in Chips /\ job \in JobType /\ pc = "read" /\ ~Refused(job)
      /\ addr \in job.start .. End(job) /\ image \in Seq(Byte)
      /\ job.start \in Nat
  BY JobFields DEF IInv, TypeOK, OpFits, LoopSound, ReadBody, Looping
<1>2. /\ count = Len(image) /\ addr = job.start + Len(image) /\ addr < End(job)
      /\ verdict # "done"
  BY <1>1 DEF ReadInv, Counted
<1>3. UNCHANGED <<before, clean, job, addr>>
  BY DEF ReadBody, histVars
<1>a. PICK ok \in BOOLEAN :
        \E data \in Buffer(ok, job, addr) : Frame(ok, {chip}) /\ Take(ok, data)
  BY DEF ReadBody
<1>4. PICK data \in Buffer(ok, job, addr) : Frame(ok, {chip}) /\ Take(ok, data)
  BY <1>a
<1>5. /\ data \in Seq(Byte) /\ Len(data) = ChunkLen(job, addr)
      /\ ChunkLen(job, addr) \in Nat
  BY <1>1, BufferFits, ChunkFits
<1>6. sticky' = sticky
  BY <1>4 DEF Frame
<1>7. CASE ~ok
  <2>1. Leave("none") /\ UNCHANGED <<count, image>>
    BY <1>4, <1>5, <1>7 DEF Take, Got
  <2>2. pc' \in {"ex_wren", "report"} /\ verdict' = "none"
    BY <2>1 DEF Leave
  <2>3. Untouched'
    BY <2>2 DEF Untouched, Fetching
  <2>4. Counted'
    BY <1>2, <1>3, <2>1, <2>2 DEF Counted
  <2>5. ImageIsPrefix'
    BY <1>3, <1>6, <2>1 DEF ReadInv, ImageIsPrefix, Trusted, Wide, End
  <2> QED
    BY <2>3, <2>4, <2>5 DEF ReadInv
<1>8. CASE ok
  <2>1. /\ count' = count + Len(data) /\ image' = image \o data
        /\ pc' = "advance" /\ verdict' = verdict
    BY <1>4, <1>8 DEF Take, Got, Goto
  <2>2. link = "up" /\ chip' = chip
    BY <1>4, <1>8 DEF Frame
  <2>3. /\ Len(image') = Len(image) + Len(data)
        /\ \A i \in 1 .. Len(image) + Len(data) :
             image'[i] = IF i <= Len(image) THEN image[i] ELSE data[i - Len(image)]
        /\ DOMAIN image' = 1 .. Len(image) + Len(data)
        /\ DOMAIN image = 1 .. Len(image) /\ Len(image) \in Nat
    <3>1. /\ image' \in Seq(Byte) /\ Len(image') = Len(image) + Len(data)
          /\ \A i \in 1 .. Len(image) + Len(data) :
               image'[i] = IF i <= Len(image) THEN image[i] ELSE data[i - Len(image)]
      BY <1>1, <1>5, <2>1, ConcatProperties
    <3>2. DOMAIN image' = 1 .. Len(image') /\ DOMAIN image = 1 .. Len(image)
      BY <1>1, <3>1, LenProperties
    <3>3. Len(image) \in Nat
      BY <1>1, LenProperties
    <3> QED
      BY <3>1, <3>2, <3>3
  <2>4. Untouched'
    BY <1>1, <1>3, <1>6, <2>1, <2>2
    DEF ReadInv, Untouched, Reading, Trusted, Fetching, Wide, Width, End
  <2>5. Counted'
    <3>1. ChunkLen(job', addr') = ChunkLen(job, addr) /\ End(job') = End(job)
      BY <1>3
    <3> QED
      BY <1>1, <1>2, <1>3, <1>5, <2>1, <2>3, <3>1 DEF Counted
  <2>6. ImageIsPrefix'
    <3>1. SUFFICES ASSUME Trusted, NEW i \in 1 .. Len(image) + Len(data)
                   PROVE  image'[i] = before[job.start + i - 1]
      BY <1>3, <1>6, <2>3 DEF ImageIsPrefix, Trusted, Wide, End
    <3>2. CASE i <= Len(image)
      BY <2>3, <3>1, <3>2 DEF ReadInv, ImageIsPrefix
    <3>3. CASE i > Len(image)
      <4>1. Quiet(chip) /\ InStep(chip, Width(job)) /\ chip.mem = before
        BY <1>1, <2>2, <3>1 DEF ReadInv, Untouched, Reading, Fetching
      <4>2. data \in Answers(chip, Width(job), addr, ChunkLen(job, addr))
        BY <1>8 DEF Buffer
      <4>3. addr \in job.start .. End(job) - 1
        BY <1>1, <1>2, JobFields
      <4>4. \A k \in 1 .. ChunkLen(job, addr) : data[k] = chip.mem[addr + k - 1]
        BY <1>1, <4>1, <4>2, <4>3, AnswerIsContents DEF Looping
      <4>5. i - Len(image) \in 1 .. ChunkLen(job, addr)
        BY <1>5, <2>3, <3>1, <3>3
      <4>6. data[i - Len(image)] = before[addr + (i - Len(image)) - 1]
        BY <4>1, <4>4, <4>5
      <4>7. addr + (i - Len(image)) - 1 = job.start + i - 1
        BY <1>1, <1>2, <2>3, <3>1
      <4> QED
        BY <2>3, <3>1, <3>3, <4>6, <4>7
    <3> QED
      BY <2>3, <3>1, <3>2, <3>3
  <2> QED
    BY <2>4, <2>5, <2>6 DEF ReadInv
<1> QED
  BY <1>7, <1>8

\* The address moves past the chunk that was added.
LEMMA AdvanceReads ==
  ASSUME IInv, ReadInv, Advance, job.op = "read"
  PROVE  ReadInv'
<1>1. /\ pc = "advance"
      /\ UNCHANGED <<chip, sticky, link, before, clean, job, count, image>>
      /\ addr' = addr + ChunkLen(job, addr)
  BY DEF Advance, linkVars, histVars
<1>2. /\ addr' = job.start + Len(image) /\ count = Len(image) /\ verdict # "done"
  BY <1>1 DEF ReadInv, Counted
<1>3. ImageIsPrefix'
  BY <1>1 DEF ReadInv, ImageIsPrefix, Trusted, Wide, End
<1>4. CASE LoopEnds(job, addr', cancel')
  <2>1. pc' \in {"ex_wren", "report"} /\ verdict' = "none"
    BY <1>1, <1>4 DEF Advance, Leave
  <2>2. Untouched' /\ Counted'
    BY <1>1, <1>2, <2>1 DEF Untouched, Counted, Fetching
  <2> QED
    BY <1>3, <2>2 DEF ReadInv
<1>5. CASE ~LoopEnds(job, addr', cancel')
  <2>1. pc' = "read" /\ verdict' = verdict
    BY <1>1, <1>5 DEF Advance, Goto
  <2>2. addr' < End(job)
    <3>1. addr' \in Nat /\ End(job) \in Nat
      BY IInvStep, JobFields DEF IInv, TypeOK, Next, Host
    <3> QED
      BY <1>5, <3>1 DEF LoopEnds
  <2>3. Untouched'
    BY <1>1, <2>1 DEF ReadInv, Untouched, Reading, Trusted, Fetching, Wide, Width, End
  <2>4. Counted'
    BY <1>1, <1>2, <2>1, <2>2 DEF Counted, End
  <2> QED
    BY <1>3, <2>3, <2>4 DEF ReadInv
<1> QED
  BY <1>4, <1>5

\* Every other step of a read: the report, the end of the handler, the part's own
\* clock, which does not tick while the part is quiet.
LEMMA OthersRead ==
  ASSUME IInv, ReadInv, Report \/ Close \/ ChipFinishes \/ UNCHANGED vars,
         job.op = "read"
  PROVE  ReadInv'
<1>1. UNCHANGED <<sticky, link, before, clean, job, count, image, addr>>
  BY DEF Report, Close, ChipFinishes, VerifyAfter, vars, hostVars, linkVars, histVars
<1>2. ImageIsPrefix'
  BY <1>1 DEF ReadInv, ImageIsPrefix, Trusted, Wide, End
<1>3. CASE Report
  <2>1. pc' = "close" /\ (verdict' = "done" => count = Expected(job))
    BY <1>3 DEF Report, Goto
  <2>2. Untouched' /\ Counted'
    BY <1>1, <1>3, <2>1 DEF ReadInv, Untouched, Counted, Fetching, Expected
  <2> QED
    BY <1>2, <2>2 DEF ReadInv
<1>4. CASE Close
  <2>1. pc' = "idle" /\ verdict' = verdict
    BY <1>4 DEF Close, VerifyAfter, Goto
  <2>2. Untouched' /\ Counted'
    BY <1>1, <2>1 DEF ReadInv, Untouched, Counted, Fetching, Expected
  <2> QED
    BY <1>2, <2>2 DEF ReadInv
<1>5. CASE ChipFinishes
  <2>1. UNCHANGED <<pc, verdict>> /\ chip.busy /\ chip' = Finish(chip)
    BY <1>5 DEF ChipFinishes, hostVars
  <2>2. Untouched'
    BY <1>1, <2>1 DEF ReadInv, Untouched, Reading, Trusted, Wide, End, Quiet, Listening
  <2>3. Counted'
    BY <1>1, <2>1 DEF ReadInv, Counted, Expected, End, Wide, ChunkLen
  <2> QED
    BY <1>2, <2>2, <2>3 DEF ReadInv
<1>6. CASE UNCHANGED vars
  <2>1. UNCHANGED <<pc, verdict, chip>>
    BY <1>6 DEF vars, hostVars
  <2> QED
    BY <1>1, <1>2, <2>1
    DEF ReadInv, Untouched, Reading, Trusted, Counted, Expected, End, Wide, Width,
        ChunkLen, Quiet, Listening
<1> QED
  BY <1>3, <1>4, <1>5, <1>6

\* Every step keeps what is claimed of reads.
LEMMA ReadInvStep ==
  ASSUME IInv, ReadInv, [Next]_vars
  PROVE  ReadInv'
<1>1. CASE Click \/ NextOfCombo
  <2>1. \E j \in JobType : Start(j)
    <3>1. queue \in Seq(JobType)
      BY DEF IInv, TypeOK
    <3>2. CASE NextOfCombo
      BY <3>1, <3>2, HeadTailProperties DEF NextOfCombo
    <3>3. CASE Click
      <4>1. PICK q \in Jobs : Start(Head(q))
        BY <3>3 DEF Click
      <4>2. q \in Seq(JobType) /\ q # <<>>
        BY JobsAssumption
      <4> QED
        BY <4>1, <4>2, HeadTailProperties
    <3> QED
      BY <1>1, <3>2, <3>3
  <2> QED
    BY <2>1, StartReads
<1>2. CASE EN4B \/ EX4B \/ ReadBody \/ Advance \/ Report \/ Close \/ ChipFinishes
           \/ UNCHANGED vars
  <2>1. CASE job.op = "read"
    BY <1>2, <2>1, ModesRead, ReadBodyReads, AdvanceReads, OthersRead
  <2>2. CASE job.op # "read"
    <3>1. job'.op # "read"
      <4>1. CASE Close
        <5>1. job \in JobType
          BY DEF IInv, TypeOK
        <5>2. job' = job \/ job' = [job EXCEPT !.op = "verify"]
          BY <4>1 DEF Close
        <5> QED
          BY <2>2, <5>1, <5>2 DEF JobType
      <4>2. CASE ~Close
        BY <1>2, <2>2, <4>2 DEF EN4B, EX4B, ModeFrame, ReadBody, Advance, Report,
           ChipFinishes, vars, hostVars
      <4> QED
        BY <4>1, <4>2
    <3> QED
      BY <3>1, NotReading
  <2> QED
    BY <2>1, <2>2
<1>3. CASE Wrdi \/ Wren \/ ChipErase \/ WriteSR \/ ShowStatus \/ CheckLocks \/ Program
           \/ Check \/ WaitReady
  <2>1. job' = job
    BY <1>3 DEF Wrdi, Wren, ChipErase, WriteSR, ShowStatus, ModeFrame, CheckLocks,
       Program, Check, WaitReady
  <2>2. pc \in {"wrdi", "wren", "erase", "unprotect", "show", "status", "program",
                "check", "wait"}
    BY <1>3 DEF Wrdi, Wren, ChipErase, WriteSR, ShowStatus, ModeFrame, CheckLocks,
       Program, Check, WaitReady
  <2>3. job.op # "read"
    BY <2>2 DEF IInv, OpFits, OpsAt
  <2> QED
    BY <2>1, <2>3, NotReading
<1> QED
  BY <1>1, <1>2, <1>3 DEF Next, Host

\* For every part, range and chunk size, and whatever frames are lost: the image
\* is at every moment a prefix of what the part held when the read started, and
\* "Done" means that it is the whole range.
THEOREM Flash25ReadFaithful == Spec => []ReadFaithful
<1>1. Init => IInv /\ ReadInv
  <2> SUFFICES ASSUME Init PROVE ReadInv
    BY IInvInit
  <2>1. job.op # "read"
    BY DEF Init, NoJob
  <2> QED
    BY <2>1 DEF ReadInv, Untouched, Counted, ImageIsPrefix, Reading
<1>2. IInv /\ ReadInv /\ [Next]_vars => (IInv /\ ReadInv)'
  BY IInvStep, ReadInvStep
<1>3. IInv /\ ReadInv => ReadFaithful
  BY DEF IInv, ReadInv, Counted, ReadFaithful, DoneIsWhole, Expected
<1> QED
  BY <1>1, <1>2, <1>3, PTL DEF Spec
=============================================================================
