------------------------------ MODULE Flash25 ------------------------------
(***************************************************************************)
(* The 25-series operations of main.pas: Read, Write, Verify, Erase,       *)
(* Unlock and the Unlock-Erase-Write combination, over the frames spi25.pas*)
(* sends to the chip of module FlashChip.                                  *)
(*                                                                         *)
(* One step is one chip select framed transaction, or one pass of the      *)
(* loop's bookkeeping. Between any two steps the chip may finish its cycle,*)
(* and every frame may fail; where the code pumps the message queue the    *)
(* user may press Cancel.                                                  *)
(***************************************************************************)
EXTENDS FlashChip

CONSTANTS
  Jobs,        \* what the user can click: sequences of handler runs
  Contents,    \* what the part may hold before the first operation
  ReadChunk,   \* ChunkSize of the read and verify loops, set by the back end
  BackEnds,    \* which kinds of back end to consider, see sticky
  MaxJobs,     \* bound on the clicks of one behaviour
  MaxFaults    \* bound on the frames that fail in one behaviour

(***************************************************************************)
(* op: which button; start, size: StartAddress and the number of bytes the *)
(* pass covers (for a read the end of the chip, as ReadFlash25 takes it);  *)
(* data: the hex editor's contents; page, type: the page size box, in      *)
(* which SSTB stands for 1 and SSTW for 2; check, ignore, skip: the options*)
(* Auto check, Ignore busy bit and Skip FF.                                *)
(***************************************************************************)
JobType ==
  {j \in [op : {"read", "write", "verify", "erase", "unlock"},
          start : Addr, size : 0 .. MemSize, data : Seq(Byte),
          page : Nat \ {0}, type : {"PAGE", "SSTB", "SSTW"},
          check : BOOLEAN, ignore : BOOLEAN, skip : BOOLEAN] :
     /\ j.op \in {"write", "verify"} => Len(j.data) = j.size
     /\ j.type = "SSTB" => j.page = 1
     /\ j.type = "SSTW" => j.page = 2}

ASSUME JobsAssumption ==
  /\ Jobs \subseteq Seq(JobType) \ {<<>>}
  /\ Contents \subseteq [Addr -> Byte]
  /\ ReadChunk \in Nat \ {0}
  /\ BackEnds \subseteq BOOLEAN
  /\ MaxJobs \in Nat
  /\ MaxFaults \in Nat

VARIABLES
  chip,     \* the part, see FlashChip!Chips
  sticky,   \* a failed frame makes every later one fail until DevOpen, as on
            \* the Bus Pirates after a desync; or it fails alone, as a request
            \* BPIO2 refuses does
  link,     \* "up", or "down" after a failed frame on a sticky back end
  faults,   \* frames that have failed so far
  clicks,   \* operations the user has started so far
  pc,       \* where the running handler is
  job,      \* the operation that is running, or ran last
  queue,    \* the handlers ComboItem1Click has still to call
  addr,     \* Address of the loop
  count,    \* BytesWrite or BytesRead
  image,    \* RomStream, what a read has collected
  cancel,   \* ButtonCancel.Tag
  warned,   \* WasProtected
  verdict,  \* what the log says of the operation
  before,   \* history: chip.mem when the operation started
  clean     \* history: the operation started on a chip without residue

hostVars == <<pc, job, queue, addr, count, image, cancel, warned, verdict, clicks>>
linkVars == <<sticky, link, faults>>
histVars == <<before, clean>>
vars == <<chip, hostVars, linkVars, histVars>>

Steps == {"idle", "status", "en_wren", "en_op", "en_bank", "wren", "program",
          "erase", "unprotect", "wait", "check", "read", "advance",
          "show", "ex_wren", "ex_op", "ex_bank", "wrdi", "report", "close"}

Verdicts == {"none", "refused", "aborted", "wrong", "done"}

-----------------------------------------------------------------------------
(***************************************************************************)
(* What the loops compute.                                                 *)
(***************************************************************************)
End(j) == IF j.op = "read" THEN j.size ELSE j.start + j.size

\* Mutant of Wide: decided by how many bytes the pass moves.
WideBySize(j) == j.size > Limit3B

\* Four byte addressing: by the highest address touched, or by the chip size
\* for a read, which is the same number.
Wide(j) == End(j) > Limit3B

Width(j) == IF Wide(j) THEN 4 ELSE 3

Least(m, n) == IF m < n THEN m ELSE n

\* Mutants of FirstPage: not cut at all; computed from the chip size, which is
\* 0 for an aligned start.
FirstPageWhole(j) == j.page
FirstPageFromChip(j) == (MemSize - j.start) % j.page

\* The first page is cut at the page boundary, the later ones are whole.
FirstPage(j) == j.page - (j.start % j.page)

PageLen(j, a) ==
  Least(IF a = j.start /\ j.page > 2 THEN FirstPage(j) ELSE j.page, End(j) - a)

ChunkLen(j, a) ==
  IF j.op = "write" THEN PageLen(j, a) ELSE Least(ReadChunk, End(j) - a)

Part(j, a) == SubSeq(j.data, (a - j.start) + 1, (a - j.start) + ChunkLen(j, a))

SkipPage(j, a) ==
  /\ j.type = "PAGE"
  /\ j.skip
  /\ \A i \in DOMAIN Part(j, a) : Part(j, a)[i] = Erased

\* What a program frame carries. WriteSSTW always sends DataChunk[0] and
\* DataChunk[1]; when one byte is left the second is the previous pair's.
Sent(j, a) ==
  IF j.type = "SSTW" /\ a # j.start /\ Len(Part(j, a)) = 1
    THEN Part(j, a) \o <<j.data[a - j.start]>> ELSE Part(j, a)

\* Mutant of LoopHead: one WREN for the whole write.
LoopHeadOnce(j, a) == IF a = j.start THEN "wren" ELSE "program"

\* WREN comes before every page, but only once before an AAI sequence.
LoopHead(j, a) ==
  IF j.type = "PAGE" \/ a = j.start THEN "wren" ELSE "program"

\* Mutant of LoopEnds: Cancel is not looked at.
LoopEndsAtEnd(j, a, cancelled) == a >= End(j)

LoopEnds(j, a, cancelled) == cancelled \/ a >= End(j)

Body(j) == IF j.op = "write" THEN LoopHead(j, j.start) ELSE "read"

FirstStep(j) ==
  CASE j.op \in {"write", "erase", "unlock"} -> "status"
    [] j.op \in {"read", "verify"} -> IF Wide(j) THEN "en_wren" ELSE Body(j)

\* Mutant of Refused: a buffer that does not fit behind StartAddress is written.
RefusedLate(j) == j.op = "read" /\ (j.size = 0 \/ j.start >= j.size)

\* STR_CHECK_SETTINGS and STR_WRONG_FILE_SIZE.
Refused(j) ==
  \/ j.op = "read" /\ (j.size = 0 \/ j.start >= j.size)
  \/ j.op \in {"write", "verify"} /\ (j.size = 0 \/ j.size > MemSize - j.start)

-----------------------------------------------------------------------------
(***************************************************************************)
(* One frame. ok is what the call reports; a frame reported as failed may  *)
(* have reached the chip all the same. effects is the set of chips it can  *)
(* leave behind.                                                           *)
(***************************************************************************)
Frame(ok, effects) ==
  /\ ok => link = "up"
  /\ chip' \in CASE ok                   -> effects
                 [] ~ok /\ link = "up"   -> effects \cup {chip}
                 [] ~ok /\ link = "down" -> {chip}
  /\ faults' = IF ok \/ link = "down" THEN faults ELSE faults + 1
  /\ faults' <= MaxFaults
  /\ link' = IF ok \/ ~sticky THEN link ELSE "down"
  /\ UNCHANGED sticky

\* Mutant of Got: the result of a read is not looked at.
GotUnchecked(ok, n) == n

\* What the read calls return for n bytes.
Got(ok, n) == IF ok THEN n ELSE -1

\* What is in the buffer after reading the chunk at address a: when the read
\* failed, whatever was there before.
Buffer(ok, j, a) ==
  LET n == ChunkLen(j, a) IN
  IF ok THEN Answers(chip, Width(j), a, n) ELSE [1 .. n -> Byte]

\* Application.ProcessMessages: the user may have pressed Cancel by now.
Poll == cancel' \in {cancel, TRUE}

Goto(step) == pc' = step

\* The way out of the loop, through the finally block; v is "none" when the
\* byte count still has to be reported.
Leave(v) ==
  /\ verdict' = v
  /\ pc' = CASE Wide(job)                         -> "ex_wren"
             [] ~Wide(job) /\ job.op = "write"    -> "wrdi"
             [] ~Wide(job) /\ job.op # "write"    -> "report"

(***************************************************************************)
(* Starting an operation: the handler resets the Cancel flag, opens the    *)
(* device and checks the settings. A device that does not open, or settings*)
(* that make no sense, go straight to the handler's finally block.         *)
(***************************************************************************)
Start(j) ==
  /\ job' = j
  /\ cancel' = FALSE
  /\ warned' = FALSE
  /\ addr' = j.start
  /\ count' = 0
  /\ image' = <<>>
  /\ before' = chip.mem
  /\ clean' = Pristine(chip)
  /\ \E opened \in {TRUE, link = "up"} :
       /\ link' = IF opened THEN "up" ELSE "down"
       /\ pc' = IF opened /\ ~Refused(j) THEN FirstStep(j) ELSE "close"
       /\ verdict' = IF opened /\ ~Refused(j) THEN "none" ELSE "refused"
  /\ UNCHANGED <<chip, sticky, faults>>

Click ==
  /\ pc = "idle" /\ queue = <<>>
  /\ clicks < MaxJobs
  /\ clicks' = clicks + 1
  /\ \E q \in Jobs : Start(Head(q)) /\ queue' = Tail(q)

\* ComboItem1Click calls the next handler whatever became of the last one.
NextOfCombo ==
  /\ pc = "idle" /\ queue # <<>>
  /\ Start(Head(queue))
  /\ queue' = Tail(queue)
  /\ UNCHANGED clicks

\* IsLockBitsEnabled, and the status ButtonBlockClick shows before it clears it;
\* sreg is 0 unless the read delivered something.
CheckLocks ==
  /\ pc = "status"
  /\ \E ok \in BOOLEAN :
       /\ Frame(ok, {chip})
       /\ warned' = (ok /\ chip.locked /\ job.op # "unlock")
  /\ Goto(CASE job.op \in {"erase", "unlock"}  -> "wren"
            [] job.op = "write" /\ Wide(job)   -> "en_wren"
            [] job.op = "write" /\ ~Wide(job)  -> Body(job))
  /\ UNCHANGED <<histVars, job, queue, addr, count, image, cancel, verdict, clicks>>

-----------------------------------------------------------------------------
(***************************************************************************)
(* The mode frames: EN4B before the loop, EX4B and WRDI in its finally     *)
(* block. None of them looks at the result of SPIWrite.                    *)
(***************************************************************************)
ModeFrame(from, effects, to) ==
  /\ pc = from
  /\ \E ok \in BOOLEAN : Frame(ok, effects)
  /\ Goto(to)
  /\ UNCHANGED <<histVars, job, queue, addr, count, image, cancel, warned, verdict, clicks>>

EN4B ==
  \/ ModeFrame("en_wren", WriteEnable(chip), "en_op")
  \/ ModeFrame("en_op", SetFour(chip, "opcode", TRUE), "en_bank")
  \/ ModeFrame("en_bank", SetFour(chip, "bank", TRUE), Body(job))

AfterModes(j) == IF j.op = "write" THEN "wrdi" ELSE "report"

\* Mutant of EX4B: undoes the opcode and not the bank register.
EX4BOpcodeOnly ==
  \/ ModeFrame("ex_wren", WriteEnable(chip), "ex_op")
  \/ ModeFrame("ex_op", SetFour(chip, "opcode", FALSE), AfterModes(job))

EX4B ==
  \/ ModeFrame("ex_wren", WriteEnable(chip), "ex_op")
  \/ ModeFrame("ex_op", SetFour(chip, "opcode", FALSE), "ex_bank")
  \/ ModeFrame("ex_bank", SetFour(chip, "bank", FALSE), AfterModes(job))

Wrdi == ModeFrame("wrdi", WriteDisable(chip), "report")

Wren ==
  ModeFrame("wren", WriteEnable(chip),
            CASE job.op = "write" -> "program"
              [] job.op = "erase" -> "erase"
              [] job.op = "unlock" -> "unprotect")

\* $62, $60 and $C7: one of the three is the part's opcode.
ChipErase == ModeFrame("erase", EraseAll(chip), "wait")

\* The $50 for old SST parts and the status write; one of them is the part's.
WriteSR == ModeFrame("unprotect", Unprotect(chip), "wait")

\* The status ButtonBlockClick shows after it cleared it.
ShowStatus == ModeFrame("show", {chip}, "close")

-----------------------------------------------------------------------------
(***************************************************************************)
(* The write loop.                                                         *)
(***************************************************************************)
\* What the call returns: the byte count, or the -1 of a failed SPIWrite, one
\* less again for the AAI calls that do not count their opcode.
Returned(ok, j, a) ==
  CASE ok                                        -> Len(Sent(j, a))
    [] ~ok /\ (j.type = "PAGE" \/ a = j.start)   -> -1
    [] ~ok /\ ~(j.type = "PAGE" \/ a = j.start)  -> -2

ProgramEffect(j, a) ==
  CASE j.type = "PAGE"                 -> ProgramPage(chip, Width(j), a, Part(j, a))
    [] j.type # "PAGE" /\ a = j.start  -> ProgramFirst(chip, a, Part(j, a))
    [] j.type # "PAGE" /\ a # j.start  -> ProgramNext(chip, Sent(j, a))

\* Mutant of AfterProgram: a page that was skipped is not read back.
AfterProgramWritten(j) ==
  IF j.check /\ j.type = "PAGE" /\ ~SkipPage(j, addr) THEN "check" ELSE "advance"

AfterProgram(j) == IF j.check /\ j.type = "PAGE" THEN "check" ELSE "advance"

Program ==
  /\ pc = "program"
  /\ IF SkipPage(job, addr)
       THEN /\ count' = count + ChunkLen(job, addr)
            /\ UNCHANGED <<chip, linkVars>>
            /\ Goto(AfterProgram(job))
       ELSE /\ \E ok \in BOOLEAN :
                 /\ Frame(ok, ProgramEffect(job, addr))
                 /\ count' = count + Returned(ok, job, addr)
            /\ Goto(IF job.ignore THEN AfterProgram(job) ELSE "wait")
  /\ UNCHANGED <<histVars, job, queue, addr, image, cancel, warned, verdict, clicks>>

\* The auto check: the page is read back with the width it was written with.
Check ==
  /\ pc = "check"
  /\ \E ok \in BOOLEAN :
     \E data \in Buffer(ok, job, addr) :
       /\ Frame(ok, {chip})
       /\ IF Got(ok, Len(data)) = Len(data) /\ data = Part(job, addr)
            THEN Goto("advance") /\ UNCHANGED verdict
            ELSE Leave("aborted")
  /\ UNCHANGED <<histVars, job, queue, addr, count, image, cancel, warned, clicks>>

(***************************************************************************)
(* WaitChipReady, after a program, an erase and a status write. It ends    *)
(* when the chip is ready, when the status cannot be read, or on Cancel.   *)
(***************************************************************************)
\* Mutant of StopWaiting: a failed status read, or Cancel, counts as busy.
StopWaitingNever == UNCHANGED <<pc, verdict>>

StopWaiting ==
  IF job.op = "write" THEN Leave("aborted") ELSE Goto("close") /\ verdict' = "aborted"

Ready ==
  CASE job.op = "write"  -> Goto(AfterProgram(job)) /\ UNCHANGED verdict
    [] job.op = "erase"  -> Goto("close") /\ verdict' = "done"
    [] job.op = "unlock" -> Goto("show") /\ UNCHANGED verdict

WaitReady ==
  /\ pc = "wait"
  /\ \E ok \in BOOLEAN :
       /\ Frame(ok, {chip})
       /\ \/ /\ ~ok
             /\ StopWaiting /\ UNCHANGED cancel
          \/ /\ ok /\ ~chip.busy
             /\ Ready /\ UNCHANGED cancel
          \/ /\ ok /\ chip.busy
             /\ Poll
             /\ IF cancel' THEN StopWaiting ELSE UNCHANGED <<pc, verdict>>
  /\ UNCHANGED <<histVars, job, queue, addr, count, image, warned, clicks>>

-----------------------------------------------------------------------------
(***************************************************************************)
(* The read and the verify loop: one chunk. A short read leaves a read     *)
(* through Break and a verify through Exit.                                *)
(***************************************************************************)
Take(ok, data) ==
  IF Got(ok, Len(data)) # Len(data)
    THEN /\ Leave(IF job.op = "read" THEN "none" ELSE "aborted")
         /\ UNCHANGED <<count, image>>
    ELSE /\ count' = count + Len(data)
         /\ image' = IF job.op = "read" THEN image \o data ELSE image
         /\ IF job.op = "read" \/ data = Part(job, addr)
              THEN Goto("advance") /\ UNCHANGED verdict
              ELSE Leave("aborted")

ReadBody ==
  /\ pc = "read"
  /\ \E ok \in BOOLEAN :
     \E data \in Buffer(ok, job, addr) : Frame(ok, {chip}) /\ Take(ok, data)
  /\ UNCHANGED <<histVars, job, queue, addr, cancel, warned, clicks>>

\* The end of every loop body: the address moves on, messages are pumped, and
\* a Cancel breaks out of the loop.
Advance ==
  /\ pc = "advance"
  /\ addr' = addr + ChunkLen(job, addr)
  /\ Poll
  /\ IF LoopEnds(job, addr', cancel')
       THEN Leave("none")
       ELSE /\ Goto(IF job.op = "write" THEN LoopHead(job, addr') ELSE "read")
            /\ UNCHANGED verdict
  /\ UNCHANGED <<chip, linkVars, histVars, job, queue, count, image, warned, clicks>>

-----------------------------------------------------------------------------
Expected(j) == IF j.op = "read" THEN j.size - j.start ELSE j.size

\* The line after the finally block, which an Exit inside the loop skips.
Report ==
  /\ pc = "report"
  /\ verdict' = IF verdict = "aborted" THEN "aborted"
                ELSE IF count = Expected(job) THEN "done" ELSE "wrong"
  /\ Goto("close")
  /\ UNCHANGED <<chip, linkVars, histVars, job, queue, addr, count, image, cancel,
                 warned, clicks>>

\* A checked SST write is verified in the same handler, whatever the write did.
VerifyAfter(j) == j.op = "write" /\ j.check /\ j.type # "PAGE"

Close ==
  /\ pc = "close"
  /\ IF VerifyAfter(job) /\ verdict # "refused"
       THEN /\ job' = [job EXCEPT !.op = "verify"]
            /\ Goto(IF Wide(job) THEN "en_wren" ELSE "read")
            /\ addr' = job.start /\ count' = 0 /\ verdict' = "none"
            /\ before' = chip.mem /\ clean' = Pristine(chip)
       ELSE Goto("idle") /\ UNCHANGED <<job, addr, count, verdict, histVars>>
  /\ UNCHANGED <<chip, linkVars, queue, image, cancel, warned, clicks>>

\* The chip's own clock.
ChipFinishes ==
  /\ chip.busy
  /\ chip' = Finish(chip)
  /\ UNCHANGED <<hostVars, linkVars, histVars>>

-----------------------------------------------------------------------------
NoJob == [op |-> "unlock", start |-> 0, size |-> 0, data |-> <<>>, page |-> 1,
          type |-> "PAGE", check |-> FALSE, ignore |-> FALSE, skip |-> FALSE]

Init ==
  /\ chip \in [mem : Contents, busy : {FALSE}, wel : {FALSE}, four : {FALSE},
              aai : {NoAAI}, locked : BOOLEAN, latch : {"opcode", "bank"}]
  /\ sticky \in BackEnds /\ link = "up" /\ faults = 0 /\ clicks = 0
  /\ pc = "idle" /\ job = NoJob /\ queue = <<>>
  /\ addr = 0 /\ count = 0 /\ image = <<>>
  /\ cancel = FALSE /\ warned = FALSE /\ verdict = "none"
  /\ before = chip.mem /\ clean = TRUE

Host ==
  \/ NextOfCombo \/ CheckLocks \/ EN4B \/ EX4B \/ Wrdi \/ Wren \/ ChipErase
  \/ WriteSR \/ ShowStatus \/ Program \/ Check \/ WaitReady \/ ReadBody \/ Advance \/ Report
  \/ Close

Next == Click \/ Host \/ ChipFinishes

Spec == Init /\ [][Next]_vars

\* The handler keeps running. Nobody has to click, and the chip need not finish.
FairSpec == Spec /\ WF_vars(Host)

-----------------------------------------------------------------------------
(***************************************************************************)
(* Properties.                                                             *)
(***************************************************************************)
TypeOK ==
  /\ chip \in Chips
  /\ sticky \in BOOLEAN /\ link \in {"up", "down"} /\ faults \in 0 .. MaxFaults /\ clicks \in 0 .. MaxJobs
  /\ pc \in Steps /\ job \in JobType /\ queue \in Seq(JobType)
  /\ addr \in 0 .. MemSize /\ count \in Int /\ image \in Seq(Byte)
  /\ cancel \in BOOLEAN /\ warned \in BOOLEAN /\ verdict \in Verdicts
  /\ before \in [Addr -> Byte] /\ clean \in BOOLEAN

Target(j) == j.start .. End(j) - 1

\* The operation began on a part without residue, and no frame that selects the
\* addressing width can be lost while the later ones get through.
Trusted == clean /\ (sticky \/ ~Wide(job))

\* The settings of a write fit the part, for which the user answers: the page size
\* box divides the part's page, and a page of two, whose first one WriteFlash25
\* does not cut, starts on an even byte; an AAI sequence needs no fourth address
\* byte, and WriteSSTW has a whole number of pairs to send.
Suited(j) ==
  /\ j.op = "write" /\ j.type = "PAGE" =>
       ChipPage % j.page = 0 /\ (j.page = 2 => j.start % 2 = 0)
  /\ j.op = "write" /\ j.type # "PAGE" => ~Wide(j)
  /\ j.op = "write" /\ j.type = "SSTW" => j.size % 2 = 0

\* Nothing an operation other than an erase does, completed, failed or
\* cancelled, changes a byte outside the range it was asked to write: no page
\* program rolls over its page, and no address is expressed in too few bytes.
\* (main.pas: the first page is trimmed, EN4B depends on the highest address.)
RangeSafe ==
  (Trusted /\ Suited(job) /\ job.op # "erase") =>
    \A b \in Addr :
      (job.op = "write" /\ b \in Target(job)) \/ chip.mem[b] = before[b]

\* A write that logs "Done" without the protection warning has programmed every
\* byte of the buffer, page by page, across every lost frame and cycle time;
\* unless the user asked to ignore the busy bit.
Programmed(j) ==
  \A b \in Target(j) : chip.mem[b] = Least(before[b], j.data[b - j.start + 1])

WriteDone == pc = "close" /\ job.op = "write" /\ verdict = "done"

DoneMeansProgrammed ==
  (WriteDone /\ Suited(job) /\ sticky /\ clean /\ ~job.ignore /\ ~warned) => Programmed(job)

\* With Auto check on, "Done" means the part holds exactly the buffer, even on a
\* back end whose frames fail one by one, where the range ends below the limit: a
\* lost WREN, or a program that alone did not get through, is read back.
CheckedDoneMeansEqual ==
  (WriteDone /\ Trusted /\ Suited(job) /\ job.type = "PAGE" /\ job.check /\ ~job.ignore) =>
    \A b \in Target(job) : chip.mem[b] = job.data[b - job.start + 1]

\* A verify that logs "Done" has compared every byte with the part itself.
VerifyDoneMeansEqual ==
  (pc = "close" /\ job.op = "verify" /\ verdict = "done" /\ Trusted) =>
    \A b \in Target(job) : chip.mem[b] = job.data[b - job.start + 1]

\* "A failed chunk must never reach the image": at every moment of a read the
\* image is a prefix of what the part held, whatever fails, and it is the whole
\* range when the log says "Done".
ImageIsPrefix ==
  (job.op = "read" /\ Trusted) =>
    \A i \in DOMAIN image : image[i] = before[job.start + i - 1]

DoneIsWhole ==
  (pc = "close" /\ job.op = "read" /\ verdict = "done") =>
    Len(image) = job.size - job.start

ReadFaithful == ImageIsPrefix /\ DoneIsWhole

\* Once the handler has seen Cancel it changes no byte of the part any more, not
\* even through the frames of its finally block.
NoWriteAfterCancel == [][cancel /\ cancel' => chip'.mem = chip.mem]_vars

\* An operation that ends with the link up leaves the part as it found it: three
\* byte mode, no AAI sequence, and after a write no write enable; unless the
\* user cancelled while the part was busy or had the busy bit ignored.
ModeRestored ==
  (/\ pc = "close" /\ link = "up" /\ sticky /\ clean /\ verdict # "refused"
   /\ Suited(job) /\ ~job.ignore /\ ~(cancel /\ verdict = "aborted")) =>
    /\ Pristine(chip)
    /\ job.op = "write" => ~chip.wel

\* Every operation ends and gives the interface back, as long as the part does
\* not stay busy for ever: no page of length zero, no wait for a dead link.
Terminates == []<>~chip.busy => ((pc # "idle") ~> (pc = "idle" /\ queue = <<>>))

\* Cancel gets the user out even when the part stays busy for ever.
CancelStops == cancel ~> (pc = "idle")

\* What the comment in WriteFlash25's finally block promises: the part is never
\* left latched in four byte mode, on the abort paths either.
NeverLeftLatched ==
  (pc = "close" /\ link = "up" /\ sticky /\ clean) => ~chip.four

\* What WaitReady's comment says must not happen: a program carried on against
\* a part that is still mid cycle, finishing with "Done".
NoDoneOverBusyChip ==
  (WriteDone /\ sticky /\ ~job.ignore /\ ~warned /\ ~chip.four) => Programmed(job)
=============================================================================
