----------------------------- MODULE FlashChip -----------------------------
(***************************************************************************)
(* The 25-series SPI flash on the clip, as far as spi25.pas relies on it.  *)
(* The chip is not part of the repository: every operator below is what    *)
(* the code and its comments take for granted about the part (a chip that  *)
(* is mid cycle discards commands, a program cycle needs the write enable  *)
(* latch, an address outside three bytes wraps, the four byte mode is a    *)
(* latch that survives chip select).                                       *)
(*                                                                         *)
(* A byte is 1 when erased ($FF) and 0 when it holds anything else, so     *)
(* programming can only take a byte from 1 to 0.                           *)
(*                                                                         *)
(* Effects are sets of successor chips: a frame the chip decodes with the  *)
(* wrong number of address bytes lands somewhere the model does not try to *)
(* predict.                                                                *)
(***************************************************************************)
EXTENDS Integers, Sequences

CONSTANTS
  MemSize,    \* number of bytes in the part
  ChipPage,   \* its physical page, the unit a page program wraps in
  Limit3B     \* FLASH_SIZE_128MBIT: what three address bytes can express

ASSUME ChipAssumption ==
  /\ MemSize \in Nat \ {0}
  /\ ChipPage \in Nat \ {0}
  /\ Limit3B \in Nat \ {0}
  /\ MemSize % ChipPage = 0

Byte == {0, 1}
Erased == 1
Addr == 0 .. MemSize - 1
NoAAI == -1

(***************************************************************************)
(* mem: contents; busy: an erase or program cycle is running; wel: write   *)
(* enable latch; four: four byte mode; aai: next address of a running SST  *)
(* auto address increment sequence, or NoAAI; locked: block protection;    *)
(* latch: what switches four byte mode on this part, the $B7/$E9 opcodes or*)
(* the bank register ($17).                                                *)
(***************************************************************************)
Chips == [mem : [Addr -> Byte], busy : BOOLEAN, wel : BOOLEAN, four : BOOLEAN,
          aai : {NoAAI} \cup Addr, locked : BOOLEAN, latch : {"opcode", "bank"}]

\* The chip decodes a command other than a status read only when it is idle.
Listening(c) == ~c.busy

Quiet(c) == Listening(c) /\ c.aai = NoAAI

\* No residue of an earlier operation: what a freshly powered part looks like.
Pristine(c) == Quiet(c) /\ ~c.four

\* The address the chip sees when it decodes w address bytes of a.
Wire(w, a) == IF w = 3 THEN a % Limit3B ELSE a

InStep(c, w) == c.four <=> (w = 4)

(***************************************************************************)
(* Commands.                                                               *)
(***************************************************************************)
WriteEnable(c) == {IF Quiet(c) THEN [c EXCEPT !.wel = TRUE] ELSE c}

WriteDisable(c) ==
  {IF Listening(c) THEN [c EXCEPT !.wel = FALSE, !.aai = NoAAI] ELSE c}

\* $B7/$E9 (by = "opcode") and the bank register write $17 (by = "bank").
SetFour(c, by, on) ==
  {IF Quiet(c) /\ by = c.latch THEN [c EXCEPT !.four = on] ELSE c}

Unprotect(c) ==
  {IF Quiet(c) /\ c.wel
     THEN [c EXCEPT !.locked = FALSE, !.busy = TRUE, !.wel = FALSE] ELSE c}

Writable(c) == Quiet(c) /\ c.wel /\ ~c.locked

EraseAll(c) ==
  {IF Writable(c)
     THEN [c EXCEPT !.mem = [a \in Addr |-> Erased], !.busy = TRUE, !.wel = FALSE]
     ELSE c}

\* Where the n bytes of a page program that starts at a land: past the end of
\* the page it rolls over to the page's first byte.
PageSlots(a, n) ==
  [i \in 1 .. n |-> (a - (a % ChipPage)) + ((a + i - 1) % ChipPage)]

\* Where n bytes from a on lie, the address counter wrapping at the last byte.
Run(a, n) == [i \in 1 .. n |-> (a + i - 1) % MemSize]

Burn(mem, slots, d) ==
  [b \in Addr |->
     IF \E i \in DOMAIN d : slots[i] = b /\ d[i] = 0 THEN 0 ELSE mem[b]]

\* What a page program frame of w address bytes means to the chip. One address
\* byte too few and the first data byte is taken for it, one too many and the
\* address byte is programmed as data; either way at an address of no one's
\* choosing.
Decoded(c, w, a, d) ==
  CASE InStep(c, w)          -> {[at |-> Wire(w, a), data |-> d]}
    [] ~InStep(c, w) /\ w = 3 -> [at : Addr, data : {SubSeq(d, 2, Len(d))}]
    [] ~InStep(c, w) /\ w = 4 -> [at : Addr, data : {<<x>> \o d : x \in Byte}]

ProgramPage(c, w, a, d) ==
  IF ~Writable(c) THEN {c}
  ELSE {[c EXCEPT !.mem = Burn(c.mem, PageSlots(f.at, Len(f.data)), f.data),
                  !.busy = TRUE, !.wel = FALSE] : f \in Decoded(c, w, a, d)}

\* SST auto address increment: the first frame carries the address, the later
\* ones do not, and the latch stays set until a write disable.
Increment(c, a, d) ==
  [c EXCEPT !.mem = Burn(c.mem, Run(a, Len(d)), d),
            !.busy = TRUE, !.aai = (a + Len(d)) % MemSize]

ProgramFirst(c, a, d) == {IF Writable(c) THEN Increment(c, Wire(3, a), d) ELSE c}

ProgramNext(c, d) ==
  {IF Listening(c) /\ c.aai # NoAAI THEN Increment(c, c.aai, d) ELSE c}

\* n bytes from address a on, as the chip would clock them out.
Stored(c, a, n) == [i \in 1 .. n |-> c.mem[Run(a, n)[i]]]

\* What a read frame can return: nothing drives the line while the chip is not
\* listening, and the wrong address width reads from the wrong place.
Answers(c, w, a, n) ==
  CASE ~Quiet(c)                -> [1 .. n -> Byte]
    [] Quiet(c) /\ InStep(c, w)  -> {Stored(c, Wire(w, a), n)}
    [] Quiet(c) /\ ~InStep(c, w) -> {Stored(c, x, n) : x \in Addr}

Finish(c) == [c EXCEPT !.busy = FALSE]
=============================================================================
