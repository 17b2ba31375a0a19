----------------------------- MODULE BpioDevice -----------------------------
(***************************************************************************)
(* The Bus Pirate at the other end of the BPIO2 link, as far as            *)
(* buspirate5hw.pas relies on it. Its firmware is not in the repository:   *)
(* one request is served at a time and in order, a configuration ends with *)
(* the chip deselected, a request that is refused is not carried out.      *)
(*                                                                         *)
(* A byte on the SPI bus is the number of the transaction it belongs to.   *)
(***************************************************************************)
EXTENDS Integers, Sequences, FiniteSets, SequencesExt

Buses == {"HiZ", "SPI", "I2C"}
Kinds == {"status", "config", "data"}

(***************************************************************************)
(* A request packet. stale: the host has given up on it; garbled: it did   *)
(* not reach the device as it was sent; by: the transaction it is part of. *)
(***************************************************************************)
Status ==
  [kind |-> "status", stale |-> FALSE, garbled |-> FALSE, bus |-> "HiZ",
   power |-> FALSE, start |-> FALSE, stop |-> FALSE, bytes |-> <<>>, read |-> 0,
   by |-> 0]

Config(c) == [Status EXCEPT !.kind = "config", !.bus = c.bus, !.power = c.power]

Data(start, stop, bytes, read, by) ==
  [Status EXCEPT !.kind = "data", !.start = start, !.stop = stop,
                 !.bytes = bytes, !.read = read, !.by = by]

\* The device: its mode, its supply, chip select, and the transactions whose
\* bytes the chip has seen since it was selected.
Off == [bus |-> "HiZ", power |-> FALSE, cs |-> FALSE, frame |-> {}]

Owners(r) == ToSet(r.bytes) \cup (IF r.read > 0 THEN {r.by} ELSE {})

\* What the chip has in front of it after r's bytes, before r's stop.
Framed(d, r) == IF d.cs \/ r.start THEN d.frame \cup Owners(r) ELSE d.frame

Executed(d, r) ==
  CASE r.kind = "status" -> d
    [] r.kind = "config" -> [bus |-> r.bus, power |-> r.power, cs |-> FALSE, frame |-> {}]
    [] r.kind = "data" /\ r.stop  -> [d EXCEPT !.cs = FALSE, !.frame = {}]
    [] r.kind = "data" /\ ~r.stop -> [d EXCEPT !.cs = d.cs \/ r.start, !.frame = Framed(d, r)]

\* Whether the device can do what it is asked.
Understood(d, r) == ~r.garbled /\ (r.kind = "data" => d.bus = "SPI")

(***************************************************************************)
(* Response packets. error: none, the packet's own error string (outer),   *)
(* the response table's (inner), a frame that cannot be decoded, or data   *)
(* the device sent on its own (async).                                     *)
(***************************************************************************)
Answer(r, error) ==
  [kind |-> r.kind, stale |-> r.stale, error |-> error, read |-> r.read]

\* A frame that answers nothing.
Stray(error) == [kind |-> "data", stale |-> TRUE, error |-> error, read |-> 0]

Outdated(s) == [i \in DOMAIN s |-> [s[i] EXCEPT !.stale = TRUE]]
=============================================================================
