--------------------------- MODULE ProgrammerPort ---------------------------
(***************************************************************************)
(* What a programmer promises to the chip operations above it, whatever    *)
(* link and firmware are in between.  A session is opened, calls are made  *)
(* one after the other, and a call that reports success has put exactly    *)
(* its own symbols on the wires of the chip, once and in order, right      *)
(* behind those of the calls before it; its answer is what the chip gave   *)
(* at those very places.  A call may fail at any moment.  After that       *)
(* nothing is promised about the wires until the session is opened anew.   *)
(***************************************************************************)
EXTENDS Naturals, Sequences

CONSTANTS
  Jobs,             \* the calls a program makes
  Symbols(_),       \* the symbols a call puts on the wires
  NoJob,            \* no call
  Places(_)         \* which of its symbols the chip answers, in order

VARIABLES
  session,          \* "closed", "open", or "broken" by a failed call
  call,             \* the call under way, or NoJob
  base,             \* how much of the wire precedes it
  wire,             \* the symbols the chip has seen in this session
  answer            \* what the last call returned

vars == <<session, call, base, wire, answer>>

Failed == [ok |-> FALSE, data |-> <<>>]

Driven == SubSeq(wire, base + 1, Len(wire))

IsPrefixOf(s, t) == Len(s) <= Len(t) /\ s = SubSeq(t, 1, Len(s))

Init ==
  /\ session = "closed"
  /\ call = NoJob
  /\ base = 0
  /\ wire = <<>>
  /\ answer = Failed

(***************************************************************************)
(* Opening a session: the chip is deselected and has seen nothing.         *)
(***************************************************************************)
Open ==
  /\ call = NoJob
  /\ session' = "open"
  /\ wire' = <<>>
  /\ base' = 0
  /\ answer' = Failed
  /\ UNCHANGED call

Close ==
  /\ call = NoJob
  /\ session' = "closed"
  /\ wire' = <<>>
  /\ base' = 0
  /\ answer' = Failed
  /\ UNCHANGED call

Call(j) ==
  /\ session = "open"
  /\ call = NoJob
  /\ call' = j
  /\ base' = Len(wire)
  /\ answer' = Failed
  /\ UNCHANGED <<session, wire>>

(***************************************************************************)
(* The next symbols of the call, and no others, reach the chip.            *)
(***************************************************************************)
Drive ==
  /\ session = "open"
  /\ call # NoJob
  /\ IsPrefixOf(wire, wire')
  /\ wire' # wire
  /\ IsPrefixOf(SubSeq(wire', base + 1, Len(wire')), Symbols(call))
  /\ UNCHANGED <<session, call, base, answer>>

Succeed ==
  /\ session = "open"
  /\ call # NoJob
  /\ Driven = Symbols(call)
  /\ answer' = [ok |-> TRUE, data |-> [i \in 1..Len(Places(call)) |-> base + Places(call)[i]]]
  /\ call' = NoJob
  /\ base' = 0
  /\ UNCHANGED <<session, wire>>

(***************************************************************************)
(* A call fails, or one is made in a broken session: from here on the      *)
(* wires are anybody's guess, which this module does not describe.         *)
(***************************************************************************)
Break ==
  /\ session' = "broken"
  /\ call' = NoJob
  /\ base' = 0
  /\ wire' = <<>>
  /\ answer' = Failed

Next ==
  \/ Open
  \/ Close
  \/ \E j \in Jobs: Call(j)
  \/ Drive
  \/ Succeed
  \/ Break

Spec == Init /\ [][Next]_vars
=============================================================================
