---------------------------- MODULE MCBusPirate5 ----------------------------
(***************************************************************************)
(* BusPirate5 with slices of two bytes, so that a transfer of three takes  *)
(* two requests.                                                           *)
(***************************************************************************)
EXTENDS BusPirate5

\* A write that overflows the queue, a read that needs two requests, and a read
\* with nothing queued before it.
MCCalls == {[q |-> <<2, 1>>, w |-> 2, r |-> 0], [q |-> <<1>>, w |-> 0, r |-> 3],
            [q |-> <<>>, w |-> 0, r |-> 1]}

Menu(b, p, r) == [bus |-> b, power |-> p, reset |-> r]

MCMenus == {Menu("SPI", TRUE, FALSE), Menu("SPI", FALSE, TRUE), Menu("I2C", TRUE, FALSE)}

\* One transfer of each kind is enough for a flood of frames.
StrayCalls == {[q |-> <<1>>, w |-> 0, r |-> 1]}

StrayMenus == {Menu("SPI", TRUE, FALSE), Menu("SPI", TRUE, TRUE)}
=============================================================================
