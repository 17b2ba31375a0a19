----------------------------- MODULE MCFlash25 -----------------------------
(***************************************************************************)
(* Flash25 on a part of three pages of four bytes, the third of which lies *)
(* above what three address bytes reach.                                   *)
(***************************************************************************)
EXTENDS Flash25

Blank == [a \in Addr |-> Erased]
Used == [a \in Addr |-> IF a % 3 = 1 THEN 0 ELSE Erased]
Mixed == [a \in Addr |-> IF a \in {6, 8, 10, 11} THEN 0 ELSE Erased]

MCContents == {Blank, Used, Mixed}

Base == [op |-> "write", start |-> 0, size |-> 0, data |-> <<>>, page |-> 4,
         type |-> "PAGE", check |-> FALSE, ignore |-> FALSE, skip |-> FALSE]

Zeros(n) == [i \in 1 .. n |-> IF i % 2 = 1 THEN 0 ELSE Erased]
Tail4(n) == [i \in 1 .. n |-> IF i > 4 THEN Erased ELSE 0]

Write(a, d) == [Base EXCEPT !.start = a, !.size = Len(d), !.data = d]
Checked(j) == [j EXCEPT !.check = TRUE]
Ignoring(j) == [j EXCEPT !.ignore = TRUE]
Skipping(j) == [j EXCEPT !.skip = TRUE]
Paged(j, n) == [j EXCEPT !.page = n]
SST(j, t) == [j EXCEPT !.type = t, !.page = IF t = "SSTB" THEN 1 ELSE 2]
Verify(a, d) == [Write(a, d) EXCEPT !.op = "verify"]
Read(a, n) == [Base EXCEPT !.op = "read", !.start = a, !.size = n]
Erase == [Base EXCEPT !.op = "erase"]
Unlock == [Base EXCEPT !.op = "unlock"]

Combo(j) == <<Unlock, Erase, Checked(j)>>

\* Unaligned and aligned starts, ranges below, across and above the three byte
\* limit, both SST types, every option, and settings that are refused or that do
\* not suit the part: a page box above its page, an odd length, an AAI sequence
\* beyond three bytes. Checked writes end below the limit as well as above it: on a
\* back end whose frames fail one by one the auto check promises something below
\* it alone.
MCJobs ==
  {<<Write(2, Zeros(5))>>, <<Checked(Write(2, Zeros(5)))>>, <<Checked(Write(6, Zeros(6)))>>,
   <<Checked(Skipping(Write(0, Tail4(7))))>>,
   <<Skipping(Write(4, Tail4(8)))>>, <<Checked(Skipping(Write(4, Tail4(8))))>>,
   <<Ignoring(Checked(Write(8, Zeros(3))))>>, <<Paged(Write(9, Zeros(3)), 1)>>,
   <<SST(Write(1, Zeros(4)), "SSTW")>>, <<SST(Checked(Write(5, Zeros(3))), "SSTB")>>,
   <<Verify(2, Zeros(5))>>, <<Verify(6, Zeros(6))>>,
   <<Read(0, 12)>>, <<Read(3, 8)>>,
   <<Erase>>, Combo(Write(6, Zeros(6))),
   <<Read(8, 8)>>, <<Write(9, Zeros(4))>>,
   <<Paged(Write(0, Zeros(6)), 8)>>, <<SST(Write(1, Zeros(3)), "SSTW")>>,
   <<SST(Write(6, Zeros(3)), "SSTB")>>}

\* One operation of each kind, for two in a row on a part of two pages, the
\* second of them above what three address bytes reach.
MCPairJobs ==
  {<<Checked(Write(2, Zeros(3)))>>, <<Write(0, Zeros(3))>>,
   <<SST(Checked(Write(0, Zeros(2))), "SSTB")>>,
   <<Verify(2, Zeros(3))>>, <<Read(6, 8)>>, <<Erase>>, <<Unlock>>}
MCBlank == {Blank}
=============================================================================
