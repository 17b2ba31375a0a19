------------------------ MODULE BusPirate5LinkProofs ------------------------
(***************************************************************************)
(* What is proved of BusPirate5's exchanges for all bounds: which answers  *)
(* may still come, and that the host knows what it has made of the device. *)
(* The invariant has three layers, each inductive relative to the ones     *)
(* before it: Shape, what the place in the code says of the engine; Wire,  *)
(* what is still under way; Target, what the device is like.               *)
(***************************************************************************)
EXTENDS BusPirate5Proofs, FiniteSetTheorems

RecoverySteps == {"drained", "resync_status", "resync_config"}
Transferring == {"push", "assert", "slice"}
Releasing == {"release", "fast_release", "down_release"}
InUse == {"SPI", "I2C"}

(***************************************************************************)
(* Shape.  Suits(g, p): the record g may be at p.  ReqFits(g, p, r): r is  *)
(* the request the code sends at p.                                        *)
(***************************************************************************)
ModeSuits(g, p) ==
  /\ g.mode # "HiZ"
  /\ p \in Waits \cup Recovery \cup {"opening"} => IsOpen(g)
  /\ g.recovering <=> p \in Recovery
  /\ p \in Connecting => g.mode = "unknown"
  /\ p \in Transferring \cup Releasing => g.mode = "SPI"
  /\ p \in {"ping", "resync_config"} => g.mode \in InUse

SettingsSuit(g, p) ==
  /\ g.mode \in InUse => g.conf.bus = g.mode
  /\ g.applied # None => g.mode \in InUse /\ g.applied = g.conf
  /\ p \in {"ping", "fast_release"} => g.applied = Wanted
  /\ g.opened => p \in {"idle", "session", "release"} \cup Transferring
  /\ g.opened /\ p # "idle" => g.mode \in InUse
  /\ p = "release" /\ g.site = "close" => ~g.opened
  /\ g.told # "none" => p = "idle"

\* What is queued or being sent belongs to the transaction under way.
QueueSuits(g, p) ==
  /\ \A i \in 1 .. Len(g.pending) : g.pending[i] = g.txn
  /\ \A i \in 1 .. Len(g.stream) : g.stream[i] = g.txn
  /\ g.pending # <<>> => g.call # NoCall
  /\ g.stream # <<>> => p \in Transferring
  /\ g.call # NoCall =>
       g.opened /\ p \in {"session"} \cup Transferring /\ g.mode = "SPI" /\ g.site # "deinit"
  /\ p \in Transferring =>
       g.opened /\ g.site # "deinit" /\ (g.stop <=> g.call = NoCall) /\ (g.stop => g.more = 0)

Suits(g, p) == ModeSuits(g, p) /\ SettingsSuit(g, p) /\ QueueSuits(g, p)

ReqFits(g, p, r) ==
  /\ ~r.stale /\ ~r.garbled /\ (r.kind # "data" => Owners(r) = {})
  /\ p \in {"probe", "full", "ping", "resync_status"} => r.kind = "status"
  /\ p = "configure" => r = Config(Wanted)
  /\ p = "hiz" => r = HiZ
  /\ p = "resync_config" => r = Config(g.conf)
  /\ p \in Releasing => r.kind = "data" /\ r.stop /\ Owners(r) = {}
  /\ p \in Transferring =>
       /\ r.kind = "data" /\ (r.start <=> ~g.cs)
       /\ r.stop <=> p = "slice" /\ StopMain(g)
       /\ Owners(r) \subseteq {g.txn}

Shape(g) ==
  /\ Suits(g, g.pc)
  /\ g.answer \in {"wait", "ok"} => ReqFits(g, g.pc, g.req)
  /\ g.answer \in {"wait", "ok"} /\ g.desynced => g.recovering

(***************************************************************************)
(* Wire: which answers may still come.  A sound answer is one that may be  *)
(* accepted; a request that reached the device as it was sent may get one. *)
(***************************************************************************)
Sound(a) == a.error = "none"

Quiet == out = <<>> /\ \A i \in 1 .. Len(in) : ~Sound(in[i])

\* Nothing but answers to status requests, of those the host has given up on or
\* of all, may still come.
InStatus == \A i \in 1 .. Len(in) : Sound(in[i]) => in[i].kind = "status"
OutStatus == \A i \in 1 .. Len(out) : ~out[i].garbled => out[i].kind = "status"

InStaleStatus ==
  \A i \in 1 .. Len(in) : Sound(in[i]) /\ in[i].stale => in[i].kind = "status"
OutStaleStatus ==
  \A i \in 1 .. Len(out) : ~out[i].garbled /\ out[i].stale => out[i].kind = "status"

\* Behind a sound answer to a status request come no others.
InOrdered ==
  \A i, j \in 1 .. Len(in) :
    i < j /\ Sound(in[i]) /\ in[i].kind = "status" /\ Sound(in[j]) => in[j].kind = "status"
OutOrdered ==
  \A i, j \in 1 .. Len(out) :
    i < j /\ ~out[i].garbled /\ out[i].kind = "status" /\ ~out[j].garbled =>
      out[j].kind = "status"
Ordered ==
  /\ InOrdered /\ OutOrdered
  /\ (\E i \in 1 .. Len(in) : Sound(in[i]) /\ in[i].kind = "status") => OutStatus

\* A request that is waited for is the last one sent, and its answer the last to come.
Own(g) ==
  g.answer = "wait" =>
    /\ \A i \in 1 .. Len(out) : i < Len(out) => out[i].stale
    /\ out # <<>> =>
         /\ out[Len(out)] = [g.req EXCEPT !.garbled = out[Len(out)].garbled]
         /\ ~g.heard /\ \A i \in 1 .. Len(in) : in[i].stale
    /\ \A i \in 1 .. Len(in) : ~in[i].stale =>
         /\ i = Len(in) /\ out = <<>> /\ ~g.heard
         /\ in[i].kind = g.req.kind /\ in[i].read = g.req.read /\ in[i].error # "async"
    /\ g.heard => Quiet /\ \A i \in 1 .. Len(in) : in[i].stale

\* While a mode is entered, or being entered again, one answer may come at most,
\* and none when the link is in step and nothing is waited for.
FirmWire(g) ==
  (g.mode \in InUse \/ g.pc \in RecoverySteps) /\ g.pc # "drain" =>
    /\ Len(out) <= 1
    /\ g.answer = "wait" => \A i \in 1 .. Len(in) : Sound(in[i]) => ~in[i].stale
    /\ g.answer = "ok" \/ g.pc = "drained" => Quiet
    /\ g.answer \in {"none", "no"} /\ ~g.desynced /\ ~g.recovering => Quiet

\* Before that, late answers may come, but none to a status request before another.
OpeningWire(g) ==
  /\ g.pc = "opening" \/ (g.pc = "probe" /\ g.answer = "wait") => Ordered
  /\ (g.pc = "probe" /\ g.answer = "ok") \/ g.pc = "full" => InStatus /\ OutStatus
  /\ g.pc \in {"configure", "hiz"} /\ g.mode = "unknown" =>
       /\ g.answer = "wait" => InStaleStatus /\ OutStaleStatus
       /\ g.answer = "ok" => Quiet
  /\ g.mode = "unknown" /\ ~g.desynced
       /\ (g.pc \in {"idle", "session"} \/ (g.pc = "configure" /\ g.answer = "no")) =>
         InStatus /\ OutStatus /\ (out = <<>> \/ half)
  /\ g.pc \in {"probe", "hiz"} \/ g.mode = "closed" => OutOrdered

Wire ==
  /\ Own(h) /\ (dead => out = <<>> /\ ~half)
  /\ ~loose => FirmWire(h) /\ OpeningWire(h) /\ ~fooled

(***************************************************************************)
(* Target: what the device is like.  Done(g): as g's request leaves it.    *)
(***************************************************************************)
Done(g) ==
  g.req.kind = "config" => dev.bus = g.req.bus /\ dev.power = g.req.power /\ ~dev.cs

SelectedAfter(g) ==
  CASE g.req.kind = "status" -> g.cs
    [] g.req.kind = "config" -> FALSE
    [] g.req.kind = "data"   -> ~g.req.stop

Granted(g) ==
  /\ g.answer = "wait" => \A i \in 1 .. Len(in) : ~in[i].stale /\ Sound(in[i]) => Done(g)
  /\ g.answer = "ok" /\ ~dead => Done(g)

\* The device has the settings c, and nothing under way gives it others.
Holds(c) ==
  /\ dev.bus = c.bus /\ dev.power = c.power
  /\ \A i \in 1 .. Len(out) :
       ~out[i].garbled /\ out[i].kind = "config" => out[i].bus = c.bus /\ out[i].power = c.power

SettingsHold(g) ==
  /\ g.applied # None /\ ~dead /\ g.pc # "hiz" => Holds(g.applied)
  /\ g.opened /\ g.pc # "idle" /\ ~dead => Holds(Wanted)
  /\ g.told = "off" => dev.bus = "HiZ" /\ ~dev.power /\ out = <<>>

Synced(g) == g.mode = "SPI" /\ ~g.desynced /\ ~g.recovering /\ ~dead

SelectHolds(g) ==
  Synced(g) =>
    /\ g.answer \in {"none", "no"} => (dev.cs <=> g.cs)
    /\ g.answer = "ok" => (dev.cs <=> SelectedAfter(g))
    /\ g.answer = "wait" =>
         /\ out # <<>> \/ g.heard => (dev.cs <=> g.cs)
         /\ \A i \in 1 .. Len(in) : ~in[i].stale =>
              /\ in[i].error \in {"outer", "inner"} => (dev.cs <=> g.cs)
              /\ in[i].error = "none" => (dev.cs <=> SelectedAfter(g))

\* What the chip has seen since it was selected, and what it may still see.
FrameHolds ==
  \E t \in 0 .. MaxTxns :
    /\ dev.frame \subseteq {t}
    /\ \A i \in 1 .. Len(out) :
         ~out[i].garbled => Owners(out[i]) \subseteq {t}

TransactionHolds(g) ==
  /\ Synced(g) /\ g.opened /\ g.pc # "idle" => dev.frame \subseteq {g.txn}
  /\ g.pc = "session" /\ g.opened /\ g.mode = "SPI" /\ g.site # "deinit" /\ g.call = NoCall
       /\ ~g.desynced => ~g.cs

Target ==
  /\ ~dev.cs => dev.frame = {}
  /\ dead => dev = Off
  /\ ~loose => Granted(h) /\ SettingsHold(h) /\ SelectHolds(h)
  /\ ~loose /\ ~cut => FrameHolds /\ TransactionHolds(h) /\ ~mixed

LinkInv == Shape(h) /\ Wire /\ Target

(***************************************************************************)
(* What a procedure is handed.  Calm(g): no transaction is under way.      *)
(* Wired(g), Targeted(g): Wire and Target of a record between exchanges.   *)
(***************************************************************************)
Calm(g) ==
  /\ g.mode # "HiZ" /\ (g.mode \in InUse => g.conf.bus = g.mode)
  /\ g.applied # None => g.mode \in InUse /\ g.applied = g.conf
  /\ ~g.opened /\ g.told = "none" /\ g.call = NoCall /\ g.pending = <<>> /\ g.stream = <<>>

Wired(g) ==
  ~loose =>
    /\ g.mode \in InUse => Len(out) <= 1 /\ (~g.desynced => Quiet)
    /\ g.mode = "unknown" /\ ~g.desynced => InStatus /\ OutStatus
    /\ g.mode = "closed" => OutOrdered

\* As the session leaves a link whose mode was never entered.
Parked(g) == ~loose /\ g.mode = "unknown" /\ ~g.desynced => out = <<>> \/ half

Targeted(g) ==
  ~loose =>
    /\ g.applied # None /\ ~dead => Holds(g.applied)
    /\ g.opened /\ ~dead => Holds(Wanted)
    /\ Synced(g) => (dev.cs <=> g.cs)
    /\ ~cut /\ Synced(g) /\ g.opened => dev.frame \subseteq {g.txn}

\* What does not depend on the engine.
Common ==
  /\ dead => out = <<>> /\ ~half /\ dev = Off
  /\ ~dev.cs => dev.frame = {}
  /\ ~loose => ~fooled /\ (~cut => FrameHolds /\ ~mixed)

-----------------------------------------------------------------------------
(***************************************************************************)
(* Shape is inductive: the forms a step of the host takes.                 *)
(***************************************************************************)
\* A result that is handed on.
LEMMA ReturnedShape ==
  ASSUME NEW g \in HostType, NEW p, Suits(g, p), NEW result \in {"none", "no"}
  PROVE  Shape(Returned(g, p, result))
<1> DEFINE k == Returned(g, p, result)
<1>1. /\ k.pc = p /\ k.answer = result /\ k.mode = g.mode /\ k.recovering = g.recovering
      /\ k.conf = g.conf /\ k.applied = g.applied /\ k.opened = g.opened /\ k.told = g.told
      /\ k.pending = g.pending /\ k.stream = g.stream /\ k.call = g.call /\ k.txn = g.txn
      /\ k.site = g.site /\ k.stop = g.stop /\ k.desynced = g.desynced /\ k.more = g.more
  BY DEF Returned, HostType
<1> HIDE DEF k
<1>2. Suits(k, p)
  BY <1>1 DEF Suits, ModeSuits, SettingsSuit, QueueSuits, IsOpen
<1> QED
  BY <1>1, <1>2 DEF Shape, k

\* A request.
LEMMA AskShape ==
  ASSUME NEW g \in HostType, NEW p, Suits(g, p), NEW r, ReqFits(g, p, r), Ask(g, p, r)
  PROVE  Shape(h')
<1>1. CASE h' = Returned(g, p, "no")
  BY <1>1, ReturnedShape
<1>2. CASE ~Gate(g) /\ Sent(g, p, r)
  <2>1. h' = [g EXCEPT !.pc = p, !.answer = "wait", !.graced = FALSE, !.skipped = 0,
                       !.req = r, !.heard = FALSE]
    BY <1>2 DEF Sent
  <2>2. /\ h'.pc = p /\ h'.answer = "wait" /\ h'.mode = g.mode /\ h'.recovering = g.recovering
        /\ h'.conf = g.conf /\ h'.applied = g.applied /\ h'.opened = g.opened
        /\ h'.told = g.told /\ h'.pending = g.pending /\ h'.stream = g.stream
        /\ h'.call = g.call /\ h'.txn = g.txn /\ h'.site = g.site /\ h'.stop = g.stop
        /\ h'.desynced = g.desynced /\ h'.cs = g.cs /\ h'.want = g.want /\ h'.req = r
        /\ h'.more = g.more
    BY <2>1 DEF HostType
  <2>3. Suits(h', p)
    BY <2>2 DEF Suits, ModeSuits, SettingsSuit, QueueSuits, IsOpen
  <2>4. ReqFits(h', p, r)
    BY <2>2 DEF ReqFits, StopMain, ReadSlice
  <2>5. g.desynced => g.recovering
    BY <1>2 DEF Gate
  <2> QED
    BY <2>2, <2>3, <2>4, <2>5 DEF Shape
<1> QED
  BY <1>1, <1>2 DEF Ask, WriteFails

\* The settings do not change under an action of the host, so Shape of the new
\* record may be stated with the old ones.
LEMMA ShapeCarries ==
  ASSUME menu' = menu, Shape(h')
  PROVE  Shape(h)'
<1>1. Wanted' = Wanted
  BY DEF Wanted
<1> QED
  BY <1>1 DEF Shape, Suits, ModeSuits, SettingsSuit, QueueSuits, ReqFits, IsOpen, HiZ

\* A record without a transaction may be anywhere its mode allows.
LEMMA CalmSuits ==
  ASSUME NEW g \in HostType, Calm(g), NEW p,
         p \in Waits \cup Recovery \cup {"opening"} => IsOpen(g),
         g.recovering <=> p \in Recovery,
         p \in Connecting => g.mode = "unknown",
         p \notin Transferring,
         p \in Releasing => g.mode = "SPI",
         p = "resync_config" => g.mode \in InUse,
         p \in {"ping", "fast_release"} => g.mode \in InUse /\ g.applied = Wanted
  PROVE  Suits(g, p)
<1>1. ModeSuits(g, p)
  BY DEF ModeSuits, Calm
<1>2. SettingsSuit(g, p)
  BY DEF SettingsSuit, Calm
<1>3. QueueSuits(g, p)
  <2>1. Len(g.pending) = 0 /\ Len(g.stream) = 0
    BY DEF Calm
  <2> QED
    BY <2>1 DEF QueueSuits, Calm
<1> QED
  BY <1>1, <1>2, <1>3 DEF Suits

\* What the requests of the procedures ask for.
LEMMA RequestShapes ==
  ASSUME NEW g
  PROVE  /\ \A p \in {"probe", "full", "ping", "resync_status"} : ReqFits(g, p, Status)
         /\ ReqFits(g, "configure", Config(Wanted)) /\ ReqFits(g, "hiz", HiZ)
         /\ ReqFits(g, "resync_config", Config(g.conf))
         /\ \A p \in Releasing : ReqFits(g, p, Release)
<1>1. ~Status.stale /\ ~Status.garbled /\ Status.kind = "status"
  BY DEF Status
<1>2. ASSUME NEW c PROVE ~Config(c).stale /\ ~Config(c).garbled
  BY DEF Config, Status
<1>3. /\ ~Release.stale /\ ~Release.garbled /\ Release.kind = "data" /\ Release.stop = TRUE
      /\ Release.bytes = <<>> /\ Release.read = 0
  BY DEF Release, Data, Status
<1>4. Owners(Release) = {} /\ Owners(Status) = {} /\ \A c : Owners(Config(c)) = {}
  <2>1. ToSet(<<>>) = {}
    BY DEF ToSet
  <2>2. Status.bytes = <<>> /\ Status.read = 0
    BY DEF Status
  <2>3. ASSUME NEW c PROVE Config(c).bytes = <<>> /\ Config(c).read = 0
    BY DEF Config, Status
  <2>4. ASSUME NEW r, r.bytes = <<>>, r.read = 0 PROVE Owners(r) = {}
    BY <2>1, <2>4 DEF Owners
  <2> QED
    BY <1>3, <2>2, <2>3, <2>4
<1> QED
  BY <1>1, <1>2, <1>3, <1>4 DEF ReqFits, HiZ, Transferring, Releasing

-----------------------------------------------------------------------------
(***************************************************************************)
(* What sending a request does to what is under way.                       *)
(***************************************************************************)
\* The frames under way are records, each with the fields the invariants read.
LEMMA UnderWay ==
  ASSUME LinkOK
  PROVE  /\ Len(in) \in Nat /\ Len(out) \in Nat
         /\ \A i \in 1 .. Len(in) : in[i] \in Frames
         /\ \A i \in 1 .. Len(out) : out[i] \in Requests
         /\ out = <<>> <=> Len(out) = 0
         /\ in = <<>> <=> Len(in) = 0
<1>1. in \in Seq(Frames) /\ out \in Seq(Requests)
  BY DEF LinkOK
<1> QED
  BY <1>1, ElementOfSeq, EmptySeq

\* Element by element.
LEMMA SentElements ==
  ASSUME LinkOK, NEW g, NEW p, NEW r \in Requests, Sent(g, p, r)
  PROVE  /\ Len(out') = Len(out) + 1 /\ Len(out) \in Nat /\ Len(in') \in Nat
         /\ \A i \in 1 .. Len(out) :
              /\ out'[i].stale /\ out'[i].kind = out[i].kind /\ out'[i].garbled = out[i].garbled
              /\ out'[i].bus = out[i].bus /\ out'[i].power = out[i].power
              /\ Owners(out'[i]) = Owners(out[i])
         /\ out'[Len(out) + 1] = [r EXCEPT !.garbled = half]
         /\ \E n \in Nat :
              \A i \in 1 .. Len(in') :
                /\ i + n \in 1 .. Len(in) /\ in'[i].stale
                /\ in'[i].kind = in[i + n].kind /\ in'[i].error = in[i + n].error
<1>1. /\ Len(in) \in Nat /\ Len(out) \in Nat
      /\ \A i \in 1 .. Len(in) : in[i] \in Frames
      /\ \A i \in 1 .. Len(out) : out[i] \in Requests
  BY UnderWay
<1>2. /\ in' \in Seq(Frames)
      /\ Len(out') = Len(out) + 1
      /\ \A i \in 1 .. Len(out) : out'[i] = [out[i] EXCEPT !.stale = TRUE]
      /\ out'[Len(out) + 1] = [r EXCEPT !.garbled = half]
  BY SentLink
<1>3. PICK n \in 0 .. Len(in) :
        /\ Len(in') = Len(in) - n
        /\ \A i \in 1 .. Len(in') : in'[i] = [in[i + n] EXCEPT !.stale = TRUE]
  BY SentLink
<1>4. ASSUME NEW i \in 1 .. Len(in')
      PROVE  /\ i + n \in 1 .. Len(in) /\ in'[i].stale
             /\ in'[i].kind = in[i + n].kind /\ in'[i].error = in[i + n].error
  <2>1. i + n \in 1 .. Len(in)
    BY <1>1, <1>3
  <2> DEFINE a == in[i + n]
  <2>2. a \in Frames /\ in'[i] = [a EXCEPT !.stale = TRUE]
    BY <1>1, <1>3, <2>1
  <2> HIDE DEF a
  <2>3. in'[i].stale /\ in'[i].kind = a.kind /\ in'[i].error = a.error
    BY <2>2 DEF Frames
  <2> QED
    BY <2>1, <2>3 DEF a
<1>5. ASSUME NEW i \in 1 .. Len(out)
      PROVE  /\ out'[i].stale /\ out'[i].kind = out[i].kind /\ out'[i].garbled = out[i].garbled
             /\ out'[i].bus = out[i].bus /\ out'[i].power = out[i].power
             /\ Owners(out'[i]) = Owners(out[i])
  <2> DEFINE a == out[i]
             b == out'[i]
  <2>1. a \in Requests /\ b = [a EXCEPT !.stale = TRUE]
    BY <1>1, <1>2
  <2> HIDE DEF a, b
  <2>2. /\ b.stale = TRUE /\ b.kind = a.kind /\ b.garbled = a.garbled /\ b.bus = a.bus
        /\ b.power = a.power /\ b.bytes = a.bytes /\ b.read = a.read /\ b.by = a.by
    BY <2>1 DEF Requests
  <2>3. Owners(b) = Owners(a)
    BY <2>2 DEF Owners
  <2> QED
    BY <2>2, <2>3 DEF a, b
<1>6. n \in Nat /\ Len(in') \in Nat
  BY <1>1, <1>3
<1> QED
  BY <1>1, <1>2, <1>4, <1>5, <1>6

\* What came before is marked as given up; what still may come stays in the same
\* order, and behind it comes the answer to r.
LEMMA SentKeeps ==
  ASSUME LinkOK, NEW g, NEW p, NEW r \in Requests, ~r.stale, Sent(g, p, r)
  PROVE  /\ (\A i \in 1 .. Len(in) : ~Sound(in[i])) => \A i \in 1 .. Len(in') : ~Sound(in'[i])
         /\ InStatus => InStatus' /\ InStaleStatus'
         /\ InOrdered => InOrdered'
         /\ (\E i \in 1 .. Len(in') : Sound(in'[i]) /\ in'[i].kind = "status") =>
              \E i \in 1 .. Len(in) : Sound(in[i]) /\ in[i].kind = "status"
         /\ OutStatus => OutStaleStatus'
         /\ OutStatus /\ r.kind = "status" => OutStatus'
         /\ OutOrdered /\ r.kind = "status" => OutOrdered'
         /\ OutStatus /\ (out = <<>> \/ half) => OutOrdered'
         /\ out = <<>> => Len(out') = 1
<1> DEFINE e == [r EXCEPT !.garbled = half]
           m == Len(out) + 1
<1>1. /\ Len(out') = m /\ Len(out) \in Nat /\ Len(in') \in Nat
      /\ \A i \in 1 .. Len(out) :
           /\ out'[i].stale /\ out'[i].kind = out[i].kind /\ out'[i].garbled = out[i].garbled
      /\ out'[m] = e
  BY SentElements
<1>2. PICK n \in Nat :
        \A i \in 1 .. Len(in') :
          /\ i + n \in 1 .. Len(in) /\ in'[i].stale
          /\ in'[i].kind = in[i + n].kind /\ in'[i].error = in[i + n].error
  BY SentElements
<1>3. e.kind = r.kind /\ ~e.stale /\ e.garbled = half
  BY DEF Requests
<1>4. Len(in) \in Nat /\ (out = <<>> <=> Len(out) = 0)
  BY UnderWay
<1> HIDE DEF e
<1>5. (\A i \in 1 .. Len(in) : ~Sound(in[i])) => \A i \in 1 .. Len(in') : ~Sound(in'[i])
  BY <1>2 DEF Sound
<1>6. InStatus => InStatus' /\ InStaleStatus'
  BY <1>2 DEF InStatus, InStaleStatus, Sound
<1>7. ASSUME InOrdered PROVE InOrdered'
  <2> SUFFICES ASSUME NEW i \in 1 .. Len(in'), NEW j \in 1 .. Len(in'), i < j,
                      in'[i].error = "none", in'[i].kind = "status", in'[j].error = "none"
               PROVE  in'[j].kind = "status"
    BY DEF InOrdered, Sound
  <2>1. i + n \in 1 .. Len(in) /\ j + n \in 1 .. Len(in) /\ i + n < j + n
    BY <1>1, <1>2
  <2> QED
    BY <1>2, <1>7, <2>1 DEF InOrdered, Sound
<1>8. (\E i \in 1 .. Len(in') : Sound(in'[i]) /\ in'[i].kind = "status") =>
        \E i \in 1 .. Len(in) : Sound(in[i]) /\ in[i].kind = "status"
  BY <1>2 DEF Sound
<1>9. ASSUME NEW i \in 1 .. m
      PROVE  \/ i \in 1 .. Len(out) /\ out'[i].stale /\ out'[i].kind = out[i].kind
                /\ out'[i].garbled = out[i].garbled
             \/ i = m /\ out'[i] = e
  BY <1>1
<1>10. OutStatus => OutStaleStatus'
  BY <1>1, <1>3, <1>9 DEF OutStatus, OutStaleStatus
<1>11. OutStatus /\ r.kind = "status" => OutStatus'
  BY <1>1, <1>3, <1>9 DEF OutStatus
<1>12. ASSUME OutOrdered, r.kind = "status" PROVE OutOrdered'
  <2> SUFFICES ASSUME NEW i \in 1 .. m, NEW j \in 1 .. m, i < j, ~out'[i].garbled,
                      out'[i].kind = "status", ~out'[j].garbled
               PROVE  out'[j].kind = "status"
    BY <1>1 DEF OutOrdered
  <2>1. i \in 1 .. Len(out)
    BY <1>1
  <2> QED
    BY <1>1, <1>3, <1>9, <1>12, <2>1 DEF OutOrdered
<1>13. ASSUME OutStatus, out = <<>> \/ half PROVE OutOrdered'
  <2> SUFFICES ASSUME NEW i \in 1 .. m, NEW j \in 1 .. m, i < j, ~out'[i].garbled,
                      out'[i].kind = "status", ~out'[j].garbled
               PROVE  out'[j].kind = "status"
    BY <1>1 DEF OutOrdered
  <2>1. CASE out = <<>>
    BY <1>1, <1>4, <2>1
  <2>2. CASE half
    <3>1. j # m
      BY <1>1, <1>3, <2>2
    <3> QED
      BY <1>1, <1>9, <1>13, <3>1 DEF OutStatus
  <2> QED
    BY <1>13, <2>1, <2>2
<1>14. out = <<>> => Len(out') = 1
  BY <1>1, <1>4
<1> QED
  BY <1>5, <1>6, <1>7, <1>8, <1>10, <1>11, <1>12, <1>13, <1>14

\* The request is the last under way, and nothing has answered it yet.
LEMMA SentOwn ==
  ASSUME LinkOK, NEW g \in HostType, NEW p, NEW r \in Requests, ~r.stale, Sent(g, p, r)
  PROVE  Own(h)'
<1> DEFINE e == [r EXCEPT !.garbled = half]
<1>1. /\ Len(out') = Len(out) + 1 /\ Len(out) \in Nat /\ Len(in') \in Nat
      /\ \A i \in 1 .. Len(out) : out'[i].stale
      /\ out'[Len(out) + 1] = e
      /\ \A i \in 1 .. Len(in') : in'[i].stale
  BY SentElements
<1>2. h'.req = r /\ ~h'.heard /\ h'.answer = "wait"
  BY DEF Sent, HostType
<1>3. e = [h'.req EXCEPT !.garbled = e.garbled]
  BY <1>2 DEF Requests
<1>4. \A i \in 1 .. Len(out') : i < Len(out') => out'[i].stale
  BY <1>1
<1> QED
  BY <1>1, <1>2, <1>3, <1>4 DEF Own

-----------------------------------------------------------------------------
(***************************************************************************)
(* The forms a step of the host takes, and what each needs of the link.    *)
(***************************************************************************)
AskWired(g, p) ==
  ~loose =>
    /\ g.mode \in InUse \/ p \in RecoverySteps =>
         Len(out) <= 1 /\ (~g.desynced \/ g.recovering => Quiet)
    /\ p = "probe" => Ordered
    /\ p = "full" => InStatus /\ OutStatus
    /\ p \in {"configure", "hiz"} /\ g.mode = "unknown" =>
         ~g.desynced /\ InStatus /\ OutStatus /\ (p = "hiz" => out = <<>> \/ half)

\* One frame is in order, and so are any that answer status requests only.
LEMMA OrderedAlone ==
  ASSUME LinkOK
  PROVE  /\ Len(out) <= 1 => OutOrdered
         /\ OutStatus => OutOrdered
         /\ InStatus => InOrdered
         /\ InStatus /\ OutStatus => Ordered
<1>1. Len(out) \in Nat
  BY UnderWay
<1>2. Len(out) <= 1 => OutOrdered
  BY <1>1 DEF OutOrdered
<1>3. OutStatus => OutOrdered
  BY DEF OutStatus, OutOrdered
<1>4. InStatus => InOrdered
  BY DEF InStatus, InOrdered
<1> QED
  BY <1>2, <1>3, <1>4 DEF Ordered

\* What is kept of the record that asks.
LEMMA SentRecord ==
  ASSUME NEW g \in HostType, NEW p, NEW r, Sent(g, p, r)
  PROVE  /\ h'.pc = p /\ h'.answer = "wait" /\ h'.req = r /\ ~h'.heard /\ ~h'.graced
         /\ h'.mode = g.mode /\ h'.recovering = g.recovering /\ h'.desynced = g.desynced
         /\ h'.conf = g.conf /\ h'.applied = g.applied /\ h'.opened = g.opened
         /\ h'.told = g.told /\ h'.call = g.call /\ h'.txn = g.txn /\ h'.site = g.site
         /\ h'.cs = g.cs
<1>1. h' = [g EXCEPT !.pc = p, !.answer = "wait", !.graced = FALSE, !.skipped = 0,
                     !.req = r, !.heard = FALSE]
  BY DEF Sent
<1> QED
  BY <1>1 DEF HostType

\* What is kept of a record that is handed on.
LEMMA ReturnedRecord ==
  ASSUME NEW g \in HostType, NEW p, NEW result, NEW k, k = Returned(g, p, result)
  PROVE  /\ k.pc = p /\ k.answer = result
         /\ k.mode = g.mode /\ k.recovering = g.recovering /\ k.desynced = g.desynced
         /\ k.conf = g.conf /\ k.applied = g.applied /\ k.opened = g.opened
         /\ k.told = g.told /\ k.call = g.call /\ k.txn = g.txn /\ k.site = g.site
         /\ k.cs = g.cs
  BY DEF Returned, HostType

\* A request that is not sent leaves the link as it was.
LEMMA RefusedWire ==
  ASSUME LinkOK, NEW g \in HostType, NEW p \in Waits, ModeSuits(g, p), dead => out = <<>> /\ ~half',
         ~loose => ~fooled, AskWired(g, p), h' = Returned(g, p, "no"),
         Gate(g) \/ dead \/ half', half => half',
         out' = out, in' = in, dead' = dead, UNCHANGED history
  PROVE  Wire'
<1>1. /\ h'.pc = p /\ h'.answer = "no" /\ h'.mode = g.mode /\ h'.desynced = g.desynced
      /\ h'.recovering = g.recovering
  BY ReturnedRecord
<1>2. p \notin {"idle", "session", "drain", "drained", "opening"}
  BY DEF Waits
<1>3. (Quiet => Quiet') /\ (InStatus => InStatus') /\ (OutStatus => OutStatus')
      /\ (OutOrdered => OutOrdered') /\ (Ordered => OutOrdered)
  BY DEF Quiet, InStatus, OutStatus, Sound, OutOrdered, Ordered
<1>4. g.mode \in Modes /\ g.mode # "closed" /\ g.mode # "HiZ" => g.mode \in InUse \cup {"unknown"}
  BY DEF Modes, InUse
<1>5. Own(h)'
  BY <1>1 DEF Own
<1>6. ~loose => FirmWire(h)'
  BY <1>1, <1>2, <1>3 DEF FirmWire, AskWired
<1>7. ~loose => OpeningWire(h)'
  <2> SUFFICES ASSUME ~loose PROVE OpeningWire(h)'
    OBVIOUS
  <2>1. p = "full" => InStatus' /\ OutStatus'
    BY <1>3 DEF AskWired
  <2>2. g.mode = "unknown" /\ p = "configure" => InStatus' /\ OutStatus' /\ (out' = <<>> \/ half')
    BY <1>3 DEF AskWired, Gate
  <2>3. g.mode \in InUse \/ g.mode = "unknown" \/ p # "hiz"
    BY <1>4 DEF ModeSuits, IsOpen, HostType
  <2>4. p \in {"probe", "hiz"} => OutOrdered'
    BY <1>3, <2>3, OrderedAlone DEF AskWired
  <2> QED
    BY <1>1, <1>2, <2>1, <2>2, <2>4 DEF OpeningWire, ModeSuits, IsOpen
<1> QED
  BY <1>5, <1>6, <1>7 DEF Wire, history

\* A request that is sent.
LEMMA SentWire ==
  ASSUME LinkOK, NEW g \in HostType, NEW p \in Waits, ModeSuits(g, p), ~loose => ~fooled,
         AskWired(g, p), NEW r \in Requests, ReqFits(g, p, r), ~Gate(g), ~dead,
         Sent(g, p, r), UNCHANGED history
  PROVE  Wire'
<1>1. /\ h'.pc = p /\ h'.answer = "wait" /\ h'.mode = g.mode /\ h'.desynced = g.desynced
      /\ h'.recovering = g.recovering
  BY SentRecord
<1>2. p \notin {"idle", "session", "drain", "drained", "opening"}
  BY DEF Waits
<1>3. ~r.stale
  BY DEF ReqFits
<1>4. /\ (\A i \in 1 .. Len(in) : ~Sound(in[i])) => \A i \in 1 .. Len(in') : ~Sound(in'[i])
      /\ InStatus => InStatus' /\ InStaleStatus'
      /\ InOrdered => InOrdered'
      /\ (\E i \in 1 .. Len(in') : Sound(in'[i]) /\ in'[i].kind = "status") =>
           \E i \in 1 .. Len(in) : Sound(in[i]) /\ in[i].kind = "status"
      /\ OutStatus => OutStaleStatus'
      /\ OutStatus /\ r.kind = "status" => OutStatus'
      /\ OutOrdered /\ r.kind = "status" => OutOrdered'
      /\ OutStatus /\ (out = <<>> \/ half) => OutOrdered'
      /\ out = <<>> => Len(out') = 1
  BY <1>3, SentKeeps
<1>5. ~g.desynced \/ g.recovering
  BY DEF Gate
<1>6. Own(h)'
  BY <1>3, SentOwn
<1>7. g.mode \in InUse \cup {"unknown"} /\ g.mode # "closed"
  BY DEF ModeSuits, IsOpen, HostType, Modes, InUse
<1>8. ~loose => FirmWire(h)'
  <2> SUFFICES ASSUME ~loose, g.mode \in InUse \/ p \in RecoverySteps PROVE FirmWire(h)'
    BY <1>1 DEF FirmWire
  <2>1. Quiet
    BY <1>5 DEF AskWired
  <2>2. Len(out') = 1 /\ \A i \in 1 .. Len(in') : ~Sound(in'[i])
    BY <1>4, <2>1 DEF Quiet
  <2> QED
    BY <1>1, <1>2, <2>2 DEF FirmWire, Sound
<1>9. ~loose => OpeningWire(h)'
  <2> SUFFICES ASSUME ~loose PROVE OpeningWire(h)'
    OBVIOUS
  <2>1. p \in {"probe", "full"} => r.kind = "status"
    BY DEF ReqFits
  <2>2. p = "probe" => Ordered'
    BY <1>4, <2>1 DEF AskWired, Ordered
  <2>3. p = "full" => InStatus' /\ OutStatus'
    BY <1>4, <2>1 DEF AskWired
  <2>4. p \in {"configure", "hiz"} /\ g.mode = "unknown" => InStaleStatus' /\ OutStaleStatus'
    BY <1>4 DEF AskWired
  <2>5. p = "hiz" => OutOrdered'
    <3>1. CASE g.mode = "unknown"
      BY <1>4, <3>1 DEF AskWired
    <3>2. CASE g.mode \in InUse
      <4>1. Len(out') = 1
        BY <1>4, <1>5, <3>2 DEF AskWired, Quiet
      <4> QED
        BY <4>1 DEF OutOrdered
    <3> QED
      BY <1>7, <3>1, <3>2
  <2> QED
    BY <1>1, <1>2, <1>7, <2>2, <2>3, <2>4, <2>5 DEF OpeningWire, Ordered
<1> QED
  BY <1>6, <1>8, <1>9 DEF Wire, Sent, history

-----------------------------------------------------------------------------
\* A request changes nothing about the device, and asks for nothing that would.
LEMMA RefusedTarget ==
  ASSUME LinkOK, NEW g \in HostType, NEW p \in Waits, Suits(g, p), Common, Targeted(g),
         h' = Returned(g, p, "no"), out' = out, dead' = dead, Local
  PROVE  Target'
<1>1. /\ h'.pc = p /\ h'.answer = "no" /\ h'.mode = g.mode /\ h'.desynced = g.desynced
      /\ h'.recovering = g.recovering /\ h'.applied = g.applied /\ h'.opened = g.opened
      /\ h'.told = g.told /\ h'.txn = g.txn /\ h'.cs = g.cs
  BY ReturnedRecord
<1>2. p \notin {"idle", "session"}
  BY DEF Waits
<1>3. g.told = "none"
  BY <1>2 DEF Suits, SettingsSuit
<1>4. \A c : Holds(c) => Holds(c)'
  BY DEF Holds, Local
<1>5. Wanted' = Wanted
  BY DEF Wanted, Local
<1>6. ~loose => Granted(h)'
  BY <1>1 DEF Granted
<1>7. ~loose => SettingsHold(h)'
  BY <1>1, <1>3, <1>4, <1>5 DEF SettingsHold, Targeted
<1>8. Synced(h)' <=> Synced(g)
  BY <1>1 DEF Synced
<1>9. ~loose => SelectHolds(h)'
  BY <1>1, <1>8 DEF SelectHolds, Targeted, Local
<1>10. ~loose /\ ~cut => FrameHolds' /\ TransactionHolds(h)'
  <2> SUFFICES ASSUME ~loose, ~cut PROVE FrameHolds' /\ TransactionHolds(h)'
    OBVIOUS
  <2>1. FrameHolds'
    BY DEF FrameHolds, Common, Local
  <2> QED
    BY <1>1, <1>2, <1>8, <2>1 DEF TransactionHolds, Targeted, Local
<1> QED
  BY <1>6, <1>7, <1>9, <1>10 DEF Target, Common, Local, history

\* What a request asks for is what it is sent with.
LEMMA SentLast ==
  ASSUME NEW r \in Requests
  PROVE  LET e == [r EXCEPT !.garbled = half] IN
         /\ e.kind = r.kind /\ e.bus = r.bus /\ e.power = r.power /\ Owners(e) = Owners(r)
<1> DEFINE e == [r EXCEPT !.garbled = half]
<1>1. /\ e.kind = r.kind /\ e.bus = r.bus /\ e.power = r.power /\ e.bytes = r.bytes
      /\ e.read = r.read /\ e.by = r.by
  BY DEF Requests
<1> HIDE DEF e
<1>2. Owners(e) = Owners(r)
  BY <1>1 DEF Owners
<1> QED
  BY <1>1, <1>2 DEF e

\* Only three places send a configuration.
LEMMA ConfigsSent ==
  ASSUME NEW g, NEW p \in Waits, NEW r, ReqFits(g, p, r), r.kind = "config",
         p \notin {"configure", "hiz"}
  PROVE  r = Config(g.conf) /\ r.bus = g.conf.bus /\ r.power = g.conf.power
<1>1. p = "resync_config"
  BY DEF ReqFits, Waits, Releasing, Transferring
<1>2. r = Config(g.conf)
  BY <1>1 DEF ReqFits
<1> QED
  BY <1>2 DEF Config, Status

\* A request that is sent changes nothing about the device until it is served.
LEMMA SentTarget ==
  ASSUME LinkOK, NEW g \in HostType, NEW p \in Waits, Suits(g, p), Common, Targeted(g),
         AskWired(g, p), p = "configure" => g.applied = None,
         NEW r \in Requests, ReqFits(g, p, r), ~Gate(g), ~dead, Sent(g, p, r), Local
  PROVE  Target'
<1> DEFINE m == Len(out) + 1
           e == [r EXCEPT !.garbled = half]
<1>1. /\ h'.pc = p /\ h'.answer = "wait" /\ h'.mode = g.mode /\ h'.desynced = g.desynced
      /\ h'.recovering = g.recovering /\ h'.applied = g.applied /\ h'.opened = g.opened
      /\ h'.told = g.told /\ h'.txn = g.txn /\ h'.cs = g.cs
  BY SentRecord
<1>2. p \notin {"idle", "session"}
  BY DEF Waits
<1>3. /\ Len(out') = m /\ Len(out) \in Nat
      /\ \A i \in 1 .. Len(out) :
           /\ out'[i].stale /\ out'[i].kind = out[i].kind /\ out'[i].garbled = out[i].garbled
           /\ out'[i].bus = out[i].bus /\ out'[i].power = out[i].power
           /\ Owners(out'[i]) = Owners(out[i])
      /\ out'[m] = e
      /\ \A i \in 1 .. Len(in') : in'[i].stale
  BY SentElements
<1>4. e.kind = r.kind /\ e.bus = r.bus /\ e.power = r.power /\ Owners(e) = Owners(r)
  BY SentLast
<1>5. dead' = dead /\ dev' = dev /\ Wanted' = Wanted
  BY DEF Sent, Local, Wanted
<1> HIDE DEF e
<1>6. ASSUME NEW c, Holds(c), r.kind = "config" => r.bus = c.bus /\ r.power = c.power
      PROVE  Holds(c)'
  <2> SUFFICES ASSUME NEW i \in 1 .. m, ~out'[i].garbled, out'[i].kind = "config"
               PROVE  out'[i].bus = c.bus /\ out'[i].power = c.power
    BY <1>3, <1>5, <1>6 DEF Holds
  <2>1. CASE i \in 1 .. Len(out)
    BY <1>3, <1>6, <2>1 DEF Holds
  <2>2. CASE i = m
    BY <1>3, <1>4, <1>6, <2>2
  <2> QED
    BY <1>3, <2>1, <2>2
<1>7. g.told = "none" /\ (g.opened => p \in {"release"} \cup Transferring)
  BY <1>2 DEF Suits, SettingsSuit
<1>8. ~loose => Granted(h)'
  BY <1>1, <1>3 DEF Granted
<1>9. ~loose => SettingsHold(h)'
  <2> SUFFICES ASSUME ~loose PROVE SettingsHold(h)'
    OBVIOUS
  <2>1. ASSUME g.applied # None, p # "hiz" PROVE Holds(g.applied)'
    <3>1. g.applied = g.conf /\ p # "configure"
      BY <2>1 DEF Suits, SettingsSuit
    <3>2. r.kind = "config" => r.bus = g.applied.bus /\ r.power = g.applied.power
      BY <2>1, <3>1, ConfigsSent
    <3>3. Holds(g.applied)
      BY <2>1 DEF Targeted
    <3> QED
      BY <1>6, <3>2, <3>3
  <2>2. ASSUME g.opened PROVE Holds(Wanted)'
    <3>1. r.kind = "data"
      BY <1>7, <2>2 DEF ReqFits, Releasing
    <3>2. PICK w : w = Wanted
      OBVIOUS
    <3>3. Holds(w)
      BY <2>2, <3>2 DEF Targeted
    <3>4. Holds(w)'
      BY <1>6, <3>1, <3>3
    <3> QED
      BY <1>5, <3>2, <3>4
  <2> QED
    BY <1>1, <1>5, <1>7, <2>1, <2>2 DEF SettingsHold
<1>10. Synced(h)' <=> Synced(g)
  BY <1>1, <1>5 DEF Synced
<1>11. ~loose => SelectHolds(h)'
  BY <1>1, <1>3, <1>5, <1>10 DEF SelectHolds, Targeted
<1>12. ~loose /\ ~cut => FrameHolds' /\ TransactionHolds(h)'
  <2> SUFFICES ASSUME ~loose, ~cut PROVE FrameHolds'
    BY <1>1, <1>2, <1>5, <1>10 DEF TransactionHolds, Targeted
  <2>1. PICK t \in 0 .. MaxTxns :
          /\ dev.frame \subseteq {t}
          /\ \A i \in 1 .. Len(out) :
               ~out[i].garbled => Owners(out[i]) \subseteq {t}
    BY DEF Common, FrameHolds
  <2>2. CASE p \in Transferring
    <3>1. g.opened /\ Synced(g)
      <4>1. g.opened /\ g.mode = "SPI" /\ ~g.recovering
        BY <2>2 DEF Suits, ModeSuits, QueueSuits, Transferring, Recovery
      <4> QED
        BY <4>1 DEF Gate, Synced
    <3>2. dev.frame \subseteq {g.txn} /\ g.txn \in 0 .. MaxTxns
      BY <3>1 DEF Targeted, HostType
    <3>3. Quiet
      BY <3>1 DEF AskWired, Synced, InUse
    <3>4. Len(out) = 0
      BY <3>3, UnderWay DEF Quiet
    <3>5. Owners(r) \subseteq {g.txn}
      BY <2>2 DEF ReqFits
    <3>6. \A i \in 1 .. Len(out') : Owners(out'[i]) \subseteq {g.txn}
      BY <1>3, <1>4, <3>4, <3>5
    <3> QED
      BY <1>5, <3>2, <3>6 DEF FrameHolds
  <2>3. CASE p \notin Transferring
    <3>1. Owners(r) = {}
      BY <2>3, ConfigsSent DEF ReqFits, Waits, Releasing, Transferring, Config, Status, HiZ
    <3>2. ASSUME NEW i \in 1 .. m, ~out'[i].garbled
          PROVE  Owners(out'[i]) \subseteq {t}
      <4>1. CASE i \in 1 .. Len(out)
        BY <1>3, <2>1, <3>2, <4>1
      <4>2. CASE i = m
        BY <1>3, <1>4, <3>1, <3>2, <4>2
      <4> QED
        BY <1>3, <4>1, <4>2
    <3> QED
      BY <1>3, <1>5, <2>1, <3>2 DEF FrameHolds
  <2> QED
    BY <2>2, <2>3
<1> QED
  BY <1>5, <1>8, <1>9, <1>11, <1>12 DEF Target, Common, Local, history

\* Whatever becomes of a request the code may make.
LEMMA AskLink ==
  ASSUME LinkOK, NEW g \in HostType, NEW p \in Waits, Suits(g, p), Common, Targeted(g),
         AskWired(g, p), p = "configure" => g.applied = None,
         NEW r \in Requests, ReqFits(g, p, r), Ask(g, p, r), Local
  PROVE  LinkInv'
<1>1. ModeSuits(g, p) /\ (dead => out = <<>> /\ ~half) /\ (~loose => ~fooled)
  BY DEF Suits, Common
<1>2. UNCHANGED history
  BY DEF Local
<1>3. Shape(h)'
  BY AskShape, ShapeCarries DEF Local
<1>4. CASE ~Gate(g) /\ ~dead /\ Sent(g, p, r)
  BY <1>1, <1>2, <1>3, <1>4, SentWire, SentTarget DEF LinkInv
<1>5. CASE Gate(g) \/ WriteFails(g, p)
  <2>1. /\ h' = Returned(g, p, "no") /\ out' = out /\ in' = in /\ dead' = dead
        /\ (Gate(g) \/ dead \/ half') /\ (half => half') /\ (dead => ~half')
    BY <1>1, <1>5 DEF Ask, WriteFails, link, Sent
  <2> QED
    BY <1>1, <1>2, <1>3, <2>1, RefusedWire, RefusedTarget DEF LinkInv
<1> QED
  BY <1>4, <1>5 DEF Ask

-----------------------------------------------------------------------------
\* A handler returns, or goes on without a request.
Settled(g, p) ==
  /\ ~loose /\ g.told = "off" => dev.bus = "HiZ" /\ ~dev.power /\ out = <<>>
  /\ ~loose /\ ~cut' /\ p = "session" /\ g.opened /\ g.mode = "SPI" /\ g.site # "deinit"
       /\ g.call = NoCall /\ ~g.desynced => ~g.cs

\* Going on without a request keeps the invariant.
LEMMA GoLink ==
  ASSUME LinkOK, NEW g \in HostType, NEW p \in {"idle", "session"}, Suits(g, p), Common,
         Wired(g), Parked(g), Targeted(g), Settled(g, p), Go(g, p),
         UNCHANGED <<menu, dev, fooled, mixed, loose>>, cut => cut'
  PROVE  LinkInv'
<1>1. h' = Returned(g, p, "none") /\ UNCHANGED link
  BY DEF Go
<1>2. /\ h'.pc = p /\ h'.answer = "none" /\ h'.mode = g.mode /\ h'.desynced = g.desynced
      /\ h'.recovering = g.recovering /\ h'.applied = g.applied /\ h'.opened = g.opened
      /\ h'.told = g.told /\ h'.txn = g.txn /\ h'.cs = g.cs /\ h'.site = g.site
      /\ h'.call = g.call /\ h'.conf = g.conf
  BY <1>1, ReturnedRecord
<1>3. Shape(h)'
  BY <1>1, ReturnedShape, ShapeCarries
<1>4. p \notin RecoverySteps /\ p \notin Recovery
  BY DEF RecoverySteps, Recovery
<1>5. (Quiet => Quiet') /\ (InStatus => InStatus') /\ (OutStatus => OutStatus')
      /\ (OutOrdered => OutOrdered') /\ (out' = out) /\ half' = half /\ dead' = dead
  BY <1>1 DEF Quiet, InStatus, OutStatus, Sound, OutOrdered, link
<1>6. Wire'
  <2>1. Own(h)'
    BY <1>2 DEF Own
  <2>2. ~loose => FirmWire(h)'
    BY <1>2, <1>4, <1>5 DEF FirmWire, Wired
  <2>3. ~loose => OpeningWire(h)'
    BY <1>2, <1>5 DEF OpeningWire, Wired, Parked
  <2> QED
    BY <1>5, <2>1, <2>2, <2>3 DEF Wire, Common
<1>7. Target'
  <2>1. (\A c : Holds(c) => Holds(c)') /\ Wanted' = Wanted
    BY <1>5 DEF Holds, Wanted
  <2>2. PICK w : w = Wanted
    OBVIOUS
  <2>3. Holds(Wanted) => Holds(Wanted)'
    BY <2>1, <2>2
  <2>4. ~loose => Granted(h)'
    BY <1>2 DEF Granted
  <2>5. ~loose => SettingsHold(h)'
    BY <1>2, <1>5, <2>1, <2>3 DEF SettingsHold, Targeted, Settled
  <2>6. Synced(h)' <=> Synced(g)
    BY <1>2, <1>5 DEF Synced
  <2>7. ~loose => SelectHolds(h)'
    BY <1>2, <2>6 DEF SelectHolds, Targeted
  <2>8. ~loose /\ ~cut' => FrameHolds' /\ TransactionHolds(h)'
    <3>1. FrameHolds => FrameHolds'
      BY <1>5 DEF FrameHolds
    <3> QED
      BY <1>2, <2>6, <3>1 DEF TransactionHolds, Targeted, Settled, Common
  <2> QED
    BY <1>5, <2>4, <2>5, <2>7, <2>8 DEF Target, Common
<1> QED
  BY <1>3, <1>6, <1>7 DEF LinkInv

-----------------------------------------------------------------------------
\* The engine gives up on the link, and starts to re-arm it.
LEMMA ResyncLink ==
  ASSUME LinkOK, NEW g \in HostType, Calm(g), IsOpen(g), Common, Targeted(g),
         NEW site, Resync(g, site), Local
  PROVE  LinkInv'
<1> DEFINE k == [g EXCEPT !.site = site, !.recovering = TRUE]
           e == [Status EXCEPT !.garbled = TRUE, !.stale = TRUE]
           m == Len(out) + 1
<1>1. h' = Returned(k, "drain", "none") /\ in' = in /\ dead' = dead
  BY DEF Resync
<1>2. /\ h'.pc = "drain" /\ h'.answer = "none" /\ h'.mode = g.mode /\ h'.recovering
      /\ h'.conf = g.conf /\ h'.applied = g.applied /\ h'.opened = g.opened
      /\ h'.told = g.told /\ h'.call = g.call /\ h'.pending = g.pending
      /\ h'.stream = g.stream
  BY <1>1 DEF Returned, HostType
<1>3. Len(out) \in Nat
  BY UnderWay
<1>4. \/ out' = out /\ (half' => half)
      \/ half /\ out' = Append(out, e) /\ ~half'
  BY DEF Resync
<1>5. /\ \A i \in 1 .. Len(out') :
           \/ i \in 1 .. Len(out) /\ out'[i] = out[i]
           \/ out'[i] = e
  <2>1. CASE out' = out
    BY <2>1
  <2>2. CASE out' = Append(out, e)
    <3>1. out \in Seq(Requests) /\ e \in Requests
      <4>1. Status \in Requests
        BY StatusFits
      <4> QED
        BY <4>1 DEF LinkOK, Requests
    <3> HIDE DEF e
    <3>2. Len(out') = m /\ out'[m] = e /\ \A i \in 1 .. Len(out) : out'[i] = out[i]
      BY <2>2, <3>1, AppendProperties
    <3> QED
      BY <1>3, <3>2
  <2> QED
    BY <1>4, <2>1, <2>2
<1>6. e.garbled
  BY DEF Status
<1> HIDE DEF e, k
<1>7. Shape(h)'
  <2>1. Len(h'.pending) = 0 /\ Len(h'.stream) = 0
    BY <1>2 DEF Calm
  <2>2. ModeSuits(h', "drain")
    BY <1>2 DEF ModeSuits, Calm, IsOpen, Recovery, Connecting, Transferring, Releasing
  <2>3. SettingsSuit(h', "drain")
    BY <1>2 DEF SettingsSuit, Calm
  <2>4. QueueSuits(h', "drain")
    BY <1>2, <2>1 DEF QueueSuits, Calm, Transferring
  <2>5. Shape(h')
    BY <1>2, <2>2, <2>3, <2>4 DEF Shape, Suits
  <2> QED
    BY <2>5, ShapeCarries DEF Local
<1>8. Wire'
  <2>1. Own(h)'
    BY <1>2 DEF Own
  <2>2. FirmWire(h)'
    BY <1>2 DEF FirmWire
  <2>3. OpeningWire(h)'
    BY <1>2 DEF OpeningWire, Calm, IsOpen
  <2>4. dead' => out' = <<>> /\ ~half'
    BY <1>1, <1>4 DEF Common
  <2> QED
    BY <2>1, <2>2, <2>3, <2>4 DEF Wire, Common, Local, history
<1>9. Target'
  <2>1. \A c : Holds(c) => Holds(c)'
    BY <1>5, <1>6 DEF Holds, Local
  <2>2. ~loose => SettingsHold(h)'
    BY <1>1, <1>2, <2>1 DEF SettingsHold, Targeted, Calm
  <2>3. Granted(h)' /\ SelectHolds(h)' /\ TransactionHolds(h)'
    BY <1>2 DEF Granted, SelectHolds, TransactionHolds, Synced
  <2>4. FrameHolds => FrameHolds'
    BY <1>5, <1>6 DEF FrameHolds, Local
  <2> QED
    BY <1>1, <2>2, <2>3, <2>4 DEF Target, Common, Local, history
<1> QED
  BY <1>7, <1>8, <1>9 DEF LinkInv

\* The port is opened afresh, or is not there.
LEMMA ConnectLink ==
  ASSUME LinkOK, NEW g \in HostType, Calm(g), Common, ~loose => OutOrdered,
         NEW site, Connect(g, site), Local
  PROVE  LinkInv'
<1> DEFINE c == [EngineClosed(g) EXCEPT !.applied = None, !.site = site]
           u == [c EXCEPT !.mode = "unknown"]
<1>1. \/ h' = Returned(u, "opening", "none") /\ in' = <<>> /\ ~dead'
      \/ h' = Returned(c, "session", "none") /\ in' = in /\ dead' = dead
  BY DEF Connect
<1>2. out' = out /\ half' = half
  BY DEF Connect
<1>3. /\ h'.answer = "none" /\ h'.recovering = FALSE /\ h'.desynced = FALSE
      /\ h'.applied = None /\ h'.opened = g.opened /\ h'.cs = FALSE
      /\ h'.told = g.told /\ h'.call = g.call /\ h'.pending = <<>> /\ h'.stream = g.stream
      /\ \/ h'.pc = "opening" /\ h'.mode = "unknown" /\ in' = <<>> /\ ~dead'
         \/ h'.pc = "session" /\ h'.mode = "closed" /\ in' = in /\ dead' = dead
  <2>1. c = [g EXCEPT !.mode = "closed", !.pending = <<>>, !.cs = FALSE, !.desynced = FALSE,
                      !.recovering = FALSE, !.applied = None, !.site = site]
    BY DEF EngineClosed
  <2>2. /\ c.recovering = FALSE /\ c.desynced = FALSE /\ c.applied = None /\ c.cs = FALSE
        /\ c.opened = g.opened /\ c.told = g.told /\ c.call = g.call /\ c.pending = <<>>
        /\ c.stream = g.stream /\ c.mode = "closed"
        /\ DOMAIN c = DOMAIN g /\ "mode" \in DOMAIN g
        /\ "pc" \in DOMAIN g /\ "answer" \in DOMAIN g
    BY <2>1 DEF HostType
  <2> HIDE DEF c
  <2>3. CASE h' = Returned(u, "opening", "none") /\ in' = <<>> /\ ~dead'
    BY <2>2, <2>3 DEF Returned
  <2>4. CASE h' = Returned(c, "session", "none") /\ in' = in /\ dead' = dead
    BY <2>2, <2>4 DEF Returned
  <2> QED
    BY <1>1, <2>3, <2>4
<1> HIDE DEF c, u
<1>4. Shape(h)'
  <2>1. Len(h'.pending) = 0 /\ Len(h'.stream) = 0
    BY <1>3 DEF Calm
  <2>2. ModeSuits(h', h'.pc)
    BY <1>3 DEF ModeSuits, Waits, IsOpen, Recovery, Connecting, Transferring, Releasing
  <2>3. SettingsSuit(h', h'.pc)
    BY <1>3 DEF SettingsSuit, Calm, InUse
  <2>4. QueueSuits(h', h'.pc)
    BY <1>3, <2>1 DEF QueueSuits, Calm, Transferring
  <2>5. Shape(h')
    BY <1>3, <2>2, <2>3, <2>4 DEF Shape, Suits
  <2> QED
    BY <2>5, ShapeCarries DEF Local
<1>5. OutOrdered => OutOrdered'
  BY <1>2 DEF OutOrdered
<1>6. Wire'
  <2>1. Own(h)'
    BY <1>3 DEF Own
  <2>2. FirmWire(h)'
    BY <1>3 DEF FirmWire, InUse, RecoverySteps
  <2>3. in' = <<>> /\ OutOrdered => Ordered'
    <3>1. in' = <<>> => Len(in') = 0
      OBVIOUS
    <3> QED
      BY <1>5, <3>1 DEF Ordered, InOrdered
  <2>4. ~loose => OpeningWire(h)'
    BY <1>3, <1>5, <2>3 DEF OpeningWire
  <2> QED
    BY <1>2, <1>3, <2>1, <2>2, <2>4 DEF Wire, Common, Local, history
<1>7. Target'
  <2>1. Granted(h)' /\ SelectHolds(h)'
    BY <1>3 DEF Granted, SelectHolds, Synced
  <2>2. SettingsHold(h)'
    BY <1>3 DEF SettingsHold, Calm
  <2>3. TransactionHolds(h)'
    BY <1>3 DEF TransactionHolds, Calm
  <2>4. FrameHolds => FrameHolds'
    BY <1>2 DEF FrameHolds, Local
  <2> QED
    BY <1>3, <2>1, <2>2, <2>3, <2>4 DEF Target, Common, Local, history
<1> QED
  BY <1>4, <1>6, <1>7 DEF LinkInv

-----------------------------------------------------------------------------
(***************************************************************************)
(* The procedures.                                                         *)
(***************************************************************************)
\* What two records with the same fields share.
Alike(k, g) ==
  /\ k.mode = g.mode /\ k.desynced = g.desynced /\ k.recovering = g.recovering
  /\ k.conf = g.conf /\ k.opened = g.opened /\ k.told = g.told /\ k.call = g.call
  /\ k.stream = g.stream /\ k.cs = g.cs /\ k.txn = g.txn
  /\ k.pending \in {g.pending, <<>>} /\ k.applied \in {g.applied, None}

\* What is handed to a procedure depends on those fields only.
LEMMA AlikeKeeps ==
  ASSUME NEW g, NEW k, Alike(k, g)
  PROVE  /\ Calm(g) => Calm(k)
         /\ Wired(g) => Wired(k)
         /\ Targeted(g) => Targeted(k)
         /\ Parked(g) => Parked(k)
         /\ IsOpen(g) => IsOpen(k)
<1>1. Calm(g) => Calm(k)
  BY DEF Alike, Calm
<1>2. Synced(k) => Synced(g)
  BY DEF Alike, Synced
<1>3. Targeted(g) => Targeted(k)
  BY <1>2 DEF Alike, Targeted
<1> QED
  BY <1>1, <1>3 DEF Alike, Wired, Parked, IsOpen

\* A link on which nothing more may come.
LEMMA QuietKeeps ==
  ASSUME LinkOK
  PROVE  Quiet => InStatus /\ OutStatus /\ Len(out) = 0 /\ out = <<>>
  BY UnderWay DEF Quiet, InStatus, OutStatus

\* A link as the engine leaves it has no answer to a status request before others.
LEMMA WiredOrdered ==
  ASSUME LinkOK, NEW g \in HostType, g.mode # "HiZ", Wired(g), g.mode = "unknown" => ~g.desynced,
         ~loose
  PROVE  OutOrdered
<1>1. g.mode \in {"closed", "unknown"} \cup InUse
  BY DEF HostType, Modes, InUse
<1> QED
  BY <1>1, OrderedAlone DEF Wired

\* DevOpen's configuration.
LEMMA ConfigureLink ==
  ASSUME LinkOK, OthersOK, NEW g \in HostType, Calm(g), IsOpen(g), ~g.recovering, Common,
         Targeted(g), Wired(g), ~loose /\ g.mode = "unknown" => ~g.desynced, Configure(g),
         Local
  PROVE  LinkInv'
<1> DEFINE k == [g EXCEPT !.applied = None, !.pending = <<>>]
<1>1. k \in HostType
  BY NoneFits, Names, SettingsFit, Zenon
<1>2. Alike(k, g) /\ k.applied = None
  BY DEF Alike, HostType
<1>3. Ask(k, "configure", Config(Wanted))
  BY DEF Configure
<1> HIDE DEF k
<1>4. Calm(k) /\ Wired(k) /\ Targeted(k) /\ IsOpen(k) /\ ~k.recovering
  BY <1>2, AlikeKeeps DEF Alike
<1>5. Suits(k, "configure")
  BY <1>1, <1>4, CalmSuits DEF Recovery, Connecting, Transferring, Releasing
<1>6. AskWired(k, "configure")
  BY <1>2, <1>4 DEF AskWired, Wired, RecoverySteps, Alike
<1>7. Config(Wanted) \in Requests /\ ReqFits(k, "configure", Config(Wanted))
  BY MenuFits, ConfigFits, RequestShapes
<1> QED
  BY <1>1, <1>2, <1>3, <1>4, <1>5, <1>6, <1>7, AskLink DEF Waits

\* A ping that was lost: the link is re-armed, or the port opened afresh.
LEMMA LostPingLink ==
  ASSUME LinkOK, NEW g \in HostType, Calm(g), IsOpen(g), Common, Targeted(g), Wired(g),
         LostPing(g), Local
  PROVE  LinkInv'
<1>1. CASE g.desynced
  BY <1>1, ResyncLink DEF LostPing
<1>2. CASE ~g.desynced
  <2>1. ~loose => OutOrdered
    BY <1>2, WiredOrdered DEF Calm
  <2> QED
    BY <1>2, <2>1, ConnectLink DEF LostPing
<1> QED
  BY <1>1, <1>2

\* DevOpen on a link that is in step.
LEMMA FastPathLink ==
  ASSUME LinkOK, OthersOK, NEW g \in HostType, Calm(g), ~g.desynced, ~g.recovering, Common,
         Targeted(g), Wired(g), FastPath(g), Local
  PROVE  LinkInv'
<1>1. menu.reset \in BOOLEAN /\ Wanted.bus \in {"SPI", "I2C"} /\ Wanted # None
  BY MenuFits DEF None
<1>2. CASE menu.reset \/ ~IsOpen(g)
  <2>1. ~loose => OutOrdered
    BY WiredOrdered DEF Calm
  <2>2. Connect(g, "ping")
    BY <1>1, <1>2 DEF FastPath
  <2> QED
    BY <2>1, <2>2, ConnectLink
<1>3. CASE ~menu.reset /\ IsOpen(g) /\ ~Current(g)
  <2>1. Configure(g)
    BY <1>3 DEF FastPath
  <2> QED
    BY <1>3, <2>1, ConfigureLink
<1>4. CASE ~menu.reset /\ IsOpen(g) /\ Current(g)
  <2>1. g.pending = <<>> /\ g.applied = Wanted /\ g.mode \in InUse
    BY <1>1, <1>4 DEF Calm, Current
  <2>2. Ask(g, "ping", Status)
    BY <1>4, <2>1 DEF FastPath
  <2>3. Suits(g, "ping")
    BY <1>4, <2>1, CalmSuits DEF Recovery, Connecting, Transferring, Releasing
  <2>4. AskWired(g, "ping")
    BY <2>1 DEF AskWired, Wired
  <2> QED
    BY <2>2, <2>3, <2>4, StatusFits, RequestShapes, AskLink DEF Waits
<1> QED
  BY <1>2, <1>3, <1>4

\* DevOpen once the flags are reset.
LEMMA BeginLink ==
  ASSUME LinkOK, OthersOK, NEW g \in HostType, Calm(g), ~g.recovering, Common,
         Targeted(g), Wired(g), Begin(g), Local
  PROVE  LinkInv'
<1>1. g.desynced \in BOOLEAN
  BY DEF HostType
<1>2. CASE g.desynced /\ IsOpen(g)
  <2> DEFINE k == [g EXCEPT !.applied = None]
  <2>1. k \in HostType
    BY NoneFits, SettingsFit, Zenon
  <2>2. Alike(k, g)
    BY DEF Alike, HostType
  <2>3. Resync(k, "open")
    BY <1>2 DEF Begin
  <2> HIDE DEF k
  <2> QED
    BY <1>2, <2>1, <2>2, <2>3, AlikeKeeps, ResyncLink
<1>3. CASE g.desynced /\ ~IsOpen(g)
  <2>1. ~loose => OutOrdered
    BY <1>3 DEF Wired, IsOpen
  <2>2. Connect(g, "open")
    BY <1>3 DEF Begin
  <2> QED
    BY <2>1, <2>2, ConnectLink
<1>4. CASE ~g.desynced
  BY <1>4, FastPathLink DEF Begin
<1> QED
  BY <1>1, <1>2, <1>3, <1>4

\* EnterHiZ.
LEMMA GoHiZLink ==
  ASSUME LinkOK, NEW g \in HostType, Calm(g), IsOpen(g), ~g.recovering, Common, Targeted(g),
         Wired(g), Parked(g), ~loose /\ g.mode = "unknown" => ~g.desynced, GoHiZ(g), Local
  PROVE  LinkInv'
<1> DEFINE t == g.tried \/ ~Gate(g)
           k == [g EXCEPT !.tried = t]
<1>1. k \in HostType /\ HiZ \in Requests
  <2>1. t \in BOOLEAN
    OBVIOUS
  <2> HIDE DEF t
  <2>2. HiZ \in Requests
    BY ConfigFits, NoneFits DEF HiZ, None
  <2> QED
    BY <2>1, <2>2, CallFits, Zenon
<1>2. Ask(k, "hiz", HiZ)
  BY DEF GoHiZ, HostType
<1> HIDE DEF t
<1>3. Alike(k, g)
  BY DEF Alike, HostType
<1> HIDE DEF k
<1>4. Calm(k) /\ Wired(k) /\ Targeted(k) /\ Parked(k) /\ IsOpen(k) /\ ~k.recovering
  BY <1>3, AlikeKeeps DEF Alike
<1>5. Suits(k, "hiz")
  BY <1>1, <1>4, CalmSuits DEF Recovery, Connecting, Transferring, Releasing
<1>6. AskWired(k, "hiz")
  BY <1>3, <1>4 DEF AskWired, Wired, Parked, RecoverySteps, Alike
<1> QED
  BY <1>1, <1>2, <1>4, <1>5, <1>6, RequestShapes, AskLink DEF Waits

\* What DevClose and Disconnect do after SafePowerDown.
LEMMA ClosedLink ==
  ASSUME LinkOK, NEW g \in HostType, g.call = NoCall, g.stream = <<>>, Common,
         ~loose => OutOrdered, NEW told \in Words,
         ~loose /\ told = "off" => dev.bus = "HiZ" /\ ~dev.power /\ out = <<>>,
         Closed(g, told), Local
  PROVE  LinkInv'
<1> DEFINE c == EngineClosed(g)
           k == [c EXCEPT !.applied = None, !.opened = FALSE, !.told = told]
<1>1. k \in HostType
  <2>1. <<>> \in Seq(1 .. MaxTxns) /\ "closed" \in Modes /\ FALSE \in BOOLEAN
    BY Names
  <2>2. c \in HostType
    BY <2>1, ModeFits, Zenon DEF EngineClosed
  <2> HIDE DEF c
  <2> QED
    BY <2>1, <2>2, NoneFits, SettingsFit, Zenon
<1>2. Go(k, "idle")
  BY DEF Closed
<1>3. /\ k.mode = "closed" /\ k.applied = None /\ ~k.opened /\ k.told = told
      /\ k.pending = <<>> /\ k.stream = <<>> /\ k.call = NoCall /\ ~k.recovering
  BY DEF EngineClosed, HostType
<1> HIDE DEF k, c
<1>4. Suits(k, "idle")
  <2>1. Len(k.pending) = 0 /\ Len(k.stream) = 0
    BY <1>3
  <2>2. ModeSuits(k, "idle")
    BY <1>3 DEF ModeSuits, Waits, Recovery, Connecting, Transferring, Releasing
  <2>3. SettingsSuit(k, "idle")
    BY <1>3 DEF SettingsSuit, InUse
  <2>4. QueueSuits(k, "idle")
    BY <1>3, <2>1 DEF QueueSuits, Transferring
  <2> QED
    BY <2>2, <2>3, <2>4 DEF Suits
<1>5. Wired(k) /\ Parked(k) /\ Targeted(k) /\ Settled(k, "idle")
  BY <1>3 DEF Wired, Parked, Targeted, Settled, InUse, Synced
<1> QED
  BY <1>1, <1>2, <1>4, <1>5, GoLink DEF Local, history

\* Pins and supply off.
LEMMA PowerDownLink ==
  ASSUME h \in HostType, LinkOK, NEW g \in HostType, Calm(g), IsOpen(g), ~g.recovering, Common,
         Targeted(g), Wired(g), Parked(g), ~loose /\ g.mode = "unknown" => ~g.desynced,
         PowerDown(g), Local
  PROVE  LinkInv'
<1> DEFINE k == [g EXCEPT !.pending = <<>>]
           q == IF g.mode = "SPI" THEN k ELSE g
<1>1. q \in HostType
  <2>1. k \in HostType
    BY Names, ModeFits, EmptySeq, Zenon
  <2> QED
    BY <2>1
<1>2. Alike(q, g)
  <2>1. Alike(k, g) /\ Alike(g, g)
    BY DEF Alike, HostType
  <2> QED
    BY <2>1
<1>3. IF q.mode = "SPI" /\ q.cs THEN Ask(q, "down_release", Release) ELSE GoHiZ(q)
  BY DEF PowerDown
<1> HIDE DEF q
<1>4. Calm(q) /\ Wired(q) /\ Targeted(q) /\ Parked(q) /\ IsOpen(q) /\ ~q.recovering
      /\ (~loose /\ q.mode = "unknown" => ~q.desynced)
  BY <1>2, AlikeKeeps DEF Alike
<1>5. CASE q.mode = "SPI" /\ q.cs
  <2>1. Suits(q, "down_release")
    BY <1>1, <1>4, <1>5, CalmSuits DEF Recovery, Connecting, Transferring, Releasing
  <2>2. AskWired(q, "down_release")
    BY <1>4, <1>5 DEF AskWired, Wired, InUse
  <2>3. Release \in Requests /\ ReqFits(q, "down_release", Release)
    BY ReleaseFits, RequestShapes DEF Releasing
  <2> QED
    BY <1>1, <1>3, <1>4, <1>5, <2>1, <2>2, <2>3, AskLink DEF Waits
<1>6. CASE ~(q.mode = "SPI" /\ q.cs)
  BY <1>1, <1>3, <1>4, <1>6, GoHiZLink
<1> QED
  BY <1>5, <1>6

\* SafePowerDown, whatever state the link is in.
LEMMA SafePowerDownLink ==
  ASSUME h \in HostType, LinkOK, NEW g \in HostType, Calm(g), ~g.recovering, Common,
         Targeted(g), Wired(g), Parked(g), SafePowerDown(g), Local
  PROVE  LinkInv'
<1>1. g.desynced \in BOOLEAN
  BY DEF HostType
<1>2. CASE ~IsOpen(g)
  <2>1. ~loose => OutOrdered
    BY <1>2 DEF Wired, IsOpen
  <2>2. Closed(g, "none")
    BY <1>2 DEF SafePowerDown
  <2> QED
    BY <2>1, <2>2, ClosedLink DEF Calm, Words
<1>3. CASE IsOpen(g) /\ g.desynced
  BY <1>3, ResyncLink DEF SafePowerDown
<1>4. CASE IsOpen(g) /\ ~g.desynced
  BY <1>4, PowerDownLink DEF SafePowerDown
<1> QED
  BY <1>1, <1>2, <1>3, <1>4

\* What follows Resync.
LEMMA RearmedLink ==
  ASSUME h \in HostType, LinkOK, OthersOK, h.site \in {"open", "ping", "down"},
         NEW r \in HostType, Calm(r), IsOpen(r), Common, NEW ok \in BOOLEAN,
         ~loose => Len(out) <= 1 /\ (ok => Quiet),
         ~loose /\ r.applied # None /\ ~dead => Holds(r.applied),
         ~loose /\ ok /\ r.mode = "SPI" /\ ~dead => (dev.cs <=> r.cs),
         Rearmed(r, ok), Local
  PROVE  LinkInv'
<1> DEFINE g == [r EXCEPT !.recovering = FALSE, !.desynced = ~ok]
<1>1. g \in HostType
  <2>1. FALSE \in BOOLEAN /\ (~ok) \in BOOLEAN
    OBVIOUS
  <2> QED
    BY <2>1, ModeFits, Zenon
<1>2. /\ g.mode = r.mode /\ g.conf = r.conf /\ g.opened = r.opened /\ g.told = r.told
      /\ g.call = r.call /\ g.stream = r.stream /\ g.cs = r.cs /\ g.pending = r.pending
      /\ g.applied = r.applied /\ ~g.recovering /\ g.desynced = ~ok
  BY DEF HostType
<1>3. /\ h.site = "open" /\ ok => FastPath(g)
      /\ h.site = "open" /\ ~ok => Connect(g, "open")
      /\ h.site = "ping" /\ ok => Configure(g)
      /\ h.site = "ping" /\ ~ok => Connect(g, "ping")
      /\ h.site = "down" /\ ok => PowerDown(g)
      /\ h.site = "down" /\ ~ok => Closed(g, "unreachable")
  <2>1. CASE h.site = "open"
    BY <2>1 DEF Rearmed
  <2>2. CASE h.site = "ping"
    BY <2>2 DEF Rearmed
  <2>3. CASE h.site = "down"
    BY <2>3 DEF Rearmed
  <2> QED
    BY <2>1, <2>2, <2>3
<1> HIDE DEF g
<1>4. Calm(g) /\ IsOpen(g)
  BY <1>2 DEF Calm, IsOpen
<1>5. Wired(g) /\ Parked(g)
  BY <1>2, <1>4, QuietKeeps DEF Wired, Parked, IsOpen
<1>6. Targeted(g)
  BY <1>2, <1>4 DEF Targeted, Synced, Calm
<1>7. ~loose => OutOrdered
  BY OrderedAlone
<1>8. CASE ok
  <2>1. h.site = "open" => LinkInv'
    BY <1>1, <1>2, <1>3, <1>4, <1>5, <1>6, <1>8, FastPathLink
  <2>2. h.site = "ping" => LinkInv'
    BY <1>1, <1>2, <1>3, <1>4, <1>5, <1>6, <1>8, ConfigureLink
  <2>3. h.site = "down" => LinkInv'
    BY <1>1, <1>2, <1>3, <1>4, <1>5, <1>6, <1>8, PowerDownLink
  <2> QED
    BY <2>1, <2>2, <2>3
<1>9. CASE ~ok
  <2>1. h.site \in {"open", "ping"} => LinkInv'
    BY <1>1, <1>3, <1>4, <1>7, <1>9, ConnectLink
  <2>2. h.site = "down" => LinkInv'
    BY <1>1, <1>3, <1>4, <1>7, <1>9, ClosedLink DEF Calm, Words
  <2> QED
    BY <2>1, <2>2
<1> QED
  BY <1>8, <1>9

\* A session begins.
LEMMA OpenedLink ==
  ASSUME LinkOK, NEW g \in HostType, Calm(g), g.mode \in InUse, ~g.recovering, Common,
         Wired(g), Targeted(g), ~loose /\ ~dead => Holds(Wanted), g.mode = "SPI" => ~g.cs,
         Opened(g), Local
  PROVE  LinkInv'
<1> DEFINE k == [g EXCEPT !.opened = TRUE]
<1>1. k \in HostType
  BY CallFits, Zenon
<1>2. /\ k.mode = g.mode /\ k.conf = g.conf /\ k.opened /\ k.told = g.told
      /\ k.call = g.call /\ k.stream = g.stream /\ k.cs = g.cs /\ k.pending = g.pending
      /\ k.applied = g.applied /\ ~k.recovering /\ k.desynced = g.desynced
  BY DEF HostType
<1>3. Go(k, "session")
  BY DEF Opened
<1> HIDE DEF k
<1>4. Suits(k, "session")
  <2>1. Len(k.pending) = 0 /\ Len(k.stream) = 0
    BY <1>2 DEF Calm
  <2>2. ModeSuits(k, "session")
    BY <1>2 DEF ModeSuits, InUse, Waits, Recovery, Connecting, Transferring, Releasing
  <2>3. SettingsSuit(k, "session")
    BY <1>2 DEF SettingsSuit, Calm
  <2>4. QueueSuits(k, "session")
    BY <1>2, <2>1 DEF QueueSuits, Calm, Transferring
  <2> QED
    BY <2>2, <2>3, <2>4 DEF Suits
<1>5. Wired(k) /\ Parked(k)
  BY <1>2 DEF Wired, Parked, InUse
<1>6. Synced(k) <=> Synced(g)
  BY <1>2 DEF Synced
<1>7. Targeted(k)
  <2>1. ~loose /\ Synced(g) => dev.frame = {}
    BY DEF Targeted, Synced, Common
  <2> QED
    BY <1>2, <1>6, <2>1 DEF Targeted
<1>8. Settled(k, "session")
  BY <1>2 DEF Settled, Calm
<1> QED
  BY <1>1, <1>3, <1>4, <1>5, <1>7, <1>8, GoLink DEF Local, history

\* A session ends, with DevClose or SPIDeinit.
Ends(g) ==
  /\ g.mode # "HiZ" /\ (g.mode \in InUse => g.conf.bus = g.mode)
  /\ g.applied # None => g.mode \in InUse /\ g.applied = g.conf
  /\ ~g.recovering /\ g.told = "none" /\ g.call = NoCall /\ g.stream = <<>>
  /\ g.opened => g.mode \in InUse
  /\ g.site \in {"close", "deinit"} /\ (g.site = "close" => ~g.opened)

\* A record with which a session ends may be wherever it ends.
LEMMA EndsSuits ==
  ASSUME NEW g \in HostType, Ends(g), g.pending = <<>>
  PROVE  /\ Suits(g, "session") /\ Suits(g, "idle")
         /\ g.mode = "SPI" => Suits(g, "release")
         /\ ~g.opened => Calm(g)
<1>1. Len(g.pending) = 0 /\ Len(g.stream) = 0
  BY DEF Ends
<1>2. ASSUME NEW p \in {"session", "idle", "release"}, p = "release" => g.mode = "SPI"
      PROVE  Suits(g, p)
  <2>1. ModeSuits(g, p)
    BY <1>2 DEF ModeSuits, Ends, IsOpen, Waits, Recovery, Connecting, Transferring, Releasing
  <2>2. SettingsSuit(g, p)
    BY <1>2 DEF SettingsSuit, Ends
  <2>3. QueueSuits(g, p)
    BY <1>1, <1>2 DEF QueueSuits, Ends, Transferring
  <2> QED
    BY <2>1, <2>2, <2>3 DEF Suits
<1> QED
  BY <1>2 DEF Calm, Ends

\* What follows the release of chip select, in SPIDeinit and in DevClose.
LEMMA AfterReleaseLink ==
  ASSUME h \in HostType, LinkOK, OthersOK, NEW g \in HostType, Ends(g), g.pending = <<>>, Common,
         Wired(g), Parked(g), Targeted(g), AfterRelease(g), Local
  PROVE  LinkInv'
<1>1. menu.reset \in BOOLEAN
  BY MenuFits
<1>2. CASE g.site = "deinit"
  <2>1. Go(g, "session")
    BY <1>2 DEF AfterRelease
  <2>2. Settled(g, "session")
    BY <1>2 DEF Settled, Ends
  <2> QED
    BY <2>1, <2>2, EndsSuits, GoLink DEF Local, history
<1>3. CASE g.site = "close" /\ menu.reset
  <2>1. SafePowerDown(g)
    BY <1>3 DEF AfterRelease
  <2>2. Calm(g) /\ ~g.recovering
    BY <1>3, EndsSuits DEF Ends
  <2> QED
    BY <2>1, <2>2, SafePowerDownLink
<1>4. CASE g.site = "close" /\ ~menu.reset
  <2>1. Go(g, "idle")
    BY <1>4 DEF AfterRelease
  <2>2. Settled(g, "idle")
    BY DEF Settled, Ends
  <2> QED
    BY <2>1, <2>2, EndsSuits, GoLink DEF Local, history
<1> QED
  BY <1>1, <1>2, <1>3, <1>4 DEF Ends

\* SPIReleaseCS, with the chip selected or not.
LEMMA SPIReleaseCSLink ==
  ASSUME h \in HostType, LinkOK, OthersOK, NEW g \in HostType, Ends(g),
         g.mode # "SPI" => g.pending = <<>>, Common, Wired(g), Parked(g), Targeted(g),
         SPIReleaseCS(g), Local
  PROVE  LinkInv'
<1> DEFINE k == [g EXCEPT !.pending = <<>>]
<1>1. CASE g.mode # "SPI"
  <2>1. AfterRelease(g)
    BY <1>1 DEF SPIReleaseCS
  <2> QED
    BY <1>1, <2>1, AfterReleaseLink
<1>2. CASE g.mode = "SPI"
  <2>1. k \in HostType
    BY Names, ModeFits, Zenon
  <2>2. Alike(k, g) /\ k.site = g.site /\ k.pending = <<>> /\ k.applied = g.applied
    BY DEF Alike, HostType
  <2>3. IF g.cs THEN Ask(k, "release", Release) ELSE AfterRelease(k)
    BY <1>2 DEF SPIReleaseCS, Dropped
  <2> HIDE DEF k
  <2>4. Ends(k) /\ Wired(k) /\ Parked(k) /\ Targeted(k)
    BY <2>2, AlikeKeeps DEF Ends, Alike
  <2>5. CASE g.cs
    <3>1. Suits(k, "release")
      BY <1>2, <2>1, <2>2, <2>4, EndsSuits DEF Alike
    <3>2. AskWired(k, "release")
      BY <1>2, <2>2, <2>4 DEF AskWired, Wired, InUse, Alike, Ends
    <3>3. Release \in Requests /\ ReqFits(k, "release", Release)
      BY ReleaseFits, RequestShapes DEF Releasing
    <3> QED
      BY <2>1, <2>3, <2>4, <2>5, <3>1, <3>2, <3>3, AskLink DEF Waits
  <2>6. CASE ~g.cs
    BY <2>1, <2>2, <2>3, <2>4, <2>6, AfterReleaseLink
  <2> QED
    BY <2>5, <2>6
<1> QED
  BY <1>1, <1>2

\* SPITransfer, up to its next request.
LEMMA TransferLink ==
  ASSUME LinkOK, NEW g, Ready(g), Suits(g, "slice"), Common, Wired(g), Targeted(g),
         Transfer(g), Local
  PROVE  LinkInv'
<1>1. PICK p \in {"push", "assert", "slice"}, r \in Requests :
        /\ Ask(g, p, r) /\ r.kind = "data" /\ ~r.stale /\ ~r.garbled
        /\ r.start <=> ~g.cs
        /\ r.stop <=> p = "slice" /\ StopMain(g)
        /\ \A i \in 1 .. Len(r.bytes) :
             \E j \in 1 .. Len(g.stream) : r.bytes[i] = g.stream[j]
        /\ r.by = g.txn
  BY TransferAsks
<1>2. g \in HostType /\ p \in Waits /\ p \in Transferring
  BY DEF Ready, Waits, Transferring
<1>3. Suits(g, p)
  BY <1>2 DEF Suits, ModeSuits, SettingsSuit, QueueSuits, Transferring, Recovery, Connecting,
              Releasing, Waits
<1>4. Owners(r) \subseteq {g.txn}
  <2>1. \A i \in 1 .. Len(r.bytes) : r.bytes[i] = g.txn
    BY <1>1 DEF Suits, QueueSuits
  <2>2. r.bytes \in Seq(1 .. MaxTxns)
    BY DEF Requests
  <2>3. ToSet(r.bytes) \subseteq {g.txn}
    BY <2>1, <2>2, LenProperties DEF ToSet
  <2> QED
    BY <1>1, <2>3 DEF Owners
<1>5. ReqFits(g, p, r)
  BY <1>1, <1>2, <1>4 DEF ReqFits, Transferring, Releasing
<1>6. AskWired(g, p)
  <2>1. g.mode = "SPI" /\ ~g.recovering
    BY DEF Suits, ModeSuits, Transferring, Recovery
  <2> QED
    BY <1>2, <2>1 DEF AskWired, Wired, Transferring, InUse
<1> QED
  BY <1>1, <1>2, <1>3, <1>5, <1>6, AskLink DEF Transferring

-----------------------------------------------------------------------------
(***************************************************************************)
(* What the invariant says where the code is.                              *)
(***************************************************************************)
LEMMA CalmAt ==
  ASSUME h \in HostType, Shape(h),
         h.pc \in Recovery \cup Connecting \cup {"ping", "fast_release", "configure",
                                                 "down_release", "hiz"}
  PROVE  Calm(h) /\ IsOpen(h)
<1>1. /\ ModeSuits(h, h.pc) /\ SettingsSuit(h, h.pc) /\ QueueSuits(h, h.pc)
      /\ h.pc \notin {"idle", "session", "release"} \cup Transferring
  BY DEF Shape, Suits, Recovery, Connecting, Transferring
<1>2. h.pc \in Waits \cup Recovery \cup {"opening"}
  BY DEF Waits, Recovery, Connecting
<1> QED
  BY <1>1, <1>2 DEF Calm, ModeSuits, SettingsSuit, QueueSuits

\* Between the operations no transaction is under way either.
LEMMA CalmIdle ==
  ASSUME h \in HostType, Shape(h), h.pc = "idle"
  PROVE  h.call = NoCall /\ h.pending = <<>> /\ h.stream = <<>>
<1>1. QueueSuits(h, "idle")
  BY DEF Shape, Suits
<1> QED
  BY <1>1 DEF QueueSuits, Transferring

\* What does not depend on the engine holds throughout.
LEMMA CommonHolds ==
  ASSUME Wire, Target
  PROVE  Common
  BY DEF Wire, Target, Common

\* When nothing is waited for.
LEMMA WiredAt ==
  ASSUME LinkOK, h \in HostType, Shape(h), Wire,
         h.answer \in {"none", "no"}, h.pc # "drain", ~h.recovering,
         h.mode = "unknown" /\ ~h.desynced =>
           h.pc \in {"idle", "session"} \/ (h.pc = "configure" /\ h.answer = "no")
  PROVE  Wired(h) /\ Parked(h)
  BY DEF Wired, Parked, Wire, FirmWire, OpeningWire

\* When a request was carried out, on a link that is in use or about to be.
LEMMA QuietAt ==
  ASSUME LinkOK, h \in HostType, Wire, h.answer = "ok", h.pc # "drain", ~loose,
         \/ h.mode \in InUse \/ h.pc \in RecoverySteps
         \/ h.mode = "unknown" /\ h.pc \in {"configure", "hiz"}
  PROVE  Quiet
<1>1. CASE h.mode \in InUse \/ h.pc \in RecoverySteps
  BY <1>1 DEF Wire, FirmWire, RecoverySteps
<1>2. CASE h.mode = "unknown" /\ h.pc \in {"configure", "hiz"}
  BY <1>2 DEF Wire, OpeningWire
<1> QED
  BY <1>1, <1>2

\* On a quiet line nothing can go wrong.
LEMMA WiredQuiet ==
  ASSUME LinkOK, Quiet, NEW g
  PROVE  Wired(g) /\ Parked(g)
  BY QuietKeeps, OrderedAlone DEF Wired, Parked

\* What is known of the device when nothing is waited for.
LEMMA TargetedAt ==
  ASSUME h \in HostType, Target, h.answer \in {"none", "no"}, h.pc \notin {"idle", "hiz"}
  PROVE  Targeted(h)
<1>1. Synced(h) /\ h.opened => h.pc # "idle"
  OBVIOUS
<1> QED
  BY DEF Targeted, Target, SettingsHold, SelectHolds, TransactionHolds

-----------------------------------------------------------------------------
(***************************************************************************)
(* The actions of the host.                                                *)
(***************************************************************************)
\* What every step of the host starts from.
LEMMA FromHere ==
  ASSUME IInv, LinkInv
  PROVE  /\ h \in HostType /\ Ready(h) /\ LinkOK /\ OthersOK /\ Common
         /\ Shape(h) /\ Suits(h, h.pc) /\ ModeSuits(h, h.pc) /\ SettingsSuit(h, h.pc)
         /\ QueueSuits(h, h.pc) /\ Wire /\ Target
         /\ SiteFits(h.pc, h.site) /\ (h.pc \in Waits <=> h.answer # "none")
  BY AtStart, CommonHolds DEF LinkInv, Shape, Suits, Placed

\* Resync's drain: nothing is left under way.
LEMMA DrainLink ==
  ASSUME IInv, LinkInv, Drain
  PROVE  LinkInv'
<1> DEFINE g == Forgotten(h)
<1>1. /\ h \in HostType /\ LinkOK /\ Common /\ Wire /\ Target /\ ModeSuits(h, "drain")
      /\ SettingsSuit(h, "drain") /\ QueueSuits(h, "drain")
      /\ h.pc = "drain" /\ Local /\ h' = Returned(g, "drained", "none")
      /\ in' = <<>> /\ out' = out /\ half' = half /\ dead' = dead
  BY FromHere DEF Drain, At
<1>2. out = <<>> /\ Len(in') = 0
  BY <1>1 DEF Drain, Common
<1>3. /\ h'.pc = "drained" /\ h'.answer = "none" /\ h'.mode = h.mode
      /\ h'.recovering = h.recovering /\ h'.conf = h.conf /\ h'.applied = h.applied
      /\ h'.opened = h.opened /\ h'.told = h.told /\ h'.call = h.call /\ h'.pending = <<>>
      /\ h'.stream = h.stream /\ h'.txn = h.txn
  BY <1>1 DEF Returned, Forgotten, HostType
<1> HIDE DEF g
<1>4. Shape(h)'
  <2>1. ModeSuits(h', "drained")
    BY <1>1, <1>3 DEF ModeSuits, IsOpen, Recovery, Connecting, Transferring, Releasing
  <2>2. SettingsSuit(h', "drained")
    BY <1>1, <1>3 DEF SettingsSuit, Transferring
  <2>3. QueueSuits(h', "drained")
    <3>1. Len(h'.pending) = 0
      BY <1>3
    <3> QED
      BY <1>1, <1>3, <3>1 DEF QueueSuits, Transferring
  <2>4. Shape(h')
    BY <1>3, <2>1, <2>2, <2>3 DEF Shape, Suits
  <2> QED
    BY <1>1, <2>4, ShapeCarries DEF Local
<1>5. Wire'
  <2>1. Own(h)'
    BY <1>3 DEF Own
  <2>2. Len(out') <= 1 /\ Quiet'
    <3>1. Len(out') = 0
      BY <1>1, <1>2
    <3> QED
      BY <1>1, <1>2, <3>1 DEF Quiet
  <2>3. FirmWire(h)'
    BY <1>3, <2>2 DEF FirmWire
  <2>4. h.mode # "closed"
    BY <1>1 DEF ModeSuits, IsOpen, Recovery
  <2>5. OpeningWire(h)'
    BY <1>3, <2>4 DEF OpeningWire
  <2> QED
    BY <1>1, <2>1, <2>3, <2>5 DEF Wire, Common, Local, history
<1>6. Target'
  <2>1. ~h.opened /\ h.recovering /\ h.told = "none"
    BY <1>1 DEF SettingsSuit, ModeSuits, Recovery, Transferring
  <2>2. \A c : Holds(c) => Holds(c)'
    BY <1>1 DEF Holds, Local
  <2>3. ~loose => SettingsHold(h)'
    BY <1>1, <1>3, <2>1, <2>2 DEF SettingsHold, Target
  <2>4. Granted(h)' /\ SelectHolds(h)' /\ TransactionHolds(h)'
    BY <1>3, <2>1 DEF Granted, SelectHolds, TransactionHolds, Synced
  <2>5. FrameHolds => FrameHolds'
    BY <1>1 DEF FrameHolds, Local
  <2> QED
    BY <1>1, <2>3, <2>4, <2>5 DEF Target, Common, Local, history
<1> QED
  BY <1>4, <1>5, <1>6 DEF LinkInv

\* Resync's status request, and what its answer leads to.
LEMMA ResyncStatusLink ==
  ASSUME IInv, LinkInv, ResyncStatus
  PROVE  LinkInv'
<1>1. /\ h \in HostType /\ LinkOK /\ Common /\ Wire /\ Target /\ Shape(h)
      /\ ModeSuits(h, "drained") /\ h.pc = "drained" /\ h.answer = "none" /\ Local
      /\ Ask(h, "resync_status", Status)
  BY FromHere DEF ResyncStatus, At
<1>2. Calm(h) /\ IsOpen(h) /\ h.recovering
  BY <1>1, CalmAt DEF Recovery, ModeSuits
<1>3. Suits(h, "resync_status")
  BY <1>1, <1>2, CalmSuits DEF Recovery, Connecting, Transferring, Releasing
<1>4. Targeted(h)
  BY <1>1, TargetedAt
<1>5. AskWired(h, "resync_status")
  BY <1>1 DEF AskWired, Wire, FirmWire, RecoverySteps
<1> QED
  BY <1>1, <1>3, <1>4, <1>5, StatusFits, RequestShapes, AskLink DEF Waits

\* The status request of Resync was answered, or was not.
LEMMA ResyncAnsweredLink ==
  ASSUME IInv, LinkInv, ResyncAnswered
  PROVE  LinkInv'
<1>1. /\ h \in HostType /\ LinkOK /\ OthersOK /\ Common /\ Wire /\ Target /\ Shape(h)
      /\ ModeSuits(h, "resync_status") /\ h.pc = "resync_status" /\ h.answer \in {"ok", "no"}
      /\ h.site \in {"open", "ping", "down"} /\ Local
  BY FromHere DEF ResyncAnswered, Answered, SiteFits, Recovery
<1>2. Calm(h) /\ IsOpen(h) /\ h.recovering
  BY <1>1, CalmAt DEF Recovery, ModeSuits
<1>3. ~loose => Len(out) <= 1 /\ (Ok => Quiet)
  BY <1>1 DEF Wire, FirmWire, RecoverySteps, Ok
<1>4. ~loose /\ h.applied # None /\ ~dead => Holds(h.applied)
  BY <1>1 DEF Target, SettingsHold
<1>5. CASE Ok /\ h.mode \in InUse
  <2> DEFINE k == [h EXCEPT !.pending = <<>>]
  <2>1. k \in HostType
    BY <1>1, Names, ModeFits, Zenon
  <2>2. Alike(k, h)
    BY <1>1 DEF Alike, HostType
  <2>3. Ask(k, "resync_config", Config(k.conf))
    BY <1>1, <1>5, <2>2 DEF ResyncAnswered, Alike, InUse
  <2> HIDE DEF k
  <2>4. Calm(k) /\ IsOpen(k) /\ k.recovering /\ k.mode \in InUse
    BY <1>2, <1>5, <2>2, AlikeKeeps DEF Alike
  <2>5. Suits(k, "resync_config")
    BY <2>1, <2>4, CalmSuits DEF Recovery, Connecting, Transferring, Releasing
  <2>6. Targeted(k)
    BY <1>4, <2>2, <2>4 DEF Targeted, Alike, Calm, Synced
  <2>7. AskWired(k, "resync_config")
    BY <1>3, <1>5 DEF AskWired
  <2>8. Config(k.conf) \in Requests /\ ReqFits(k, "resync_config", Config(k.conf))
    BY <2>1, ConfigFits, RequestShapes DEF HostType
  <2> QED
    BY <1>1, <2>1, <2>3, <2>5, <2>6, <2>7, <2>8, AskLink DEF Waits
<1>6. CASE ~(Ok /\ h.mode \in InUse)
  <2>1. Rearmed(h, Ok) /\ Ok \in BOOLEAN
    BY <1>6 DEF ResyncAnswered, InUse, Ok
  <2>2. Ok => h.mode # "SPI"
    BY <1>6 DEF InUse
  <2> HIDE DEF Ok
  <2> QED
    BY <1>1, <1>2, <1>3, <1>4, <2>1, <2>2, RearmedLink
<1> QED
  BY <1>5, <1>6

\* The mode is entered again.
LEMMA ResyncConfiguredLink ==
  ASSUME IInv, LinkInv, ResyncConfigured
  PROVE  LinkInv'
<1>1. /\ h \in HostType /\ LinkOK /\ OthersOK /\ Common /\ Wire /\ Target /\ Shape(h)
      /\ ModeSuits(h, "resync_config") /\ h.pc = "resync_config" /\ h.answer \in {"ok", "no"}
      /\ h.site \in {"open", "ping", "down"} /\ Local
  BY FromHere DEF ResyncConfigured, Answered, SiteFits, Recovery
<1>2. Calm(h) /\ IsOpen(h) /\ h.mode \in InUse /\ h.conf.bus = h.mode
  BY <1>1, CalmAt DEF Recovery, ModeSuits, Calm
<1>3. ~loose => Len(out) <= 1 /\ (Ok => Quiet)
  BY <1>1 DEF Wire, FirmWire, RecoverySteps, Ok
<1>4. ~loose /\ h.applied # None /\ ~dead => Holds(h.applied)
  BY <1>1 DEF Target, SettingsHold
<1>5. CASE Ok
  <2> DEFINE k == Entered(h, h.conf)
  <2>1. h.conf \in Configs
    BY <1>1 DEF HostType
  <2>2. k \in HostType
    BY <1>1, <2>1, AtStart, EnteredFits DEF Ready
  <2>3. /\ k.mode = h.mode /\ k.conf = h.conf /\ k.opened = h.opened /\ k.told = h.told
        /\ k.call = h.call /\ k.stream = h.stream /\ k.pending = h.pending
        /\ k.applied = h.applied /\ (h.mode = "SPI" => ~k.cs)
    BY <1>1, <1>2 DEF Entered, HostType
  <2>4. Rearmed(k, Ok) /\ Ok \in BOOLEAN
    BY <1>5 DEF ResyncConfigured, Ok
  <2> HIDE DEF k
  <2>5. Calm(k) /\ IsOpen(k)
    BY <1>2, <2>3 DEF Calm, IsOpen
  <2>6. ~loose /\ ~dead => ~dev.cs
    <3>1. h.req = Config(h.conf)
      BY <1>1, <1>5 DEF Shape, ReqFits, Ok
    <3>2. h.req.kind = "config"
      BY <3>1 DEF Config, Status
    <3> QED
      BY <1>1, <1>5, <3>2 DEF Target, Granted, Done, Ok
  <2> HIDE DEF Ok
  <2> QED
    BY <1>1, <1>3, <1>4, <2>2, <2>3, <2>4, <2>5, <2>6, RearmedLink
<1>6. CASE ~Ok
  <2>1. Rearmed(h, Ok) /\ Ok \in BOOLEAN
    BY <1>6 DEF ResyncConfigured, Ok
  <2> HIDE DEF Ok
  <2> QED
    BY <1>1, <1>2, <1>3, <1>4, <1>6, <2>1, RearmedLink
<1> QED
  BY <1>5, <1>6

\* A port that was opened is asked whether anyone answers, and then what it is.
LEMMA ProbeLink ==
  ASSUME IInv, LinkInv, Probe
  PROVE  LinkInv'
<1>1. /\ h \in HostType /\ LinkOK /\ Common /\ Wire /\ Target /\ Shape(h)
      /\ ModeSuits(h, "opening") /\ h.pc = "opening" /\ h.answer = "none" /\ Local
      /\ Ask(h, "probe", Status)
  BY FromHere DEF Probe, At
<1>2. Calm(h) /\ IsOpen(h) /\ ~h.recovering /\ h.mode = "unknown"
  BY <1>1, CalmAt DEF Recovery, Connecting, ModeSuits
<1>3. Suits(h, "probe")
  BY <1>1, <1>2, CalmSuits DEF Recovery, Connecting, Transferring, Releasing
<1>4. Targeted(h)
  BY <1>1, TargetedAt
<1>5. AskWired(h, "probe")
  BY <1>1, <1>2 DEF AskWired, Wire, OpeningWire, InUse, RecoverySteps
<1> QED
  BY <1>1, <1>3, <1>4, <1>5, StatusFits, RequestShapes, AskLink DEF Waits

\* Connect's probe: the port answers, or is closed.
LEMMA ProbedLink ==
  ASSUME IInv, LinkInv, Probed
  PROVE  LinkInv'
<1>1. /\ h \in HostType /\ LinkOK /\ OthersOK /\ Common /\ Wire /\ Target /\ Shape(h)
      /\ ModeSuits(h, "probe") /\ h.pc = "probe" /\ h.answer \in {"ok", "no"} /\ Local
  BY FromHere DEF Probed, Answered
<1>2. Calm(h) /\ IsOpen(h) /\ ~h.recovering /\ h.mode = "unknown" /\ h.applied = None
  BY <1>1, CalmAt DEF Recovery, Connecting, ModeSuits, Calm, InUse
<1>3. CASE Ok
  <2>1. Ask(h, "full", Status)
    BY <1>3 DEF Probed
  <2>2. Suits(h, "full")
    BY <1>1, <1>2, CalmSuits DEF Recovery, Connecting, Transferring, Releasing
  <2>3. Targeted(h)
    BY <1>2 DEF Targeted, Calm, Synced
  <2>4. AskWired(h, "full")
    BY <1>1, <1>2, <1>3 DEF AskWired, Wire, OpeningWire, InUse, RecoverySteps, Ok
  <2> QED
    BY <1>1, <2>1, <2>2, <2>3, <2>4, StatusFits, RequestShapes, AskLink DEF Waits
<1>4. CASE ~Ok
  <2> DEFINE k == [h EXCEPT !.mode = "closed"]
  <2>1. k \in HostType
    BY <1>1, ModeFits, Zenon DEF Modes
  <2>2. /\ k.mode = "closed" /\ k.conf = h.conf /\ k.opened = h.opened /\ k.told = h.told
        /\ k.call = h.call /\ k.stream = h.stream /\ k.pending = h.pending
        /\ k.applied = None /\ ~k.recovering
    BY <1>1, <1>2 DEF HostType
  <2>3. Go(k, "session")
    BY <1>4 DEF Probed
  <2> HIDE DEF k
  <2>4. Calm(k)
    BY <1>2, <2>2 DEF Calm, InUse
  <2>5. Suits(k, "session")
    BY <2>1, <2>2, <2>4, CalmSuits DEF Recovery, Connecting, Transferring, Releasing, Waits
  <2>6. ~loose => OutOrdered
    BY <1>1 DEF Wire, OpeningWire
  <2>7. Wired(k) /\ Parked(k) /\ Targeted(k) /\ Settled(k, "session")
    BY <2>2, <2>4, <2>6 DEF Wired, Parked, Targeted, Settled, Synced, InUse, Calm
  <2> QED
    BY <1>1, <2>1, <2>3, <2>5, <2>7, GoLink DEF Local, history
<1> QED
  BY <1>3, <1>4

\* Connect's full status, and what DevOpen goes on with.
LEMMA FullLink ==
  ASSUME IInv, LinkInv, Full
  PROVE  LinkInv'
<1>1. /\ h \in HostType /\ LinkOK /\ OthersOK /\ Common /\ Wire /\ Target /\ Shape(h)
      /\ ModeSuits(h, "full") /\ h.pc = "full" /\ h.answer \in {"ok", "no"} /\ Local
      /\ h.site \in {"open", "ping"}
  BY FromHere DEF Full, Answered, SiteFits, Connecting
<1>2. Calm(h) /\ IsOpen(h) /\ ~h.recovering /\ h.mode = "unknown" /\ h.applied = None
  BY <1>1, CalmAt DEF Recovery, Connecting, ModeSuits, Calm, InUse
<1> DEFINE g == IF Ok THEN h ELSE FullDone(h)
<1>3. g \in HostType
  <2>1. FullDone(h) \in HostType
    BY <1>1, Names, ModeFits, Zenon DEF FullDone
  <2> QED
    BY <1>1, <2>1
<1>4. ~g.desynced
  <2>1. Ok => ~h.desynced
    BY <1>1, <1>2 DEF Shape, Ok
  <2> QED
    BY <1>1, <2>1 DEF FullDone, HostType
<1>5. /\ g.mode = h.mode /\ g.recovering = h.recovering /\ g.opened = h.opened
      /\ g.told = h.told /\ g.call = h.call /\ g.stream = h.stream
      /\ g.pending \in {h.pending, <<>>} /\ g.applied = h.applied /\ ~g.desynced
  BY <1>1, <1>4 DEF FullDone, HostType
<1>6. IF h.site = "open" THEN FastPath(g) ELSE Configure(g)
  BY DEF Full
<1> HIDE DEF g
<1>7. Calm(g) /\ IsOpen(g) /\ Targeted(g)
  BY <1>2, <1>5 DEF Calm, IsOpen, InUse, Targeted, Synced
<1>8. Wired(g)
  BY <1>1, <1>2, <1>5 DEF Wired, Wire, OpeningWire, InUse
<1> QED
  BY <1>1, <1>2, <1>3, <1>5, <1>6, <1>7, <1>8, FastPathLink, ConfigureLink

\* The fast path's ping, and the release of a chip left selected.
LEMMA PingLink ==
  ASSUME IInv, LinkInv, Ping
  PROVE  LinkInv'
<1>1. /\ h \in HostType /\ LinkOK /\ OthersOK /\ Common /\ Wire /\ Target /\ Shape(h)
      /\ ModeSuits(h, "ping") /\ SettingsSuit(h, "ping") /\ h.pc = "ping"
      /\ h.answer \in {"ok", "no"} /\ Local
  BY FromHere DEF Ping, Answered
<1>2. /\ Calm(h) /\ IsOpen(h) /\ ~h.recovering /\ h.mode \in InUse /\ h.applied = Wanted
      /\ h.mode # "unknown"
  BY <1>1, CalmAt DEF Recovery, Connecting, ModeSuits, SettingsSuit, InUse
<1>3. CASE ~Ok
  <2>1. h.answer = "no"
    BY <1>1, <1>3 DEF Ok
  <2>2. Wired(h) /\ Targeted(h)
    BY <1>1, <1>2, <2>1, WiredAt, TargetedAt
  <2>3. LostPing(h)
    BY <1>3 DEF Ping
  <2> QED
    BY <1>1, <1>2, <2>2, <2>3, LostPingLink
<1>4. CASE Ok
  <2>1. h.answer = "ok" /\ ~h.desynced
    BY <1>1, <1>2, <1>4 DEF Ok, Shape
  <2>2. Wired(h)
    <3>1. ~loose => Quiet
      BY <1>1, <1>2, <2>1, QuietAt
    <3> QED
      BY <1>1, <3>1, WiredQuiet DEF Wired
  <2>3. ~loose /\ ~dead => Holds(Wanted)
    <3>1. Wanted # None
      BY <1>1, MenuFits DEF None
    <3> QED
      BY <1>1, <1>2, <3>1 DEF Target, SettingsHold
  <2>4. Targeted(h)
    <3>1. h.req.kind = "status"
      BY <1>1, <2>1 DEF Shape, ReqFits
    <3>2. ~loose /\ Synced(h) => (dev.cs <=> h.cs)
      BY <1>1, <2>1, <3>1 DEF Target, SelectHolds, SelectedAfter
    <3>3. ~loose /\ h.applied # None /\ ~dead => Holds(h.applied)
      BY <1>1 DEF Target, SettingsHold
    <3> QED
      BY <1>2, <3>2, <3>3 DEF Targeted, Calm
  <2>5. CASE ~(h.mode = "SPI" /\ h.cs)
    <3>1. Opened(h)
      BY <1>4, <2>5 DEF Ping
    <3> QED
      BY <1>1, <1>2, <2>2, <2>3, <2>4, <2>5, <3>1, OpenedLink
  <2>6. CASE h.mode = "SPI" /\ h.cs
    <3>1. Ask(h, "fast_release", Release)
      BY <1>4, <2>6 DEF Ping
    <3>2. Suits(h, "fast_release")
      BY <1>1, <1>2, <2>6, CalmSuits DEF Recovery, Connecting, Transferring, Releasing
    <3>3. AskWired(h, "fast_release")
      BY <1>2, <2>2 DEF AskWired, Wired
    <3>4. Release \in Requests /\ ReqFits(h, "fast_release", Release)
      BY <1>1, ReleaseFits, RequestShapes DEF Releasing
    <3> QED
      BY <1>1, <2>4, <3>1, <3>2, <3>3, <3>4, AskLink DEF Waits
  <2> QED
    BY <2>5, <2>6
<1> QED
  BY <1>3, <1>4

\* A chip that was released is released, also as far as the engine knows.
LEMMA ReleasedTarget ==
  ASSUME h \in HostType, Shape(h), Target, h.pc \in Releasing, h.answer = "ok"
  PROVE  ~loose /\ Synced(h) => ~dev.cs
<1>1. h.req.kind = "data" /\ h.req.stop
  BY DEF Shape, ReqFits
<1> QED
  BY <1>1 DEF Target, SelectHolds, SelectedAfter

\* The chip select that an earlier session left asserted is released.
LEMMA FastReleaseLink ==
  ASSUME IInv, LinkInv, FastRelease
  PROVE  LinkInv'
<1>1. /\ h \in HostType /\ LinkOK /\ OthersOK /\ Common /\ Wire /\ Target /\ Shape(h)
      /\ ModeSuits(h, "fast_release") /\ SettingsSuit(h, "fast_release")
      /\ h.pc = "fast_release" /\ h.answer \in {"ok", "no"} /\ Local
  BY FromHere DEF FastRelease, Answered
<1>2. /\ Calm(h) /\ IsOpen(h) /\ ~h.recovering /\ h.mode = "SPI" /\ h.applied = Wanted
  BY <1>1, CalmAt DEF Recovery, Connecting, ModeSuits, SettingsSuit, Releasing
<1>3. CASE ~Ok
  <2>1. h.answer = "no"
    BY <1>1, <1>3 DEF Ok
  <2>2. Wired(h) /\ Targeted(h)
    BY <1>1, <1>2, <2>1, WiredAt, TargetedAt
  <2>3. LostPing(h)
    BY <1>3 DEF FastRelease
  <2> QED
    BY <1>1, <1>2, <2>2, <2>3, LostPingLink
<1>4. CASE Ok
  <2> DEFINE k == [h EXCEPT !.cs = FALSE]
  <2>1. k \in HostType
    BY <1>1, ModeFits, Zenon
  <2>2. /\ k.mode = h.mode /\ k.conf = h.conf /\ k.opened = h.opened /\ k.told = h.told
        /\ k.call = h.call /\ k.stream = h.stream /\ k.pending = h.pending
        /\ k.applied = h.applied /\ k.recovering = h.recovering /\ ~k.cs
        /\ k.desynced = h.desynced
    BY <1>1 DEF HostType
  <2>3. Opened(k)
    BY <1>4 DEF FastRelease
  <2> HIDE DEF k
  <2>4. Calm(k)
    BY <1>2, <2>2 DEF Calm
  <2>5. Wired(k)
    <3>1. ~loose => Quiet
      BY <1>1, <1>2, <1>4, QuietAt DEF Ok, InUse
    <3> QED
      BY <1>1, <3>1, WiredQuiet DEF Wired
  <2>6. ~loose /\ ~dead => Holds(h.applied)
    <3>1. Wanted # None
      BY <1>1, MenuFits DEF None
    <3> QED
      BY <1>1, <1>2, <3>1 DEF Target, SettingsHold
  <2>7. Targeted(k)
    <3>1. Synced(k) <=> Synced(h)
      BY <2>2 DEF Synced
    <3>2. ~loose /\ Synced(h) => ~dev.cs
      BY <1>1, <1>4, ReleasedTarget DEF Releasing, Ok
    <3> QED
      BY <2>2, <2>4, <2>6, <3>1, <3>2 DEF Targeted, Calm
  <2> QED
    BY <1>1, <1>2, <2>1, <2>2, <2>3, <2>4, <2>5, <2>6, <2>7, OpenedLink DEF InUse
<1> QED
  BY <1>3, <1>4

\* EnterSPI and EnterI2C have been answered.
LEMMA ConfiguredLink ==
  ASSUME IInv, LinkInv, Configured
  PROVE  LinkInv'
<1>1. /\ h \in HostType /\ LinkOK /\ OthersOK /\ Common /\ Wire /\ Target /\ Shape(h)
      /\ ModeSuits(h, "configure") /\ h.pc = "configure" /\ h.answer \in {"ok", "no"} /\ Local
  BY FromHere DEF Configured, Answered
<1>2. Calm(h) /\ IsOpen(h) /\ ~h.recovering /\ h.mode \in InUse \cup {"unknown"}
  BY <1>1, CalmAt DEF Recovery, ModeSuits, HostType, Modes, InUse, IsOpen
<1>3. CASE ~Ok
  <2>1. h.answer = "no"
    BY <1>1, <1>3 DEF Ok
  <2>2. Wired(h) /\ Parked(h) /\ Targeted(h)
    BY <1>1, <1>2, <2>1, WiredAt, TargetedAt
  <2>3. Go(h, "session")
    BY <1>3 DEF Configured
  <2>4. Suits(h, "session")
    BY <1>1, <1>2, CalmSuits DEF Recovery, Connecting, Transferring, Releasing, Waits
  <2>5. Settled(h, "session")
    BY <1>2 DEF Settled, Calm
  <2> QED
    BY <1>1, <2>2, <2>3, <2>4, <2>5, GoLink DEF Local, history
<1>4. CASE Ok
  <2> DEFINE e == Entered(h, Wanted)
             k == [e EXCEPT !.applied = Wanted]
  <2>0. Wanted \in Configs /\ Wanted.bus \in InUse
    BY <1>1, MenuFits DEF InUse
  <2>1. k \in HostType
    <3>1. e \in HostType
      BY <2>0, AtStart, EnteredFits DEF Ready
    <3> HIDE DEF e
    <3> QED
      BY <2>0, <3>1, SettingsFit, Zenon
  <2>2. /\ k.mode = Wanted.bus /\ k.conf = Wanted /\ k.opened = h.opened /\ k.told = h.told
        /\ k.call = h.call /\ k.stream = h.stream /\ k.pending = h.pending
        /\ k.applied = Wanted /\ k.recovering = h.recovering
        /\ (k.mode = "SPI" => ~k.cs) /\ k.desynced = h.desynced
    BY <1>1 DEF Entered, HostType
  <2>3. Opened(k)
    BY <1>4 DEF Configured
  <2> HIDE DEF k, e
  <2>4. Calm(k)
    BY <1>2, <2>0, <2>2 DEF Calm, InUse
  <2>5. ~loose => Quiet
    BY <1>1, <1>2, <1>4, QuietAt DEF Ok
  <2>6. ~loose /\ ~dead => dev.bus = Wanted.bus /\ dev.power = Wanted.power /\ ~dev.cs
    <3>1. h.req = Config(Wanted)
      BY <1>1, <1>4 DEF Shape, ReqFits, Ok
    <3>2. h.req.kind = "config" /\ h.req.bus = Wanted.bus /\ h.req.power = Wanted.power
      BY <3>1 DEF Config, Status
    <3> QED
      BY <1>1, <1>4, <3>2 DEF Target, Granted, Done, Ok
  <2>7. Wired(k)
    BY <1>1, <2>5, WiredQuiet DEF Wired
  <2>8. ~loose /\ ~dead => Holds(Wanted)
    BY <1>1, <2>5, <2>6, QuietKeeps DEF Holds
  <2>9. Targeted(k)
    BY <2>2, <2>4, <2>6, <2>8 DEF Targeted, Calm, Synced
  <2> QED
    BY <1>1, <1>2, <2>0, <2>1, <2>2, <2>3, <2>4, <2>7, <2>8, <2>9, OpenedLink
<1> QED
  BY <1>3, <1>4

\* SafePowerDown releases chip select before it goes to HiZ.
LEMMA DownReleaseLink ==
  ASSUME IInv, LinkInv, DownRelease
  PROVE  LinkInv'
<1> DEFINE r == [h EXCEPT !.cs = FALSE]
           k == IF Ok THEN r ELSE h
<1>1. /\ h \in HostType /\ LinkOK /\ OthersOK /\ Common /\ Wire /\ Target /\ Shape(h)
      /\ ModeSuits(h, "down_release") /\ h.pc = "down_release" /\ h.answer \in {"ok", "no"}
      /\ Local /\ GoHiZ(k)
  BY FromHere DEF DownRelease, Answered
<1>2. Calm(h) /\ IsOpen(h) /\ ~h.recovering /\ h.mode = "SPI"
  BY <1>1, CalmAt DEF Recovery, ModeSuits, Releasing
<1>3. r \in HostType
  BY <1>1, ModeFits, Zenon
<1>4. /\ k \in HostType /\ k.mode = h.mode /\ k.conf = h.conf /\ k.opened = h.opened
      /\ k.told = h.told /\ k.call = h.call /\ k.stream = h.stream /\ k.pending = h.pending
      /\ k.applied = h.applied /\ k.recovering = h.recovering /\ k.desynced = h.desynced
      /\ k.cs = (IF Ok THEN FALSE ELSE h.cs)
  <2>1. /\ r.mode = h.mode /\ r.conf = h.conf /\ r.opened = h.opened
        /\ r.told = h.told /\ r.call = h.call /\ r.stream = h.stream /\ r.pending = h.pending
        /\ r.applied = h.applied /\ r.recovering = h.recovering /\ r.desynced = h.desynced
        /\ r.cs = FALSE
    BY <1>1 DEF HostType
  <2> HIDE DEF r
  <2> QED
    BY <1>1, <1>3, <2>1
<1> HIDE DEF k, r
<1>5. Calm(k) /\ IsOpen(k)
  BY <1>2, <1>4 DEF Calm, IsOpen
<1>6. Wired(k) /\ Parked(k)
  <2>1. h.answer = "no" => Wired(h) /\ Parked(h)
    BY <1>1, <1>2, WiredAt
  <2>2. h.answer = "ok" /\ ~loose => Quiet
    BY <1>1, <1>2, QuietAt DEF InUse
  <2>3. Quiet => Wired(k) /\ Parked(k)
    BY <1>1, WiredQuiet
  <2> QED
    BY <1>1, <1>4, <2>1, <2>2, <2>3 DEF Wired, Parked
<1>7. Targeted(k)
  <2>1. Synced(k) <=> Synced(h)
    BY <1>4 DEF Synced
  <2>2. Ok /\ ~loose /\ Synced(h) => ~dev.cs
    BY <1>1, ReleasedTarget DEF Releasing, Ok
  <2>3. ~Ok /\ ~loose /\ Synced(h) => (dev.cs <=> h.cs)
    BY <1>1 DEF Target, SelectHolds, Ok
  <2>4. ~loose /\ h.applied # None /\ ~dead => Holds(h.applied)
    BY <1>1 DEF Target, SettingsHold
  <2> QED
    BY <1>2, <1>4, <2>1, <2>2, <2>3, <2>4 DEF Targeted, Calm
<1> QED
  BY <1>1, <1>2, <1>4, <1>5, <1>6, <1>7, GoHiZLink

\* EnterHiZ has been answered.
LEMMA PoweredDownLink ==
  ASSUME IInv, LinkInv, PoweredDown
  PROVE  LinkInv'
<1>1. /\ h \in HostType /\ LinkOK /\ OthersOK /\ Common /\ Wire /\ Target /\ Shape(h)
      /\ ModeSuits(h, "hiz") /\ h.pc = "hiz" /\ h.answer \in {"ok", "no"}
      /\ Local /\ Closed(h, IF Ok THEN "off" ELSE "maybe")
  BY FromHere DEF PoweredDown, Answered
<1>2. Calm(h) /\ IsOpen(h) /\ h.mode \in InUse \cup {"unknown"}
  BY <1>1, CalmAt DEF HostType, Modes, InUse, IsOpen, ModeSuits
<1>3. ~loose => OutOrdered
  BY <1>1 DEF Wire, OpeningWire
<1>4. ASSUME ~loose, Ok PROVE dev.bus = "HiZ" /\ ~dev.power /\ out = <<>>
  <2>1. out = <<>>
    BY <1>1, <1>2, <1>4, QuietAt, QuietKeeps DEF Ok
  <2>2. CASE dead
    BY <1>1, <2>1, <2>2 DEF Target, Off
  <2>3. CASE ~dead
    <3>1. h.req = HiZ
      BY <1>1, <1>4 DEF Shape, ReqFits, Ok
    <3>2. h.req.kind = "config" /\ h.req.bus = "HiZ" /\ ~h.req.power
      BY <3>1 DEF HiZ, Config, Status
    <3> QED
      BY <1>1, <1>4, <2>1, <2>3, <3>2 DEF Target, Granted, Done, Ok
  <2> QED
    BY <2>2, <2>3
<1>5. PICK told \in {"off", "maybe"} : told = (IF Ok THEN "off" ELSE "maybe")
  OBVIOUS
<1>6. told \in Words /\ (told = "off" => Ok) /\ Closed(h, told)
  BY <1>1, <1>5 DEF Words
<1> QED
  BY <1>1, <1>2, <1>3, <1>4, <1>6, ClosedLink DEF Calm

\* The operations begin, and the button that ends the connection.
LEMMA FreshRecord ==
  ASSUME IInv, LinkInv, At("idle"), NEW k \in HostType,
         /\ k.mode = h.mode /\ k.conf = h.conf /\ ~k.opened /\ k.told = "none"
         /\ k.call = h.call /\ k.stream = h.stream /\ k.pending = h.pending
         /\ k.applied = h.applied /\ k.recovering = h.recovering /\ k.desynced = h.desynced
         /\ k.cs = h.cs
  PROVE  Calm(k) /\ ~k.recovering /\ Wired(k) /\ Parked(k) /\ Targeted(k)
<1>1. /\ h \in HostType /\ LinkOK /\ Wire /\ Target /\ Shape(h) /\ ModeSuits(h, "idle")
      /\ SettingsSuit(h, "idle") /\ h.pc = "idle" /\ h.answer = "none"
  BY FromHere DEF At
<1>2. h.call = NoCall /\ h.pending = <<>> /\ h.stream = <<>> /\ ~h.recovering
  BY <1>1, CalmIdle DEF ModeSuits, Recovery
<1>3. Calm(k)
  BY <1>1, <1>2 DEF Calm, ModeSuits, SettingsSuit
<1>4. Wired(h) /\ Parked(h)
  BY <1>1, <1>2, WiredAt
<1>5. Wired(k) /\ Parked(k)
  BY <1>4 DEF Wired, Parked
<1>6. Synced(k) <=> Synced(h)
  BY DEF Synced
<1>7. Targeted(k)
  BY <1>1, <1>6 DEF Targeted, Target, SettingsHold, SelectHolds
<1> QED
  BY <1>2, <1>3, <1>5, <1>7

\* DevOpen.
LEMMA DevOpenLink ==
  ASSUME IInv, LinkInv, DevOpen
  PROVE  LinkInv'
<1> DEFINE calm == ~half /\ ~dead
           k == [h EXCEPT !.opened = FALSE, !.told = "none", !.tried = FALSE,
                          !.since = faults, !.sound = calm]
<1>1. h \in HostType /\ LinkOK /\ OthersOK /\ Common
  BY FromHere
<1>2. k \in HostType
  <2>1. calm \in BOOLEAN /\ "none" \in Words /\ faults \in 0 .. MaxFaults
    BY <1>1, Names DEF LinkOK
  <2> HIDE DEF calm
  <2> QED
    BY <1>1, <2>1, CallFits, Zenon
<1>3. Begin(k) /\ Local /\ At("idle")
  BY DEF DevOpen
<1> HIDE DEF calm
<1>4. /\ k.mode = h.mode /\ k.conf = h.conf /\ ~k.opened /\ k.told = "none"
      /\ k.call = h.call /\ k.stream = h.stream /\ k.pending = h.pending
      /\ k.applied = h.applied /\ k.recovering = h.recovering /\ k.desynced = h.desynced
      /\ k.cs = h.cs
  BY <1>1 DEF HostType
<1> HIDE DEF k
<1> QED
  BY <1>1, <1>2, <1>3, <1>4, FreshRecord, BeginLink

\* Disconnect, from the settings.
LEMMA DisconnectLink ==
  ASSUME IInv, LinkInv, Disconnect
  PROVE  LinkInv'
<1> DEFINE k == [h EXCEPT !.opened = FALSE, !.told = "none", !.tried = FALSE]
<1>1. h \in HostType /\ LinkOK /\ OthersOK /\ Common
  BY FromHere
<1>2. k \in HostType
  BY <1>1, Names, CallFits, Zenon
<1>3. SafePowerDown(k) /\ Local /\ At("idle")
  BY DEF Disconnect
<1>4. /\ k.mode = h.mode /\ k.conf = h.conf /\ ~k.opened /\ k.told = "none"
      /\ k.call = h.call /\ k.stream = h.stream /\ k.pending = h.pending
      /\ k.applied = h.applied /\ k.recovering = h.recovering /\ k.desynced = h.desynced
      /\ k.cs = h.cs
  BY <1>1 DEF HostType
<1> HIDE DEF k
<1> QED
  BY <1>1, <1>2, <1>3, <1>4, FreshRecord, SafePowerDownLink

\* While a handler runs and nothing is asked.
LEMMA SessionHolds ==
  ASSUME IInv, LinkInv, At("session")
  PROVE  /\ Wired(h) /\ Parked(h) /\ Targeted(h)
         /\ ~h.recovering /\ h.stream = <<>> /\ h.told = "none"
         /\ h.mode # "HiZ" /\ (h.mode \in InUse => h.conf.bus = h.mode)
         /\ h.applied # None => h.mode \in InUse /\ h.applied = h.conf
         /\ h.opened => h.mode \in InUse
         /\ h.pending # <<>> => h.mode = "SPI"
<1>1. /\ h \in HostType /\ LinkOK /\ Wire /\ Target /\ Shape(h) /\ ModeSuits(h, "session")
      /\ SettingsSuit(h, "session") /\ QueueSuits(h, "session")
      /\ h.pc = "session" /\ h.answer = "none"
  BY FromHere DEF At
<1>2. ~h.recovering
  BY <1>1 DEF ModeSuits, Recovery
<1>3. Wired(h) /\ Parked(h) /\ Targeted(h)
  BY <1>1, <1>2, WiredAt, TargetedAt
<1> QED
  BY <1>1, <1>2, <1>3 DEF ModeSuits, SettingsSuit, QueueSuits, Transferring

\* The calls a handler ends with.
LEMMA SPIDeinitLink ==
  ASSUME IInv, LinkInv, SPIDeinit
  PROVE  LinkInv'
<1> DEFINE k == [h EXCEPT !.call = NoCall, !.site = "deinit"]
<1>1. h \in HostType /\ LinkOK /\ OthersOK /\ Common /\ At("session") /\ h.mode = "SPI"
  BY FromHere DEF SPIDeinit, InSession
<1>2. k \in HostType
  <2>1. "deinit" \in Sites /\ NoCall \in Transactions \cup {NoCall}
    BY Names
  <2> QED
    BY <1>1, <2>1, CallFits, Zenon
<1>3. SPIReleaseCS(k) /\ Local
  BY DEF SPIDeinit
<1>4. /\ k.mode = h.mode /\ k.conf = h.conf /\ k.opened = h.opened /\ k.told = h.told
      /\ k.call = NoCall /\ k.stream = h.stream /\ k.pending = h.pending
      /\ k.applied = h.applied /\ k.recovering = h.recovering /\ k.desynced = h.desynced
      /\ k.cs = h.cs /\ k.site = "deinit" /\ k.txn = h.txn
  BY <1>1 DEF HostType
<1> HIDE DEF k
<1>5. Ends(k)
  BY <1>1, <1>4, SessionHolds DEF Ends
<1>6. Wired(k) /\ Parked(k) /\ Targeted(k)
  BY <1>1, <1>4, SessionHolds DEF Wired, Parked, Targeted, Synced
<1> QED
  BY <1>1, <1>2, <1>3, <1>4, <1>5, <1>6, SPIReleaseCSLink

\* DevClose.
LEMMA DevCloseLink ==
  ASSUME IInv, LinkInv, DevClose
  PROVE  LinkInv'
<1> DEFINE k == [h EXCEPT !.call = NoCall, !.opened = FALSE, !.site = "close"]
<1>1. h \in HostType /\ LinkOK /\ OthersOK /\ Common /\ At("session")
  BY FromHere DEF DevClose
<1>2. k \in HostType
  <2>1. "close" \in Sites /\ NoCall \in Transactions \cup {NoCall}
    BY Names
  <2> QED
    BY <1>1, <2>1, CallFits, Zenon
<1>3. (IF IsOpen(k) THEN SPIReleaseCS(k) ELSE Go(k, "idle")) /\ Local
  BY DEF DevClose
<1>4. /\ k.mode = h.mode /\ k.conf = h.conf /\ ~k.opened /\ k.told = h.told
      /\ k.call = NoCall /\ k.stream = h.stream /\ k.pending = h.pending
      /\ k.applied = h.applied /\ k.recovering = h.recovering /\ k.desynced = h.desynced
      /\ k.cs = h.cs /\ k.site = "close" /\ k.txn = h.txn
  BY <1>1 DEF HostType
<1> HIDE DEF k
<1>5. Ends(k) /\ (k.mode # "SPI" => k.pending = <<>>)
  BY <1>1, <1>4, SessionHolds DEF Ends
<1>6. Wired(k) /\ Parked(k) /\ Targeted(k)
  BY <1>1, <1>4, SessionHolds DEF Wired, Parked, Targeted, Synced
<1>7. CASE IsOpen(k)
  BY <1>1, <1>2, <1>3, <1>5, <1>6, <1>7, SPIReleaseCSLink
<1>8. CASE ~IsOpen(k)
  <2>1. k.pending = <<>>
    BY <1>5, <1>8 DEF IsOpen
  <2>2. Suits(k, "idle") /\ Settled(k, "idle")
    BY <1>2, <1>5, <2>1, EndsSuits DEF Settled, Ends
  <2> QED
    BY <1>1, <1>2, <1>3, <1>6, <1>8, <2>2, GoLink DEF Local, history
<1> QED
  BY <1>7, <1>8

\* A handler that leaves without DevClose.
LEMMA LeftOpenLink ==
  ASSUME IInv, LinkInv, LeftOpen
  PROVE  LinkInv'
<1> DEFINE k == [h EXCEPT !.call = NoCall, !.site = "none"]
<1>1. /\ h \in HostType /\ LinkOK /\ OthersOK /\ Common /\ At("session")
      /\ ModeSuits(h, "session") /\ SettingsSuit(h, "session") /\ QueueSuits(h, "session")
  BY FromHere DEF LeftOpen, At
<1>2. h.call = NoCall /\ h.pending = <<>> /\ h.stream = <<>>
  BY <1>1, SessionHolds DEF LeftOpen, QueueSuits
<1>3. k \in HostType
  <2>1. "none" \in Sites /\ NoCall \in Transactions \cup {NoCall}
    BY Names
  <2> QED
    BY <1>1, <2>1, CallFits, Zenon
<1>4. Go(k, "idle") /\ Local
  BY DEF LeftOpen
<1>5. /\ k.mode = h.mode /\ k.conf = h.conf /\ k.opened = h.opened /\ k.told = h.told
      /\ k.call = NoCall /\ k.stream = h.stream /\ k.pending = h.pending
      /\ k.applied = h.applied /\ k.recovering = h.recovering /\ k.desynced = h.desynced
      /\ k.cs = h.cs /\ k.txn = h.txn
  BY <1>1 DEF HostType
<1> HIDE DEF k
<1>6. Suits(k, "idle")
  <2>1. Len(k.pending) = 0 /\ Len(k.stream) = 0
    BY <1>2, <1>5
  <2>2. ModeSuits(k, "idle")
    BY <1>1, <1>5 DEF ModeSuits, IsOpen, Waits, Recovery, Connecting, Transferring, Releasing
  <2>3. SettingsSuit(k, "idle")
    BY <1>1, <1>5 DEF SettingsSuit
  <2>4. QueueSuits(k, "idle")
    BY <1>2, <1>5, <2>1 DEF QueueSuits, Transferring
  <2> QED
    BY <2>2, <2>3, <2>4 DEF Suits
<1>7. Wired(k) /\ Parked(k) /\ Targeted(k) /\ Settled(k, "idle")
  BY <1>1, <1>5, SessionHolds DEF Wired, Parked, Targeted, Synced, Settled
<1> QED
  BY <1>1, <1>3, <1>4, <1>6, <1>7, GoLink DEF Local, history

\* A release has been answered.
LEMMA ReleasedLink ==
  ASSUME IInv, LinkInv, Released
  PROVE  LinkInv'
<1> DEFINE r == [h EXCEPT !.cs = FALSE]
           k == IF Ok THEN r ELSE h
<1>1. /\ h \in HostType /\ LinkOK /\ OthersOK /\ Common /\ Wire /\ Target /\ Shape(h)
      /\ ModeSuits(h, "release") /\ SettingsSuit(h, "release") /\ QueueSuits(h, "release")
      /\ h.pc = "release" /\ h.answer \in {"ok", "no"} /\ h.site \in {"close", "deinit"}
      /\ Local /\ AfterRelease(k)
  BY FromHere DEF Released, Answered, SiteFits
<1>2. /\ h.call = NoCall /\ h.pending = <<>> /\ h.stream = <<>> /\ ~h.recovering
      /\ h.mode = "SPI" /\ Ends(h)
  <2>1. h.call = NoCall /\ h.pending = <<>> /\ h.stream = <<>>
    BY <1>1 DEF QueueSuits, Transferring
  <2>2. ~h.recovering /\ h.mode = "SPI"
    BY <1>1 DEF ModeSuits, Recovery, Releasing
  <2> QED
    BY <1>1, <2>1, <2>2 DEF Ends, ModeSuits, SettingsSuit
<1>3. r \in HostType
  BY <1>1, ModeFits, Zenon
<1>4. /\ k \in HostType /\ k.mode = h.mode /\ k.conf = h.conf /\ k.opened = h.opened
      /\ k.told = h.told /\ k.call = h.call /\ k.stream = h.stream /\ k.pending = h.pending
      /\ k.applied = h.applied /\ k.recovering = h.recovering /\ k.desynced = h.desynced
      /\ k.cs = (IF Ok THEN FALSE ELSE h.cs) /\ k.site = h.site /\ k.txn = h.txn
  <2>1. /\ r.mode = h.mode /\ r.conf = h.conf /\ r.opened = h.opened
        /\ r.told = h.told /\ r.call = h.call /\ r.stream = h.stream /\ r.pending = h.pending
        /\ r.applied = h.applied /\ r.recovering = h.recovering /\ r.desynced = h.desynced
        /\ r.cs = FALSE /\ r.site = h.site /\ r.txn = h.txn
    BY <1>1 DEF HostType
  <2> HIDE DEF r
  <2> QED
    BY <1>1, <1>3, <2>1
<1> HIDE DEF k, r
<1>5. Ends(k)
  BY <1>2, <1>4 DEF Ends
<1>6. Wired(k) /\ Parked(k)
  <2>1. h.answer = "no" => Wired(h) /\ Parked(h)
    BY <1>1, <1>2, WiredAt
  <2>2. h.answer = "ok" /\ ~loose => Quiet
    BY <1>1, <1>2, QuietAt DEF InUse
  <2>3. Quiet => Wired(k) /\ Parked(k)
    BY <1>1, WiredQuiet
  <2> QED
    BY <1>1, <1>4, <2>1, <2>2, <2>3 DEF Wired, Parked
<1>7. Targeted(k)
  <2>1. Synced(k) <=> Synced(h)
    BY <1>4 DEF Synced
  <2>2. Ok /\ ~loose /\ Synced(h) => ~dev.cs
    BY <1>1, ReleasedTarget DEF Releasing, Ok
  <2>3. ~Ok /\ ~loose /\ Synced(h) => (dev.cs <=> h.cs)
    BY <1>1 DEF Target, SelectHolds, Ok
  <2>4. ~loose => /\ h.applied # None /\ ~dead => Holds(h.applied)
                  /\ h.opened /\ ~dead => Holds(Wanted)
    BY <1>1 DEF Target, SettingsHold
  <2>5. ~loose /\ ~cut /\ Synced(h) /\ h.opened => dev.frame \subseteq {h.txn}
    BY <1>1 DEF Target, TransactionHolds
  <2> QED
    BY <1>4, <2>1, <2>2, <2>3, <2>4, <2>5 DEF Targeted
<1> QED
  BY <1>1, <1>2, <1>4, <1>5, <1>6, <1>7, AfterReleaseLink

\* The bytes of a transaction carry its number.
LEMMA ConcatAll ==
  ASSUME NEW S, NEW s \in Seq(S), NEW t \in Seq(S), NEW x,
         \A i \in 1 .. Len(s) : s[i] = x, \A i \in 1 .. Len(t) : t[i] = x
  PROVE  \A i \in 1 .. Len(s \o t) : (s \o t)[i] = x
<1>1. /\ Len(s) \in Nat /\ Len(t) \in Nat /\ Len(s \o t) = Len(s) + Len(t)
      /\ \A i \in 1 .. Len(s) + Len(t) :
           (s \o t)[i] = IF i <= Len(s) THEN s[i] ELSE t[i - Len(s)]
  BY ConcatProperties, LenProperties
<1> SUFFICES ASSUME NEW i \in 1 .. Len(s) + Len(t) PROVE (s \o t)[i] = x
  BY <1>1
<1>2. CASE i <= Len(s)
  BY <1>1, <1>2
<1>3. CASE ~(i <= Len(s))
  <2>1. i - Len(s) \in 1 .. Len(t)
    BY <1>1, <1>3
  <2> QED
    BY <1>1, <1>3, <2>1
<1> QED
  BY <1>2, <1>3

\* The bytes a call queues are those of its transaction.
LEMMA OwnedAll ==
  ASSUME h \in HostType, NEW n \in Nat, n > 0 => h.txn > 0
  PROVE  /\ Owned(n) \in Seq(1 .. MaxTxns) /\ Len(Owned(n)) = n
         /\ \A i \in 1 .. Len(Owned(n)) : Owned(n)[i] = h.txn
<1>1. Owned(n) \in Seq(1 .. MaxTxns)
  BY OwnedFits
<1>2. Owned(n) = [i \in 1 .. n |-> h.txn]
  BY DEF Owned
<1>3. DOMAIN Owned(n) = 1 .. n
  BY <1>2
<1>4. Len(Owned(n)) = n
  BY <1>1, <1>3, LenProperties
<1> QED
  BY <1>1, <1>2, <1>4

\* The handler has another transaction to make.
LEMMA CommandLink ==
  ASSUME IInv, LinkInv, Command
  PROVE  LinkInv'
<1>1. /\ h \in HostType /\ LinkOK /\ OthersOK /\ Common /\ At("session") /\ Wire /\ Target
      /\ ModeSuits(h, "session") /\ SettingsSuit(h, "session") /\ QueueSuits(h, "session")
      /\ h.pc = "session" /\ h.answer = "none" /\ h.opened /\ h.mode = "SPI"
      /\ h.site # "deinit" /\ h.call = NoCall /\ Local
  BY FromHere DEF Command, InSession, At
<1>2. PICK c \in Calls : Go([h EXCEPT !.txn = @ + 1, !.call = c], "session")
  BY DEF Command
<1> DEFINE n == h.txn + 1
           k == [h EXCEPT !.txn = n, !.call = c]
<1>3. c \in Transactions \cup {NoCall} /\ c # NoCall
  <2>1. c \in Transactions /\ c.w + c.r > 0
    BY BusPirate5Assumption DEF Transactions
  <2> QED
    BY <2>1 DEF NoCall
<1>4. n \in 0 .. MaxTxns
  <2>1. h.txn \in 0 .. MaxTxns /\ h.txn < MaxTxns
    BY <1>1 DEF Command, HostType
  <2> QED
    BY <2>1, Bounds
<1>5. Go(k, "session")
  BY <1>1, <1>2 DEF HostType
<1> HIDE DEF n
<1>6. k \in HostType
  BY <1>1, <1>3, <1>4, CallFits, Zenon
<1>7. /\ k.mode = h.mode /\ k.conf = h.conf /\ k.opened = h.opened /\ k.told = h.told
      /\ k.call = c /\ k.stream = h.stream /\ k.pending = h.pending
      /\ k.applied = h.applied /\ k.recovering = h.recovering /\ k.desynced = h.desynced
      /\ k.cs = h.cs /\ k.txn = n /\ k.site = h.site
  BY <1>1 DEF HostType
<1> HIDE DEF k
<1>8. h.pending = <<>> /\ h.stream = <<>>
  BY <1>1, SessionHolds DEF QueueSuits
<1>9. Suits(k, "session")
  <2>1. Len(k.pending) = 0 /\ Len(k.stream) = 0
    BY <1>7, <1>8
  <2>2. ModeSuits(k, "session")
    BY <1>1, <1>7 DEF ModeSuits, IsOpen
  <2>3. SettingsSuit(k, "session")
    BY <1>1, <1>7 DEF SettingsSuit
  <2>4. QueueSuits(k, "session")
    BY <1>1, <1>7, <1>8, <2>1 DEF QueueSuits, Transferring
  <2> QED
    BY <2>2, <2>3, <2>4 DEF Suits
<1>10. Wired(k) /\ Parked(k)
  BY <1>1, <1>7, SessionHolds DEF Wired, Parked
<1>11. Targeted(k)
  <2>1. Targeted(h) /\ (Synced(k) <=> Synced(h))
    BY <1>1, <1>7, SessionHolds DEF Synced
  <2>2. ~loose /\ ~cut /\ Synced(h) => ~h.cs
    BY <1>1 DEF Target, TransactionHolds, Synced
  <2>3. ~loose /\ ~cut /\ Synced(h) => dev.frame = {}
    BY <1>1, <2>1, <2>2 DEF Targeted, Common
  <2> QED
    BY <1>7, <2>1, <2>3 DEF Targeted
<1>12. Settled(k, "session")
  BY <1>1, <1>3, <1>7, SessionHolds DEF Settled
<1> QED
  BY <1>1, <1>5, <1>6, <1>9, <1>10, <1>11, <1>12, GoLink DEF Local, history

\* SPIWrite with CS = 0: into the queue, or first what is queued, on the wire.
LEMMA QueueLink ==
  ASSUME IInv, LinkInv, Queue
  PROVE  LinkInv'
<1> DEFINE n == Head(h.call.q)
           rest == [h.call EXCEPT !.q = Tail(h.call.q)]
           g == [h EXCEPT !.call = rest]
<1>1. /\ h \in HostType /\ Ready(h) /\ LinkOK /\ OthersOK /\ Common /\ At("session")
      /\ ModeSuits(h, "session") /\ SettingsSuit(h, "session") /\ QueueSuits(h, "session")
      /\ h.opened /\ h.mode = "SPI" /\ h.site # "deinit" /\ Local
  BY FromHere DEF Queue, InSession, At
<1>2. h.call \in Transactions /\ h.call.q # <<>> /\ h.call # NoCall
  BY <1>1 DEF Queue, HostType, NoCall
<1>3. n \in Nat /\ rest \in Transactions /\ rest # NoCall
  <2>1. /\ h.call \in [q : Seq(Nat \ {0}), w : Nat, r : Nat] /\ h.call.q \in Seq(Nat \ {0})
        /\ h.call.w + h.call.r > 0 /\ h.call.w \in Nat /\ h.call.r \in Nat
    BY <1>2 DEF Transactions
  <2>2. n \in Nat \ {0} /\ Tail(h.call.q) \in Seq(Nat \ {0})
    BY <1>2, <2>1, HeadTailProperties
  <2>3. rest \in [q : Seq(Nat \ {0}), w : Nat, r : Nat] /\ rest.w = h.call.w /\ rest.r = h.call.r
    BY <2>1, <2>2
  <2> HIDE DEF n, rest
  <2>4. rest \in Transactions
    BY <2>1, <2>3 DEF Transactions
  <2>5. ~(rest.w = 0 /\ rest.r = 0)
    BY <2>1, <2>3
  <2> QED
    BY <2>2, <2>4, <2>5 DEF NoCall
<1>4. IF g.pending # <<>> /\ Len(g.pending) + n > QueueLimit
        THEN Transfer([Claimed(g, <<>>) EXCEPT !.want = 0, !.stop = FALSE, !.more = n])
        ELSE Go([g EXCEPT !.pending = @ \o Owned(n)], "session")
  BY <1>1 DEF Queue, HostType
<1>5. h.txn > 0
  BY <1>1, <1>2 DEF Ready, Numbered
<1> HIDE DEF rest, n
<1>6. g \in HostType
  BY <1>1, <1>3, TransferFits, Zenon
<1>7. /\ Ready(g) /\ g.call = rest /\ g.txn = h.txn /\ g.pending = h.pending
      /\ g.mode = h.mode /\ g.conf = h.conf /\ g.opened = h.opened /\ g.told = h.told
      /\ g.stream = h.stream /\ g.applied = h.applied /\ g.recovering = h.recovering
      /\ g.desynced = h.desynced /\ g.cs = h.cs /\ g.site = h.site
  BY <1>1, <1>5, <1>6 DEF Ready, HostType, Numbered
<1> HIDE DEF g
<1>8. h.stream = <<>> /\ h.pending \in Seq(1 .. MaxTxns) /\ h.told = "none"
  BY <1>1, SessionHolds DEF HostType
<1>9. CASE Transfer([Claimed(g, <<>>) EXCEPT !.want = 0, !.stop = FALSE, !.more = n])
  <2> DEFINE all == g.pending \o <<>>
             t == [Claimed(g, <<>>) EXCEPT !.want = 0, !.stop = FALSE, !.more = n]
  <2>1. t \in HostType
    <3> DEFINE c == Claimed(g, <<>>)
    <3>1. Ready(c)
      BY <1>3, <1>7, Names, ClaimedFits
    <3> HIDE DEF c
    <3>2. 0 \in Nat /\ FALSE \in BOOLEAN
      OBVIOUS
    <3> QED
      BY <1>3, <3>1, <3>2, TransferFits, Zenon DEF Ready, c
  <2>2. /\ t.call = g.call /\ t.txn = g.txn /\ t.pending = <<>> /\ t.stream = all
        /\ t.mode = g.mode /\ t.conf = g.conf /\ t.opened = g.opened /\ t.told = g.told
        /\ t.applied = g.applied /\ t.recovering = g.recovering /\ t.stop = FALSE
        /\ t.desynced = g.desynced /\ t.cs = g.cs /\ t.site = g.site
    BY <1>7 DEF Claimed, Ready, HostType
  <2>3. all = g.pending
    BY <1>7, <1>8, ConcatEmptySeq
  <2> HIDE DEF all, t
  <2>4. Suits(t, "slice")
    <3>1. ModeSuits(t, "slice")
      BY <1>1, <1>7, <2>2 DEF ModeSuits, IsOpen, Recovery, Connecting, Transferring
    <3>2. SettingsSuit(t, "slice")
      BY <1>1, <1>7, <1>8, <2>2 DEF SettingsSuit, Transferring, InUse
    <3>3. QueueSuits(t, "slice")
      <4>1. Len(t.pending) = 0
        BY <2>2
      <4> QED
        BY <1>1, <1>3, <1>7, <2>2, <2>3, <4>1 DEF QueueSuits, Transferring
    <3> QED
      BY <3>1, <3>2, <3>3 DEF Suits
  <2>5. Wired(t) /\ Targeted(t)
    BY <1>1, <1>7, <2>2, SessionHolds DEF Wired, Targeted, Synced
  <2>6. Ready(t)
    BY <1>5, <1>7, <2>1, <2>2 DEF Ready, HostType, Numbered
  <2>7. Transfer(t)
    BY <1>9 DEF t
  <2> QED
    BY <1>1, <2>4, <2>5, <2>6, <2>7, TransferLink
<1>10. CASE Go([g EXCEPT !.pending = @ \o Owned(n)], "session")
  <2> DEFINE all == g.pending \o Owned(n)
             k == [g EXCEPT !.pending = all]
  <2>1. Go(k, "session")
    BY <1>7, <1>10 DEF Ready, HostType
  <2>2. /\ Owned(n) \in Seq(1 .. MaxTxns) /\ \A i \in 1 .. Len(Owned(n)) : Owned(n)[i] = h.txn
    BY <1>1, <1>3, <1>5, OwnedAll
  <2>3. all \in Seq(1 .. MaxTxns)
    BY <1>7, <1>8, <2>2, ConcatProperties
  <2>4. \A i \in 1 .. Len(all) : all[i] = h.txn
    <3>1. \A i \in 1 .. Len(g.pending) : g.pending[i] = h.txn
      BY <1>1, <1>7 DEF QueueSuits
    <3> QED
      BY <1>7, <1>8, <2>2, <3>1, ConcatAll
  <2> HIDE DEF all
  <2>5. k \in HostType
    BY <1>7, <2>3, ModeFits, Zenon DEF Ready
  <2>6. /\ k.call = g.call /\ k.txn = g.txn /\ k.pending = all /\ k.stream = g.stream
        /\ k.mode = g.mode /\ k.conf = g.conf /\ k.opened = g.opened /\ k.told = g.told
        /\ k.applied = g.applied /\ k.recovering = g.recovering
        /\ k.desynced = g.desynced /\ k.cs = g.cs /\ k.site = g.site
    BY <1>7 DEF Ready, HostType
  <2> HIDE DEF k
  <2>7. Suits(k, "session")
    <3>1. ModeSuits(k, "session")
      BY <1>1, <1>7, <2>6 DEF ModeSuits, IsOpen
    <3>2. SettingsSuit(k, "session")
      BY <1>1, <1>7, <2>6 DEF SettingsSuit
    <3>3. QueueSuits(k, "session")
      <4>1. Len(k.stream) = 0
        BY <1>7, <1>8, <2>6
      <4> QED
        BY <1>1, <1>3, <1>7, <1>8, <2>4, <2>6, <4>1 DEF QueueSuits, Transferring
    <3> QED
      BY <3>1, <3>2, <3>3 DEF Suits
  <2>8. Wired(k) /\ Parked(k) /\ Targeted(k)
    BY <1>1, <1>7, <2>6, SessionHolds DEF Wired, Parked, Targeted, Synced
  <2>9. Settled(k, "session")
    BY <1>3, <1>7, <1>8, <2>6 DEF Settled
  <2> QED
    BY <1>1, <2>1, <2>5, <2>7, <2>8, <2>9, GoLink DEF Local, history
<1> QED
  BY <1>4, <1>9, <1>10

\* SPIWrite or SPIRead with CS = 1.
LEMMA FinishLink ==
  ASSUME IInv, LinkInv, Finish
  PROVE  LinkInv'
<1> DEFINE bytes == Owned(h.call.w)
           all == h.pending \o bytes
           c == Claimed(h, bytes)
           t == [c EXCEPT !.want = h.call.r, !.stop = TRUE, !.more = 0, !.call = NoCall]
<1>1. /\ h \in HostType /\ Ready(h) /\ LinkOK /\ OthersOK /\ Common /\ At("session")
      /\ ModeSuits(h, "session") /\ SettingsSuit(h, "session") /\ QueueSuits(h, "session")
      /\ h.opened /\ h.mode = "SPI" /\ h.site # "deinit" /\ Local /\ Transfer(t)
  BY FromHere DEF Finish, InSession, At
<1>2. h.call \in Transactions /\ h.call # NoCall /\ h.call.w \in Nat /\ h.call.r \in Nat
  BY <1>1 DEF Finish, HostType, Transactions
<1>3. h.txn > 0
  BY <1>1, <1>2 DEF Ready, Numbered
<1>4. bytes \in Seq(1 .. MaxTxns) /\ \A i \in 1 .. Len(bytes) : bytes[i] = h.txn
  BY <1>1, <1>2, <1>3, OwnedAll
<1> HIDE DEF bytes
<1>5. \A i \in 1 .. Len(all) : all[i] = h.txn
  <2>1. h.pending \in Seq(1 .. MaxTxns) /\ \A i \in 1 .. Len(h.pending) : h.pending[i] = h.txn
    BY <1>1 DEF HostType, QueueSuits
  <2> QED
    BY <1>4, <2>1, ConcatAll
<1>6. Ready(c)
  BY <1>1, <1>2, <1>4, ClaimedFits
<1>7. /\ t.call = NoCall /\ t.txn = h.txn /\ t.pending = <<>> /\ t.stream = all
      /\ t.mode = h.mode /\ t.conf = h.conf /\ t.opened = h.opened /\ t.told = h.told
      /\ t.applied = h.applied /\ t.recovering = h.recovering /\ t.stop = TRUE
      /\ t.desynced = h.desynced /\ t.cs = h.cs /\ t.site = h.site /\ t.more = 0
  BY <1>1 DEF Claimed, HostType
<1> HIDE DEF all
<1>8. t \in HostType
  <2> HIDE DEF c
  <2>1. 0 \in Nat /\ TRUE \in BOOLEAN /\ NoCall \in Transactions \cup {NoCall}
    OBVIOUS
  <2> QED
    BY <1>2, <1>6, <2>1, TransferFits, Zenon DEF Ready
<1> HIDE DEF t, c
<1>9. Suits(t, "slice")
  <2>1. ModeSuits(t, "slice")
    BY <1>1, <1>7 DEF ModeSuits, IsOpen, Recovery, Connecting, Transferring
  <2>2. SettingsSuit(t, "slice")
    BY <1>1, <1>7, SessionHolds DEF SettingsSuit, Transferring, InUse
  <2>3. QueueSuits(t, "slice")
    <3>1. Len(t.pending) = 0
      BY <1>7
    <3> QED
      BY <1>1, <1>5, <1>7, <3>1 DEF QueueSuits, Transferring
  <2> QED
    BY <2>1, <2>2, <2>3 DEF Suits
<1>10. Wired(t) /\ Targeted(t)
  BY <1>1, <1>7, SessionHolds DEF Wired, Targeted, Synced
<1>11. Ready(t)
  BY <1>3, <1>7, <1>8 DEF Ready, Numbered
<1> QED
  BY <1>1, <1>9, <1>10, <1>11, TransferLink

\* What a request of a transfer leaves behind that was carried out.
LEMMA TransferGoesOn ==
  ASSUME IInv, LinkInv, h.pc \in Transferring, h.answer = "ok",
         NEW k, k.mode = h.mode, k.applied = h.applied, k.opened = h.opened,
         k.desynced = h.desynced, k.recovering = h.recovering, k.txn = h.txn,
         k.cs <=> ~(h.pc = "slice" /\ StopMain(h))
  PROVE  Wired(k) /\ Parked(k) /\ Targeted(k)
<1>1. /\ h \in HostType /\ LinkOK /\ Wire /\ Target /\ Shape(h) /\ ModeSuits(h, h.pc)
      /\ QueueSuits(h, h.pc) /\ h.pc # "drain" /\ h.pc # "idle" /\ h.pc # "hiz"
  BY FromHere DEF Transferring
<1>2. h.mode = "SPI" /\ h.opened
  BY <1>1 DEF ModeSuits, QueueSuits
<1>3. ~loose => Quiet
  BY <1>1, <1>2, QuietAt DEF InUse
<1>4. Wired(k) /\ Parked(k)
  <2>1. Quiet => Wired(k) /\ Parked(k)
    BY <1>1, WiredQuiet
  <2> QED
    BY <1>3, <2>1 DEF Wired, Parked
<1>5. Synced(k) <=> Synced(h)
  BY DEF Synced
<1>6. ~loose /\ Synced(h) => (dev.cs <=> k.cs)
  <2>1. h.req.kind = "data" /\ (h.req.stop <=> h.pc = "slice" /\ StopMain(h))
    BY <1>1 DEF Shape, ReqFits
  <2> QED
    BY <1>1, <2>1 DEF Target, SelectHolds, SelectedAfter
<1>7. ~loose => /\ h.applied # None /\ ~dead => Holds(h.applied)
                /\ h.opened /\ ~dead => Holds(Wanted)
  BY <1>1 DEF Target, SettingsHold
<1>8. ~loose /\ ~cut /\ Synced(h) /\ h.opened => dev.frame \subseteq {h.txn}
  BY <1>1 DEF Target, TransactionHolds
<1> QED
  BY <1>4, <1>5, <1>6, <1>7, <1>8 DEF Targeted

\* A part of a long write was sent.
LEMMA PushedLink ==
  ASSUME IInv, LinkInv, Pushed
  PROVE  LinkInv'
<1> DEFINE rest == SubSeq(h.stream, MaxWrite + 1, Len(h.stream))
           k == [h EXCEPT !.cs = TRUE, !.stream = rest]
<1>1. /\ h \in HostType /\ Ready(h) /\ LinkOK /\ OthersOK /\ Common
      /\ ModeSuits(h, "push") /\ SettingsSuit(h, "push") /\ QueueSuits(h, "push")
      /\ h.pc = "push" /\ h.answer = "ok" /\ Local
  BY FromHere DEF Pushed, Answered, Ok
<1>2. h.stream \in Seq(1 .. MaxTxns)
  BY <1>1 DEF HostType
<1>3. /\ rest \in Seq(1 .. MaxTxns) /\ (h.stream = <<>> => rest = <<>>)
      /\ \A i \in 1 .. Len(rest) : i + MaxWrite \in 1 .. Len(h.stream) /\ rest[i] = h.stream[i + MaxWrite]
  <2>1. \A i \in MaxWrite + 1 .. Len(h.stream) : h.stream[i] \in 1 .. MaxTxns
    BY <1>2, Bounds, ElementOfSeq
  <2>2. h.stream = <<>> => rest = <<>>
    BY Bounds, SubSeqProperties, EmptySeq
  <2> QED
    BY <1>2, <2>1, <2>2, Bounds, SubSeqProperties
<1>4. Transfer(k)
  BY <1>1 DEF Pushed, HostType
<1> HIDE DEF rest
<1>5. k \in HostType
  BY <1>1, <1>3, TransferFits, Zenon
<1>6. /\ k.call = h.call /\ k.txn = h.txn /\ k.pending = h.pending /\ k.stream = rest
      /\ k.mode = h.mode /\ k.conf = h.conf /\ k.opened = h.opened /\ k.told = h.told
      /\ k.applied = h.applied /\ k.recovering = h.recovering /\ k.stop = h.stop
      /\ k.desynced = h.desynced /\ k.cs = TRUE /\ k.site = h.site /\ k.more = h.more
      /\ k.want = h.want
  BY <1>1 DEF HostType
<1> HIDE DEF k
<1>7. Suits(k, "slice")
  <2>1. ModeSuits(k, "slice")
    BY <1>1, <1>6 DEF ModeSuits, IsOpen, Recovery, Connecting, Transferring, Waits
  <2>2. SettingsSuit(k, "slice")
    BY <1>1, <1>6 DEF SettingsSuit, Transferring
  <2>3. QueueSuits(k, "slice")
    BY <1>1, <1>3, <1>6 DEF QueueSuits, Transferring
  <2> QED
    BY <2>1, <2>2, <2>3 DEF Suits
<1>8. Wired(k) /\ Targeted(k)
  BY <1>1, <1>6, TransferGoesOn DEF Transferring
<1>9. Ready(k)
  BY <1>1, <1>3, <1>5, <1>6 DEF Ready, Numbered
<1> QED
  BY <1>1, <1>4, <1>7, <1>8, <1>9, TransferLink

\* Chip select was asserted on its own.
LEMMA AssertedLink ==
  ASSUME IInv, LinkInv, Asserted
  PROVE  LinkInv'
<1> DEFINE k == [h EXCEPT !.cs = TRUE]
<1>1. /\ h \in HostType /\ Ready(h) /\ LinkOK /\ OthersOK /\ Common
      /\ ModeSuits(h, "assert") /\ SettingsSuit(h, "assert") /\ QueueSuits(h, "assert")
      /\ h.pc = "assert" /\ h.answer = "ok" /\ Local /\ Transfer(k)
  BY FromHere DEF Asserted, Answered, Ok
<1>2. k \in HostType
  BY <1>1, ModeFits, Zenon
<1>3. /\ k.call = h.call /\ k.txn = h.txn /\ k.pending = h.pending /\ k.stream = h.stream
      /\ k.mode = h.mode /\ k.conf = h.conf /\ k.opened = h.opened /\ k.told = h.told
      /\ k.applied = h.applied /\ k.recovering = h.recovering /\ k.stop = h.stop
      /\ k.desynced = h.desynced /\ k.cs = TRUE /\ k.site = h.site /\ k.more = h.more
      /\ k.want = h.want
  BY <1>1 DEF HostType
<1> HIDE DEF k
<1>4. Suits(k, "slice")
  <2>1. ModeSuits(k, "slice")
    BY <1>1, <1>3 DEF ModeSuits, IsOpen, Recovery, Connecting, Transferring, Waits
  <2>2. SettingsSuit(k, "slice")
    BY <1>1, <1>3 DEF SettingsSuit, Transferring
  <2>3. QueueSuits(k, "slice")
    BY <1>1, <1>3 DEF QueueSuits, Transferring
  <2> QED
    BY <2>1, <2>2, <2>3 DEF Suits
<1>5. Wired(k) /\ Targeted(k)
  BY <1>1, <1>3, TransferGoesOn DEF Transferring
<1>6. Ready(k)
  BY <1>1, <1>2, <1>3 DEF Ready, Numbered
<1> QED
  BY <1>1, <1>4, <1>5, <1>6, TransferLink

\* A slice is done: the next one, or the rest of the queue.
LEMMA SlicedLink ==
  ASSUME IInv, LinkInv, Sliced
  PROVE  LinkInv'
<1> DEFINE left == h.want - ReadSlice(h)
           hold == ~StopMain(h)
           g == [h EXCEPT !.cs = hold, !.stream = <<>>, !.want = left]
<1>1. /\ h \in HostType /\ Ready(h) /\ LinkOK /\ OthersOK /\ Common
      /\ ModeSuits(h, "slice") /\ SettingsSuit(h, "slice") /\ QueueSuits(h, "slice")
      /\ h.pc = "slice" /\ h.answer = "ok" /\ Local
  BY FromHere DEF Sliced, Answered, Ok
<1>2. /\ left \in Nat /\ (left > 0 => h.want > 0) /\ hold \in BOOLEAN /\ h.more \in Nat
      /\ h.want \in Nat /\ (~(left > 0) => (hold <=> ~h.stop))
  BY <1>1, SliceFits, Bounds DEF HostType, StopMain
<1>3. IF g.want > 0 THEN Transfer(g)
      ELSE Go([g EXCEPT !.pending = @ \o Owned(h.more), !.more = 0], "session")
  BY <1>1 DEF Sliced, HostType
<1>4. hold <=> ~(h.pc = "slice" /\ StopMain(h))
  BY <1>1
<1> HIDE DEF left, hold
<1>5. g \in HostType
  BY <1>1, <1>2, Names, TransferFits, Zenon
<1>6. /\ g.call = h.call /\ g.txn = h.txn /\ g.pending = h.pending /\ g.stream = <<>>
      /\ g.mode = h.mode /\ g.conf = h.conf /\ g.opened = h.opened /\ g.told = h.told
      /\ g.applied = h.applied /\ g.recovering = h.recovering /\ g.stop = h.stop
      /\ g.desynced = h.desynced /\ g.cs = hold /\ g.site = h.site /\ g.more = h.more
      /\ g.want = left
  BY <1>1 DEF HostType
<1> HIDE DEF g
<1>7. Ready(g) /\ g.pending \in Seq(1 .. MaxTxns)
  BY <1>1, <1>2, <1>5, <1>6 DEF Ready, HostType, Numbered
<1>8. CASE g.want > 0
  <2>1. Suits(g, "slice")
    <3>1. ModeSuits(g, "slice")
      BY <1>1, <1>6 DEF ModeSuits, IsOpen
    <3>2. SettingsSuit(g, "slice")
      BY <1>1, <1>6 DEF SettingsSuit
    <3>3. QueueSuits(g, "slice")
      <4>1. Len(g.stream) = 0
        BY <1>6
      <4> QED
        BY <1>1, <1>6, <4>1 DEF QueueSuits, Transferring
    <3> QED
      BY <3>1, <3>2, <3>3 DEF Suits
  <2>2. Wired(g) /\ Targeted(g)
    BY <1>1, <1>4, <1>6, TransferGoesOn DEF Transferring
  <2> QED
    BY <1>1, <1>3, <1>7, <1>8, <2>1, <2>2, TransferLink
<1>9. CASE ~(g.want > 0)
  <2> DEFINE all == g.pending \o Owned(h.more)
             k == [g EXCEPT !.pending = all, !.more = 0]
  <2>1. h.more > 0 => h.txn > 0
    BY <1>1 DEF Ready, Numbered
  <2>2. /\ Owned(h.more) \in Seq(1 .. MaxTxns) /\ Len(Owned(h.more)) = h.more
        /\ \A i \in 1 .. Len(Owned(h.more)) : Owned(h.more)[i] = h.txn
    BY <1>1, <1>2, <2>1, OwnedAll
  <2>3. all \in Seq(1 .. MaxTxns)
    BY <1>7, <2>2, ConcatProperties
  <2>4. \A i \in 1 .. Len(all) : all[i] = h.txn
    <3>1. \A i \in 1 .. Len(g.pending) : g.pending[i] = h.txn
      BY <1>1, <1>6 DEF QueueSuits
    <3> DEFINE s == g.pending
               o == Owned(h.more)
    <3>2. /\ s \in Seq(1 .. MaxTxns) /\ o \in Seq(1 .. MaxTxns)
          /\ \A i \in 1 .. Len(s) : s[i] = h.txn
          /\ \A i \in 1 .. Len(o) : o[i] = h.txn
      BY <1>7, <2>2, <3>1
    <3> HIDE DEF s, o
    <3>3. \A i \in 1 .. Len(s \o o) : (s \o o)[i] = h.txn
      BY <3>2, ConcatAll
    <3> QED
      BY <3>3 DEF s, o
  <2>5. h.call = NoCall => all = <<>>
    <3> SUFFICES ASSUME h.call = NoCall PROVE all = <<>>
      OBVIOUS
    <3>1. h.pending = <<>> /\ h.more = 0
      BY <1>1 DEF QueueSuits, Transferring
    <3>2. Owned(h.more) = <<>>
      BY <2>2, <3>1, EmptySeq
    <3> QED
      BY <1>6, <3>1, <3>2, ConcatEmptySeq
  <2>6. Go(k, "session")
    BY <1>3, <1>7, <1>9 DEF Ready, HostType
  <2> HIDE DEF all
  <2>7. k \in HostType
    <3>1. 0 \in Nat
      OBVIOUS
    <3> QED
      BY <1>7, <2>3, <3>1, TransferFits, Zenon DEF Ready
  <2>8. /\ k.call = g.call /\ k.txn = g.txn /\ k.pending = all /\ k.stream = g.stream
        /\ k.mode = g.mode /\ k.conf = g.conf /\ k.opened = g.opened /\ k.told = g.told
        /\ k.applied = g.applied /\ k.recovering = g.recovering
        /\ k.desynced = g.desynced /\ k.cs = g.cs /\ k.site = g.site
    BY <1>7 DEF Ready, HostType
  <2> HIDE DEF k
  <2>9. Suits(k, "session")
    <3>1. ModeSuits(k, "session")
      BY <1>1, <1>6, <2>8 DEF ModeSuits, IsOpen, Recovery, Connecting, Waits, Releasing, Transferring
    <3>2. SettingsSuit(k, "session")
      BY <1>1, <1>6, <2>8 DEF SettingsSuit
    <3>3. QueueSuits(k, "session")
      <4>1. Len(k.stream) = 0
        BY <1>6, <2>8
      <4> QED
        BY <1>1, <1>6, <2>4, <2>5, <2>8, <4>1 DEF QueueSuits, ModeSuits, Transferring
    <3> QED
      BY <3>1, <3>2, <3>3 DEF Suits
  <2>10. Wired(k) /\ Parked(k) /\ Targeted(k)
    BY <1>1, <1>4, <1>6, <2>8, TransferGoesOn DEF Transferring
  <2>11. Settled(k, "session")
    BY <1>1, <1>2, <1>6, <1>9, <2>8 DEF Settled, SettingsSuit, QueueSuits, Transferring
  <2> QED
    BY <1>1, <2>6, <2>7, <2>9, <2>10, <2>11, GoLink DEF Local, history
<1> QED
  BY <1>8, <1>9

\* Complain.
LEMMA TransferFailedLink ==
  ASSUME IInv, LinkInv, TransferFailed
  PROVE  LinkInv'
<1> DEFINE k == [h EXCEPT !.applied = None, !.stream = <<>>, !.want = 0, !.more = 0]
<1>1. /\ h \in HostType /\ LinkOK /\ OthersOK /\ Common /\ Wire /\ Target /\ Shape(h)
      /\ ModeSuits(h, h.pc) /\ SettingsSuit(h, h.pc) /\ QueueSuits(h, h.pc)
      /\ h.pc \in Transferring /\ h.answer = "no"
  BY FromHere DEF TransferFailed, Transferring
<1>2. /\ Go(k, "session") /\ (cut' <=> (cut \/ (h.cs /\ ~h.desynced)))
      /\ UNCHANGED <<menu, dev, fooled, mixed, loose>>
  BY DEF TransferFailed, TransferFails
<1>3. k \in HostType
  <2>1. 0 \in Nat
    OBVIOUS
  <2> QED
    BY <1>1, <2>1, NoneFits, Names, TransferFits, Zenon
<1>4. /\ k.call = h.call /\ k.txn = h.txn /\ k.pending = h.pending /\ k.stream = <<>>
      /\ k.mode = h.mode /\ k.conf = h.conf /\ k.opened = h.opened /\ k.told = h.told
      /\ k.applied = None /\ k.recovering = h.recovering
      /\ k.desynced = h.desynced /\ k.cs = h.cs /\ k.site = h.site
  BY <1>1 DEF HostType
<1> HIDE DEF k
<1>5. h.mode = "SPI" /\ ~h.recovering /\ h.opened /\ h.told = "none"
  BY <1>1 DEF ModeSuits, QueueSuits, SettingsSuit, Transferring, Recovery
<1>6. Suits(k, "session")
  <2>1. ModeSuits(k, "session")
    BY <1>1, <1>4, <1>5 DEF ModeSuits, IsOpen, Recovery, Connecting, Waits, Releasing, Transferring
  <2>2. SettingsSuit(k, "session")
    BY <1>1, <1>4, <1>5 DEF SettingsSuit, InUse
  <2>3. QueueSuits(k, "session")
    <3>1. Len(k.stream) = 0
      BY <1>4
    <3> QED
      BY <1>1, <1>4, <3>1 DEF QueueSuits, Transferring
  <2> QED
    BY <2>1, <2>2, <2>3 DEF Suits
<1>7. Wired(k) /\ Parked(k)
  <2>1. Wired(h) /\ Parked(h)
    BY <1>1, <1>5, WiredAt DEF Transferring
  <2> QED
    BY <1>4, <2>1 DEF Wired, Parked
<1>8. Targeted(k)
  <2>1. Targeted(h)
    BY <1>1, TargetedAt DEF Transferring
  <2> QED
    BY <1>4, <2>1 DEF Targeted, Synced
<1>9. Settled(k, "session")
  BY <1>2, <1>4, <1>5 DEF Settled
<1> QED
  BY <1>1, <1>2, <1>3, <1>6, <1>7, <1>8, <1>9, GoLink

-----------------------------------------------------------------------------
(***************************************************************************)
(* Frames that arrive and deadlines that pass.  Kept(k, g): Transact has   *)
(* changed nothing of g but its own notes, and what a desync clears.       *)
(***************************************************************************)
Kept(k, g) ==
  /\ k.pc = g.pc /\ k.site = g.site /\ k.mode = g.mode /\ k.recovering = g.recovering
  /\ k.cs = g.cs /\ k.conf = g.conf /\ k.stream = g.stream /\ k.want = g.want
  /\ k.stop = g.stop /\ k.more = g.more /\ k.applied = g.applied /\ k.opened = g.opened
  /\ k.call = g.call /\ k.txn = g.txn /\ k.told = g.told /\ k.req = g.req
  /\ k.heard = g.heard /\ k.pending \in {g.pending, <<>>}
  /\ g.desynced => k.desynced
  /\ g.recovering /\ k.desynced => g.desynced

\* What the verdicts change.
LEMMA VerdictKeeps ==
  ASSUME NEW g \in HostType
  PROVE  /\ Kept(MarkDesynced(g), g) /\ MarkDesynced(g).answer = g.answer
         /\ MarkDesynced(g).desynced \/ g.recovering
         /\ Kept(Fails(g), g) /\ Fails(g).answer = "no" /\ Fails(g).desynced = g.desynced
         /\ \A b \in {"ok"} : Kept([g EXCEPT !.answer = b], g)
                /\ [g EXCEPT !.answer = b].answer = b
                /\ [g EXCEPT !.answer = b].desynced = g.desynced
         /\ Kept([g EXCEPT !.graced = TRUE], g) /\ [g EXCEPT !.graced = TRUE].answer = g.answer
         /\ [g EXCEPT !.graced = TRUE].desynced = g.desynced
         /\ \A n : Kept([g EXCEPT !.skipped = n], g) /\ [g EXCEPT !.skipped = n].answer = g.answer
                /\ [g EXCEPT !.skipped = n].desynced = g.desynced
<1>1. /\ Kept(MarkDesynced(g), g) /\ MarkDesynced(g).answer = g.answer
      /\ MarkDesynced(g).desynced \/ g.recovering
  <2>1. CASE g.desynced \/ g.recovering
    BY <2>1 DEF MarkDesynced, Kept
  <2>2. CASE ~(g.desynced \/ g.recovering)
    <3> DEFINE k == [g EXCEPT !.desynced = TRUE, !.pending = <<>>]
    <3>1. MarkDesynced(g) = k
      BY <2>2 DEF MarkDesynced
    <3>2. Kept(k, g) /\ k.answer = g.answer /\ k.desynced = TRUE
      BY <2>2 DEF Kept, HostType
    <3> HIDE DEF k
    <3> QED
      BY <3>1, <3>2
  <2> QED
    BY <2>1, <2>2
<1>2. Kept(Fails(g), g) /\ Fails(g).answer = "no" /\ Fails(g).desynced = g.desynced
  BY DEF Kept, Fails, HostType
<1>3. ASSUME NEW b \in {"ok"}
      PROVE  /\ Kept([g EXCEPT !.answer = b], g) /\ [g EXCEPT !.answer = b].answer = b
             /\ [g EXCEPT !.answer = b].desynced = g.desynced
  BY DEF Kept, HostType
<1>4. /\ Kept([g EXCEPT !.graced = TRUE], g) /\ [g EXCEPT !.graced = TRUE].answer = g.answer
      /\ [g EXCEPT !.graced = TRUE].desynced = g.desynced
  BY DEF Kept, HostType
<1>5. ASSUME NEW n
      PROVE  /\ Kept([g EXCEPT !.skipped = n], g) /\ [g EXCEPT !.skipped = n].answer = g.answer
             /\ [g EXCEPT !.skipped = n].desynced = g.desynced
  BY DEF Kept, HostType
<1> QED
  BY <1>1, <1>2, <1>3, <1>4, <1>5

\* What is kept twice is kept.
LEMMA KeptTwice ==
  ASSUME NEW k, NEW l, NEW g, Kept(k, l), Kept(l, g)
  PROVE  Kept(k, g)
  BY DEF Kept

\* The end of a wait changes no more.
LEMMA GivesUpKeeps ==
  ASSUME NEW g, InExchange(g)
  PROVE  Kept(GivesUp(g), g) /\ GivesUp(g).answer = "no"
<1> DEFINE k == IF g.graced THEN g ELSE MarkDesynced(g)
<1>1. g \in HostType /\ InExchange(k)
  BY VerdictFits DEF InExchange
<1>2. GivesUp(g) = Fails(k)
  BY DEF GivesUp
<1>3. Kept(k, g)
  <2>1. Kept(g, g)
    BY DEF Kept
  <2> QED
    BY <1>1, <2>1, VerdictKeeps
<1> HIDE DEF k
<1>4. Kept(Fails(k), k) /\ Fails(k).answer = "no"
  BY <1>1, VerdictKeeps DEF InExchange
<1> QED
  BY <1>2, <1>3, <1>4, KeptTwice

\* Nor does a frame that is thrown away.
LEMMA DiscardKeeps ==
  ASSUME NEW g, InExchange(g), g.skipped <= MaxSkipped
  PROVE  /\ Kept(Discard(g), g) /\ Discard(g).answer \in {g.answer, "no"}
         /\ Discard(g).answer # "no" => Discard(g).desynced = g.desynced
<1> DEFINE k == [g EXCEPT !.skipped = @ + 1]
<1>1. g \in HostType /\ g.skipped \in Nat
  BY Bounds DEF InExchange, HostType
<1>2. g.skipped + 1 \in 0 .. MaxSkipped + 1
  BY <1>1, Bounds
<1>3. k = [g EXCEPT !.skipped = g.skipped + 1]
  BY <1>1 DEF HostType
<1>4. k \in HostType
  BY <1>1, <1>2, <1>3, WaitFits, Zenon
<1>5. InExchange(k)
  BY <1>1, <1>4 DEF InExchange, HostType, Numbered
<1>6. Kept(k, g) /\ k.answer = g.answer /\ k.desynced = g.desynced
  BY <1>1, <1>3, VerdictKeeps
<1>7. Discard(g) = IF g.skipped + 1 > MaxSkipped THEN GivesUp(k) ELSE k
  BY DEF Discard
<1> HIDE DEF k
<1>8. Kept(GivesUp(k), g) /\ GivesUp(k).answer = "no"
  BY <1>5, <1>6, GivesUpKeeps, KeptTwice
<1> QED
  BY <1>6, <1>7, <1>8

\* Transact's verdict on a frame: only a sound one of the right kind is accepted, and
\* the answer to the request itself is, when it is sound.
LEMMA JudgedKeeps ==
  ASSUME NEW g, InExchange(g), g.answer = "wait", g.skipped <= MaxSkipped, NEW a \in Frames,
         NEW k, k = Judged(g, a)
  PROVE  /\ Kept(k, g) /\ k.answer \in {"wait", "ok", "no"}
         /\ k.answer # "no" => k.desynced = g.desynced
         /\ k.answer = "ok" => Sound(a) /\ a.kind = g.req.kind
         /\ a.kind = g.req.kind /\ a.read = g.req.read /\ a.error # "async" =>
              /\ Sound(a) => k.answer = "ok"
              /\ k.answer = "wait" => a.error = "outer"
              /\ a.error = "malformed" => k.answer = "no" /\ (k.desynced \/ k.recovering)
<1> DEFINE Good ==
      /\ Kept(k, g) /\ k.answer \in {"wait", "ok", "no"}
      /\ k.answer # "no" => k.desynced = g.desynced
      /\ k.answer = "ok" => Sound(a) /\ a.kind = g.req.kind
      /\ a.kind = g.req.kind /\ a.read = g.req.read /\ a.error # "async" =>
           /\ Sound(a) => k.answer = "ok"
           /\ k.answer = "wait" => a.error = "outer"
           /\ a.error = "malformed" => k.answer = "no" /\ (k.desynced \/ k.recovering)
<1>1. a.error \in {"none", "outer", "inner", "malformed", "async"} /\ g \in HostType
  BY DEF Frames, InExchange
<1>2. ASSUME k = Fails(g), a.error # "malformed", Sound(a) => a.kind # g.req.kind \/ a.read # g.req.read
      PROVE  Good
  <2>1. Kept(k, g) /\ k.answer = "no"
    BY <1>1, <1>2, VerdictKeeps
  <2> QED
    BY <1>2, <2>1
<1>3. ASSUME k = Discard(g), a.kind # g.req.kind \/ a.error = "async"
      PROVE  Good
  <2>1. Kept(k, g) /\ k.answer \in {"wait", "no"} /\ (k.answer # "no" => k.desynced = g.desynced)
    BY <1>3, DiscardKeeps
  <2> QED
    BY <1>3, <2>1
<1> SUFFICES Good
  OBVIOUS
<1> HIDE DEF Good
<1>5. CASE a.error = "malformed"
  <2> DEFINE m == MarkDesynced(g)
  <2>1. k = Fails(m)
    BY <1>5 DEF Judged
  <2>2. Kept(m, g) /\ (m.desynced \/ g.recovering) /\ m \in HostType
    BY <1>1, VerdictKeeps, VerdictFits DEF InExchange
  <2> HIDE DEF m
  <2>3. Kept(k, m) /\ k.answer = "no" /\ k.desynced = m.desynced
    <3>1. Kept(Fails(m), m) /\ Fails(m).answer = "no" /\ Fails(m).desynced = m.desynced
      BY <2>2, VerdictKeeps
    <3> QED
      BY <2>1, <3>1
  <2>4. Kept(k, g) /\ k.recovering = g.recovering
    BY <2>2, <2>3, KeptTwice DEF Kept
  <2> QED
    BY <1>5, <2>2, <2>3, <2>4 DEF Good, Sound
<1>6. CASE a.error = "outer"
  <2>1. CASE g.graced
    <3>1. k = Fails(g)
      BY <1>6, <2>1 DEF Judged
    <3> QED
      BY <1>2, <1>6, <3>1 DEF Sound
  <2>2. CASE ~g.graced
    <3> DEFINE m == [g EXCEPT !.graced = TRUE]
    <3>1. k = Discard(m)
      BY <1>6, <2>2 DEF Judged
    <3>2. /\ Kept(m, g) /\ m.answer = "wait" /\ m.desynced = g.desynced
          /\ InExchange(m) /\ m.skipped <= MaxSkipped
      BY <1>1, VerdictKeeps, VerdictFits
    <3> HIDE DEF m
    <3>3. /\ Kept(k, m) /\ k.answer \in {"wait", "no"}
          /\ k.answer # "no" => k.desynced = m.desynced
      BY <3>1, <3>2, DiscardKeeps
    <3>4. Kept(k, g)
      BY <3>2, <3>3, KeptTwice
    <3> QED
      BY <1>6, <3>2, <3>3, <3>4 DEF Good, Sound
  <2> QED
    BY <2>1, <2>2
<1>7. CASE a.error \notin {"malformed", "outer"} /\ ~Matches(g, a)
  <2>1. k = Discard(g) /\ a.kind # g.req.kind
    BY <1>7 DEF Judged, Matches
  <2> QED
    BY <1>3, <2>1
<1>8. CASE a.error = "async" /\ Matches(g, a)
  <2>1. k = Discard(g)
    BY <1>8 DEF Judged
  <2> QED
    BY <1>3, <1>8, <2>1
<1>9. CASE a.error = "inner" /\ Matches(g, a)
  <2>1. k = Fails(g)
    BY <1>9 DEF Judged
  <2> QED
    BY <1>2, <1>9, <2>1 DEF Sound
<1>10. CASE a.error = "none" /\ Matches(g, a)
  <2>1. CASE Delivered(g, a)
    <3>1. k = [g EXCEPT !.answer = "ok"]
      BY <1>10, <2>1 DEF Judged
    <3>2. Kept(k, g) /\ k.answer = "ok" /\ k.desynced = g.desynced
      <4>1. \A b \in {"ok"} : LET m == [g EXCEPT !.answer = b]
                             IN  Kept(m, g) /\ m.answer = b /\ m.desynced = g.desynced
        BY <1>1, VerdictKeeps
      <4> QED
        BY <3>1, <4>1
    <3> QED
      BY <1>10, <3>2 DEF Good, Sound, Matches
  <2>2. CASE ~Delivered(g, a)
    <3>1. k = Fails(g) /\ a.read # g.req.read
      BY <1>10, <2>2 DEF Judged, Delivered
    <3> QED
      BY <1>2, <1>10, <3>1
  <2> QED
    BY <2>1, <2>2
<1> QED
  BY <1>1, <1>5, <1>6, <1>7, <1>8, <1>9, <1>10

\* What Transact changes does not concern Shape.
LEMMA KeptShape ==
  ASSUME Shape(h), h.answer = "wait", NEW g, Kept(h', g), menu' = menu,
         g.pc = h.pc, g.site = h.site, g.mode = h.mode, g.recovering = h.recovering,
         g.cs = h.cs, g.conf = h.conf, g.stream = h.stream, g.want = h.want, g.stop = h.stop,
         g.more = h.more, g.applied = h.applied, g.opened = h.opened, g.call = h.call,
         g.txn = h.txn, g.told = h.told, g.req = h.req, g.pending = h.pending,
         g.desynced = h.desynced, h'.answer # "no" => h'.desynced = h.desynced
  PROVE  Shape(h)'
<1>1. ModeSuits(h', h'.pc)
  BY DEF Shape, Suits, ModeSuits, Kept, IsOpen
<1>2. SettingsSuit(h', h'.pc)
  BY DEF Shape, Suits, SettingsSuit, Kept
<1>3. QueueSuits(h', h'.pc)
  <2>1. CASE h'.pending = <<>>
    <3>1. Len(h'.pending) = 0
      BY <2>1
    <3> QED
      BY <2>1, <3>1 DEF Shape, Suits, QueueSuits, Kept
  <2>2. CASE h'.pending = h.pending
    BY <2>2 DEF Shape, Suits, QueueSuits, Kept
  <2> QED
    BY <2>1, <2>2 DEF Kept
<1>4. ReqFits(h', h'.pc, h'.req)
  BY DEF Shape, ReqFits, Kept, StopMain, ReadSlice
<1>5. Shape(h')
  BY <1>1, <1>2, <1>3, <1>4 DEF Shape, Suits, Kept
<1> QED
  BY <1>5, ShapeCarries

\* The deadline: without a word about the request the link is out of step.
LEMMA TimeoutLink ==
  ASSUME IInv, LinkInv, Timeout
  PROVE  LinkInv'
<1>1. /\ h \in HostType /\ LinkOK /\ Common /\ Wire /\ Target /\ Shape(h)
      /\ ModeSuits(h, h.pc) /\ h.answer = "wait" /\ h.pc \in Waits
  BY FromHere DEF Timeout
<1>2. /\ h' = GivesUp(h) /\ UNCHANGED <<menu, dev, out, in, half, dead, fooled, mixed, cut>>
      /\ (loose' <=> Loosened)
  BY DEF Timeout, link
<1>3. Kept(h', h) /\ h'.answer = "no"
  <2>1. InExchange(h)
    BY FromHere, <1>1 DEF InExchange, Ready
  <2> QED
    BY <1>2, <2>1, GivesUpKeeps
<1>4. /\ h'.pc = h.pc /\ h'.mode = h.mode /\ h'.recovering = h.recovering /\ h'.cs = h.cs
      /\ h'.applied = h.applied /\ h'.opened = h.opened /\ h'.told = h.told /\ h'.txn = h.txn
      /\ h'.heard = h.heard /\ (h.desynced => h'.desynced)
  BY <1>3 DEF Kept
<1>5. ~loose' => ~loose /\ (~h'.desynced /\ ~h'.recovering => h.heard)
  BY <1>2, <1>3, <1>4 DEF Loosened
<1>6. Shape(h)'
  BY <1>1, <1>2, <1>3, KeptShape
<1>7. /\ Quiet' <=> Quiet
      /\ InStatus' <=> InStatus
      /\ OutStatus' <=> OutStatus
      /\ OutOrdered' <=> OutOrdered
  BY <1>2 DEF Quiet, InStatus, OutStatus, OutOrdered, Sound
<1>8. h.heard => Quiet
  BY <1>1 DEF Wire, Own
<1>9. Quiet => InStatus /\ OutStatus /\ out = <<>>
  <2>1. out = <<>> => Len(out) = 0
    OBVIOUS
  <2> QED
    BY <2>1 DEF Quiet, InStatus, OutStatus
<1>10. h.pc \notin {"idle", "session", "opening", "drain", "drained"}
  BY <1>1 DEF Waits
<1>11. Wire'
  <2>1. Own(h)'
    BY <1>3 DEF Own
  <2>2. ~loose' => FirmWire(h)'
    BY <1>1, <1>2, <1>3, <1>4, <1>5, <1>7, <1>8, <1>10 DEF Wire, FirmWire
  <2>3. ~loose' => OpeningWire(h)'
    <3> SUFFICES ASSUME ~loose' PROVE OpeningWire(h)'
      OBVIOUS
    <3>1. h.pc \in {"probe", "hiz"} \/ h.mode = "closed" => OutOrdered
      BY <1>1, <1>5 DEF Wire, OpeningWire
    <3>2. h.pc = "full" => InStatus /\ OutStatus
      BY <1>1, <1>5 DEF Wire, OpeningWire
    <3>3. h.pc = "configure" /\ ~h'.desynced => InStatus /\ OutStatus /\ out = <<>>
      <4>1. h.pc = "configure" => ~h.recovering
        BY <1>1 DEF ModeSuits, Recovery
      <4> QED
        BY <1>4, <1>5, <1>8, <1>9, <4>1
    <3> QED
      BY <1>2, <1>3, <1>4, <1>7, <1>10, <3>1, <3>2, <3>3 DEF OpeningWire
  <2> QED
    BY <1>1, <1>2, <1>5, <2>1, <2>2, <2>3 DEF Wire
<1>12. Target'
  <2>1. ~loose' => Granted(h)'
    BY <1>3 DEF Granted
  <2>2. Wanted' = Wanted
    BY <1>2 DEF Wanted
  <2>3. \A c : Holds(c)' <=> Holds(c)
    BY <1>2 DEF Holds
  <2>4. ~loose' => SettingsHold(h)'
    BY <1>1, <1>2, <1>4, <1>5, <2>2, <2>3 DEF Target, SettingsHold
  <2>5. Synced(h)' => Synced(h)
    BY <1>2, <1>4 DEF Synced
  <2>6. ~loose' => SelectHolds(h)'
    BY <1>1, <1>2, <1>3, <1>4, <1>5, <2>5 DEF Target, SelectHolds, Synced
  <2>7. ~loose' /\ ~cut' => FrameHolds' /\ TransactionHolds(h)' /\ ~mixed'
    BY <1>1, <1>2, <1>4, <1>5, <1>10, <2>5 DEF Target, FrameHolds, TransactionHolds
  <2> QED
    BY <1>1, <1>2, <2>1, <2>4, <2>6, <2>7 DEF Target
<1> QED
  BY <1>6, <1>11, <1>12 DEF LinkInv

\* A frame that arrives: late answers are taken for nothing but late answers, and an
\* answer to the request itself for what it says.
LEMMA ReceiveLink ==
  ASSUME IInv, LinkInv, Receive
  PROVE  LinkInv'
<1> DEFINE a == Head(in)
           b == (h.heard \/ ~a.stale)
           g == [h EXCEPT !.heard = b]
<1>1. /\ h \in HostType /\ LinkOK /\ Common /\ Wire /\ Target /\ Shape(h)
      /\ ModeSuits(h, h.pc) /\ h.answer = "wait" /\ h.pc \in Waits
  BY FromHere DEF Receive
<1>2. /\ in # <<>> /\ in' = Tail(in) /\ (loose' <=> Loosened)
      /\ (fooled' <=> (fooled \/ (h'.answer = "ok" /\ a.stale /\ a.kind # "status")))
      /\ UNCHANGED <<menu, dev, out, half, dead, faults, mixed, cut>>
  BY DEF Receive
<1>3. /\ a \in Frames /\ a = in[1] /\ Len(in) \in Nat /\ Len(in) > 0 /\ Len(in') = Len(in) - 1
      /\ \A i \in 1 .. Len(in') : in'[i] = in[i + 1]
  BY <1>1, <1>2, HeadTailProperties, EmptySeq DEF LinkOK
<1>4. h' = Judged(g, a)
  BY <1>1 DEF Receive, HostType
<1>5. /\ InExchange(g) /\ g.answer = "wait" /\ g.skipped <= MaxSkipped
      /\ g.pc = h.pc /\ g.site = h.site /\ g.mode = h.mode /\ g.recovering = h.recovering
      /\ g.cs = h.cs /\ g.conf = h.conf /\ g.stream = h.stream /\ g.want = h.want
      /\ g.stop = h.stop /\ g.more = h.more /\ g.applied = h.applied /\ g.opened = h.opened
      /\ g.call = h.call /\ g.txn = h.txn /\ g.told = h.told /\ g.req = h.req
      /\ g.pending = h.pending /\ g.desynced = h.desynced /\ (g.heard <=> b)
  <2>1. g \in HostType
    <3>1. b \in BOOLEAN
      OBVIOUS
    <3> HIDE DEF b
    <3> QED
      BY <1>1, <3>1, WaitFits, Zenon
  <2>2. h.skipped <= MaxSkipped /\ SiteFits(h.pc, h.site) /\ Numbered(h)
    BY <1>1, AtStart DEF Placed, Ready
  <2> QED
    BY <1>1, <2>1, <2>2 DEF InExchange, HostType, Numbered
<1> HIDE DEF g
<1>6. /\ Kept(h', g) /\ h'.answer \in {"wait", "ok", "no"}
      /\ h'.answer # "no" => h'.desynced = g.desynced
      /\ h'.answer = "ok" => Sound(a) /\ a.kind = h.req.kind
      /\ a.kind = h.req.kind /\ a.read = h.req.read /\ a.error # "async" =>
           /\ Sound(a) => h'.answer = "ok"
           /\ h'.answer = "wait" => a.error = "outer"
           /\ a.error = "malformed" => h'.answer = "no" /\ (h'.desynced \/ h'.recovering)
  <2> HIDE DEF a
  <2> DEFINE k == h'
  <2>1. k = Judged(g, a)
    BY <1>4
  <2> HIDE DEF k
  <2>2. /\ Kept(k, g) /\ k.answer \in {"wait", "ok", "no"}
        /\ k.answer # "no" => k.desynced = g.desynced
        /\ k.answer = "ok" => Sound(a) /\ a.kind = g.req.kind
        /\ a.kind = g.req.kind /\ a.read = g.req.read /\ a.error # "async" =>
             /\ Sound(a) => k.answer = "ok"
             /\ k.answer = "wait" => a.error = "outer"
             /\ a.error = "malformed" => k.answer = "no" /\ (k.desynced \/ k.recovering)
    BY <1>3, <1>5, <2>1, JudgedKeeps
  <2> QED
    BY <1>5, <2>2 DEF k
<1> HIDE DEF a
<1>7. Shape(h)'
  BY <1>1, <1>2, <1>5, <1>6, KeptShape
<1>8. /\ h'.pc = h.pc /\ h'.mode = h.mode /\ h'.recovering = h.recovering /\ h'.cs = h.cs
      /\ h'.applied = h.applied /\ h'.opened = h.opened /\ h'.told = h.told /\ h'.txn = h.txn
      /\ (h'.heard <=> b) /\ (h.desynced => h'.desynced) /\ h'.req = h.req
  BY <1>5, <1>6 DEF Kept
<1>9. ~loose' => /\ ~loose
                 /\ h'.answer = "no" /\ ~h'.desynced /\ ~h'.recovering => h'.heard
  BY <1>2, <1>8 DEF Loosened
<1>10. ~a.stale =>
         /\ out = <<>> /\ in' = <<>> /\ Len(in') = 0 /\ ~h.heard
         /\ a.kind = h.req.kind /\ a.read = h.req.read /\ a.error # "async"
  <2> SUFFICES ASSUME ~a.stale
               PROVE  /\ out = <<>> /\ in' = <<>> /\ Len(in') = 0 /\ ~h.heard
                      /\ a.kind = h.req.kind /\ a.read = h.req.read /\ a.error # "async"
    OBVIOUS
  <2>1. 1 \in 1 .. Len(in) /\ in[1] = a
    BY <1>3
  <2>2. /\ 1 = Len(in) /\ out = <<>> /\ ~h.heard
        /\ a.kind = h.req.kind /\ a.read = h.req.read /\ a.error # "async"
    BY <1>1, <2>1 DEF Wire, Own
  <2>3. Len(in') = 0 /\ in' \in Seq(Frames)
    BY <1>1, <1>2, <1>3, <2>2, HeadTailProperties DEF LinkOK
  <2> QED
    BY <2>2, <2>3, EmptySeq
<1>11. h'.heard => Quiet' /\ \A i \in 1 .. Len(in') : in'[i].stale
  <2>1. CASE h.heard
    <3>1. Quiet /\ \A i \in 1 .. Len(in) : in[i].stale
      BY <1>1, <2>1 DEF Wire, Own
    <3>2. \A i \in 1 .. Len(in') : i + 1 \in 1 .. Len(in) /\ in'[i] = in[i + 1]
      BY <1>3
    <3> QED
      BY <1>2, <3>1, <3>2 DEF Quiet, Sound
  <2>2. CASE ~a.stale
    BY <1>2, <1>10, <2>2 DEF Quiet
  <2> QED
    BY <1>8, <2>1, <2>2
<1>12. Quiet' => InStatus' /\ OutStatus' /\ out' = <<>>
  <2>1. out' = <<>> => Len(out') = 0
    OBVIOUS
  <2> QED
    BY <2>1 DEF Quiet, InStatus, OutStatus
<1>13. h.pc \notin {"idle", "session", "opening", "drain", "drained"}
  BY <1>1 DEF Waits
<1>14. \A i \in 1 .. Len(in') : i + 1 \in 1 .. Len(in) /\ in'[i] = in[i + 1]
  BY <1>3
<1>15. 1 \in 1 .. Len(in) /\ in[1] = a
  BY <1>3
<1>16. ~loose /\ h'.answer = "ok" /\ h.req.kind # "status" => ~a.stale
  <2> SUFFICES ASSUME ~loose, h'.answer = "ok", h.req.kind # "status" PROVE ~a.stale
    OBVIOUS
  <2>1. Sound(a) /\ a.kind # "status"
    BY <1>6
  <2>2. h.pc \in {"configure", "hiz", "resync_config"} \cup Releasing \cup Transferring
    BY <1>1 DEF Shape, ReqFits, Waits, Releasing, Transferring
  <2>3. h.mode \in InUse \/ h.pc \in RecoverySteps \/ (h.pc \in {"configure", "hiz"} /\ h.mode = "unknown")
    <3>1. h.mode \in {"unknown", "SPI", "I2C"}
      BY <1>1 DEF ModeSuits, IsOpen, HostType, Modes
    <3> QED
      BY <1>1, <2>2, <3>1 DEF ModeSuits, RecoverySteps, InUse
  <2>4. CASE h.mode \in InUse \/ h.pc \in RecoverySteps
    BY <1>1, <1>13, <1>15, <2>1, <2>4 DEF Wire, FirmWire
  <2>5. CASE h.pc \in {"configure", "hiz"} /\ h.mode = "unknown"
    BY <1>1, <1>15, <2>1, <2>5 DEF Wire, OpeningWire, InStaleStatus
  <2> QED
    BY <2>3, <2>4, <2>5
<1>17. Wire'
  <2>1. Own(h)'
    <3> SUFFICES ASSUME h'.answer = "wait" PROVE Own(h)'
      BY DEF Own
    <3>1. \A i \in 1 .. Len(out) : i < Len(out) => out[i].stale
      BY <1>1 DEF Wire, Own
    <3>2. out # <<>> =>
            /\ out[Len(out)] = [h.req EXCEPT !.garbled = out[Len(out)].garbled]
            /\ ~h'.heard /\ \A i \in 1 .. Len(in') : in'[i].stale
      BY <1>1, <1>8, <1>10, <1>14 DEF Wire, Own
    <3>3. \A i \in 1 .. Len(in') : ~in'[i].stale =>
            /\ i = Len(in') /\ out = <<>> /\ ~h'.heard
            /\ in'[i].kind = h.req.kind /\ in'[i].read = h.req.read /\ in'[i].error # "async"
      <4> SUFFICES ASSUME NEW i \in 1 .. Len(in'), ~in'[i].stale
                   PROVE  /\ i = Len(in') /\ out = <<>> /\ ~h'.heard
                          /\ in'[i].kind = h.req.kind /\ in'[i].read = h.req.read
                          /\ in'[i].error # "async"
        OBVIOUS
      <4>1. a.stale
        BY <1>10
      <4>2. /\ i + 1 = Len(in) /\ out = <<>> /\ ~h.heard
            /\ in[i + 1].kind = h.req.kind /\ in[i + 1].read = h.req.read
            /\ in[i + 1].error # "async"
        BY <1>1, <1>14 DEF Wire, Own
      <4> QED
        BY <1>3, <1>8, <1>14, <4>1, <4>2
    <3> QED
      BY <1>2, <1>8, <1>11, <3>1, <3>2, <3>3 DEF Own
  <2>2. ~loose' => FirmWire(h)'
    <3> SUFFICES ASSUME ~loose', h.mode \in InUse \/ h.pc \in RecoverySteps PROVE FirmWire(h)'
      BY <1>8 DEF FirmWire
    <3>1. Len(out) <= 1 /\ \A i \in 1 .. Len(in) : Sound(in[i]) => ~in[i].stale
      BY <1>1, <1>9, <1>13 DEF Wire, FirmWire
    <3>2. \A i \in 1 .. Len(in') : Sound(in'[i]) => ~in'[i].stale
      BY <1>14, <3>1
    <3>3. h'.answer = "ok" => Quiet'
      BY <1>6, <1>8, <1>11, <1>15, <3>1
    <3>4. h'.answer = "no" /\ ~h'.desynced /\ ~h'.recovering => Quiet'
      BY <1>9, <1>11
    <3> QED
      BY <1>2, <1>6, <1>8, <1>13, <3>1, <3>2, <3>3, <3>4 DEF FirmWire
  <2>3. ~loose' => OpeningWire(h)'
    <3> SUFFICES ASSUME ~loose' PROVE OpeningWire(h)'
      OBVIOUS
    <3>1. OpeningWire(h) /\ Shape(h)
      BY <1>1, <1>9 DEF Wire
    <3>2. (OutOrdered' <=> OutOrdered) /\ (OutStatus' <=> OutStatus)
          /\ (OutStaleStatus' <=> OutStaleStatus)
      BY <1>2 DEF OutOrdered, OutStatus, OutStaleStatus
    <3>3. InStatus => InStatus'
      BY <1>14 DEF InStatus, Sound
    <3>4. InStaleStatus => InStaleStatus'
      BY <1>14 DEF InStaleStatus, Sound
    <3>5. InOrdered => InOrdered'
      <4> SUFFICES ASSUME InOrdered, NEW i \in 1 .. Len(in'), NEW j \in 1 .. Len(in'), i < j,
                          Sound(in'[i]), in'[i].kind = "status", Sound(in'[j])
                   PROVE  in'[j].kind = "status"
        BY DEF InOrdered, Sound
      <4>1. i + 1 \in 1 .. Len(in) /\ j + 1 \in 1 .. Len(in) /\ i + 1 < j + 1
        BY <1>14
      <4> QED
        BY <1>14, <4>1 DEF InOrdered
    <3>6. Ordered => Ordered'
      BY <1>14, <3>2, <3>5 DEF Ordered, Sound
    <3>7. h.pc = "probe" /\ h'.answer = "ok" => InStatus' /\ OutStatus'
      <4> SUFFICES ASSUME h.pc = "probe", h'.answer = "ok" PROVE InStatus' /\ OutStatus'
        OBVIOUS
      <4>1. Ordered /\ Sound(a) /\ a.kind = "status"
        BY <1>1, <1>6, <3>1 DEF OpeningWire, Shape, ReqFits
      <4>2. OutStatus
        BY <1>15, <4>1 DEF Ordered
      <4>3. InStatus'
        <5> SUFFICES ASSUME NEW i \in 1 .. Len(in'), Sound(in'[i]) PROVE in'[i].kind = "status"
          BY DEF InStatus, Sound
        <5>1. i + 1 \in 1 .. Len(in) /\ 1 < i + 1 /\ in'[i] = in[i + 1]
          BY <1>14
        <5> QED
          BY <1>15, <4>1, <5>1 DEF Ordered, InOrdered
      <4> QED
        BY <3>2, <4>2, <4>3
    <3>8. h.pc \in {"configure", "hiz"} /\ h'.answer = "ok" => Quiet'
      <4>1. h.pc \in {"configure", "hiz"} => h.req.kind = "config"
        BY <1>1 DEF Shape, ReqFits, HiZ, Config, Status
      <4> QED
        BY <1>8, <1>9, <1>11, <1>16, <4>1
    <3>9. h.pc = "configure" /\ h'.answer = "no" /\ ~h'.desynced => Quiet'
      <4>1. h.pc = "configure" => ~h'.recovering
        BY <1>1, <1>8 DEF ModeSuits, Recovery
      <4> QED
        BY <1>9, <1>11, <4>1
    <3>10. h.pc = "full" => InStatus' /\ OutStatus'
      BY <3>1, <3>2, <3>3 DEF OpeningWire
    <3>11. h.pc = "probe" => Ordered'
      BY <1>1, <3>1, <3>6 DEF OpeningWire
    <3>12. h.pc \in {"configure", "hiz"} /\ h.mode = "unknown" => InStaleStatus' /\ OutStaleStatus'
      BY <1>1, <3>1, <3>2, <3>4 DEF OpeningWire
    <3>13. h.pc \in {"probe", "hiz"} \/ h.mode = "closed" => OutOrdered'
      BY <3>1, <3>2 DEF OpeningWire
    <3> QED
      BY <1>6, <1>8, <1>12, <1>13, <3>7, <3>8, <3>9, <3>10, <3>11, <3>12, <3>13 DEF OpeningWire
  <2>4. ~loose' => ~fooled'
    BY <1>1, <1>2, <1>6, <1>9, <1>16 DEF Wire
  <2> QED
    BY <1>1, <1>2, <2>1, <2>2, <2>3, <2>4 DEF Wire
<1>18. Target'
  <2>1. Wanted' = Wanted
    BY <1>2 DEF Wanted
  <2>2. \A c : Holds(c)' <=> Holds(c)
    BY <1>2 DEF Holds
  <2>3. Done(h)' <=> Done(h)
    BY <1>2, <1>8 DEF Done
  <2>4. ~loose' => Granted(h)'
    <3> SUFFICES ASSUME ~loose' PROVE Granted(h)'
      OBVIOUS
    <3>1. \A i \in 1 .. Len(in) : ~in[i].stale /\ Sound(in[i]) => Done(h)
      BY <1>1, <1>9 DEF Target, Granted
    <3>2. \A i \in 1 .. Len(in') : ~in'[i].stale /\ Sound(in'[i]) => Done(h)
      BY <1>14, <3>1
    <3>3. h'.answer = "ok" => Done(h)
      <4>1. CASE h.req.kind = "config"
        BY <1>6, <1>9, <1>15, <1>16, <3>1, <4>1
      <4>2. CASE h.req.kind # "config"
        BY <4>2 DEF Done
      <4> QED
        BY <4>1, <4>2
    <3> QED
      BY <1>2, <2>3, <3>2, <3>3 DEF Granted, Sound
  <2>5. ~loose' => SettingsHold(h)'
    BY <1>1, <1>2, <1>8, <1>9, <2>1, <2>2 DEF Target, SettingsHold
  <2>6. Synced(h)' => Synced(h)
    BY <1>2, <1>8 DEF Synced
  <2>7. ~loose' => SelectHolds(h)'
    <3> SUFFICES ASSUME ~loose', Synced(h)' PROVE SelectHolds(h)'
      BY DEF SelectHolds
    <3>1. /\ out # <<>> \/ h.heard => (dev.cs <=> h.cs)
          /\ \A i \in 1 .. Len(in) : ~in[i].stale =>
               /\ in[i].error \in {"outer", "inner"} => (dev.cs <=> h.cs)
               /\ in[i].error = "none" => (dev.cs <=> SelectedAfter(h))
      BY <1>1, <1>9, <2>6 DEF Target, SelectHolds
    <3>2. SelectedAfter(h)' = SelectedAfter(h)
      BY <1>8 DEF SelectedAfter
    <3>3. ~a.stale =>
            /\ a.error \in {"outer", "inner"} => (dev.cs <=> h.cs)
            /\ a.error = "none" => (dev.cs <=> SelectedAfter(h))
      BY <1>15, <3>1
    <3>4. a.error \in {"none", "outer", "inner", "malformed", "async"}
      BY <1>3 DEF Frames
    <3>5. ~h'.desynced /\ ~h'.recovering /\ h.mode = "SPI"
      BY <1>8 DEF Synced
    <3>6. h'.answer = "ok" => (dev.cs <=> SelectedAfter(h))
      <4> SUFFICES ASSUME h'.answer = "ok" PROVE dev.cs <=> SelectedAfter(h)
        OBVIOUS
      <4>1. Sound(a) /\ ~loose /\ h.answer = "wait"
        BY <1>1, <1>6, <1>9
      <4>2. ~a.stale
        BY <1>1, <1>13, <1>15, <3>5, <4>1 DEF Wire, FirmWire, InUse
      <4> QED
        BY <3>3, <4>1, <4>2 DEF Sound
    <3>7. h'.answer = "no" => (dev.cs <=> h.cs)
      <4> SUFFICES ASSUME h'.answer = "no" PROVE dev.cs <=> h.cs
        OBVIOUS
      <4>1. h.heard \/ ~a.stale
        BY <1>8, <1>9, <3>5
      <4>2. ~a.stale => a.error \in {"outer", "inner"}
        BY <1>6, <1>10, <3>4, <3>5 DEF Sound
      <4> QED
        BY <3>1, <3>3, <4>1, <4>2
    <3>8. h'.answer = "wait" /\ h'.heard => (dev.cs <=> h.cs)
      <4> SUFFICES ASSUME h'.answer = "wait", h'.heard PROVE dev.cs <=> h.cs
        OBVIOUS
      <4>1. ~a.stale => a.error = "outer"
        BY <1>6, <1>10
      <4> QED
        BY <1>8, <3>1, <3>3, <4>1
    <3>9. \A i \in 1 .. Len(in') : ~in'[i].stale =>
            /\ in'[i].error \in {"outer", "inner"} => (dev.cs <=> h.cs)
            /\ in'[i].error = "none" => (dev.cs <=> SelectedAfter(h))
      BY <1>14, <3>1
    <3> QED
      BY <1>2, <1>6, <1>8, <3>1, <3>2, <3>6, <3>7, <3>8, <3>9 DEF SelectHolds
  <2>8. ~loose' /\ ~cut' => FrameHolds' /\ TransactionHolds(h)' /\ ~mixed'
    BY <1>1, <1>2, <1>8, <1>9, <1>13, <2>6 DEF Target, FrameHolds, TransactionHolds
  <2> QED
    BY <1>1, <1>2, <2>4, <2>5, <2>7, <2>8 DEF Target
<1> QED
  BY <1>7, <1>17, <1>18 DEF LinkInv

-----------------------------------------------------------------------------
(***************************************************************************)
(* The device and the line.                                                *)
(***************************************************************************)
\* What a request that is carried out makes of the device.
LEMMA ExecutedLink ==
  ASSUME OthersOK, ~dev.cs => dev.frame = {}, NEW r \in Requests, Understood(dev, r)
  PROVE  /\ ~Executed(dev, r).cs => Executed(dev, r).frame = {}
         /\ r.kind = "config" => /\ Executed(dev, r).bus = r.bus
                                 /\ Executed(dev, r).power = r.power /\ ~Executed(dev, r).cs
         /\ r.kind # "config" => /\ Executed(dev, r).bus = dev.bus
                                 /\ Executed(dev, r).power = dev.power
         /\ r.kind = "status" => (Executed(dev, r).cs <=> dev.cs)
         /\ r.kind = "data" /\ r.stop => ~Executed(dev, r).cs
         /\ r.kind = "data" /\ ~r.stop => (Executed(dev, r).cs <=> dev.cs \/ r.start)
         /\ Executed(dev, r).frame \subseteq dev.frame \cup Owners(r)
         /\ Framed(dev, r) \subseteq dev.frame \cup Owners(r)
         /\ ~r.garbled
<1> DEFINE d == dev
           f == Framed(d, r)
           e == Executed(d, r)
<1>1. /\ d = [bus |-> d.bus, power |-> d.power, cs |-> d.cs, frame |-> d.frame]
      /\ d.cs \in BOOLEAN
  BY DEF OthersOK
<1>2. r.kind \in {"status", "config", "data"} /\ r.stop \in BOOLEAN /\ r.start \in BOOLEAN
  BY DEF Requests, Kinds
<1>3. f \subseteq d.frame \cup Owners(r) /\ (~(d.cs \/ r.start) => f = d.frame)
  BY DEF Framed
<1>4. ~r.garbled
  BY DEF Understood
<1>5. ~d.cs => d.frame = {}
  OBVIOUS
<1> HIDE DEF d, f
<1>6. CASE r.kind = "status"
  <2>1. e = d
    BY <1>6 DEF Executed
  <2> QED
    BY <1>3, <1>4, <1>5, <1>6, <2>1 DEF d, f
<1>7. CASE r.kind = "config"
  <2>1. e = [bus |-> r.bus, power |-> r.power, cs |-> FALSE, frame |-> {}]
    BY <1>7 DEF Executed
  <2>2. e.bus = r.bus /\ e.power = r.power /\ e.cs = FALSE /\ e.frame = {}
    BY <2>1
  <2> HIDE DEF e
  <2> QED
    BY <1>3, <1>4, <1>7, <2>2 DEF d, f, e
<1>8. CASE r.kind = "data" /\ r.stop
  <2>1. e = [d EXCEPT !.cs = FALSE, !.frame = {}]
    BY <1>8 DEF Executed
  <2>2. e.bus = d.bus /\ e.power = d.power /\ e.cs = FALSE /\ e.frame = {}
    BY <1>1, <2>1
  <2> HIDE DEF e
  <2> QED
    BY <1>3, <1>4, <1>8, <2>2 DEF d, f, e
<1>9. CASE r.kind = "data" /\ ~r.stop
  <2> DEFINE c == (d.cs \/ r.start)
  <2>1. e = [d EXCEPT !.cs = c, !.frame = f]
    BY <1>9 DEF Executed, f
  <2> HIDE DEF e
  <2>2. e.bus = d.bus /\ e.power = d.power /\ (e.cs <=> c) /\ e.frame = f
    BY <1>1, <2>1
  <2> QED
    BY <1>3, <1>4, <1>5, <1>9, <2>2 DEF d, f, e
<1> QED
  BY <1>2, <1>6, <1>7, <1>8, <1>9

\* The line after a request was taken from it: what was behind it has moved up, and
\* what has arrived last, if anything has, is the answer to it.
LEMMA ServedMoves ==
  ASSUME LinkOK, out # <<>>, NEW e \in {"lost", "none", "outer", "inner", "malformed"},
         out' = Tail(out),
         in' = in \o (IF e = "lost" THEN <<>> ELSE <<Answer(Head(out), e)>>)
  PROVE  /\ Head(out) \in Requests /\ Head(out) = out[1] /\ 1 \in 1 .. Len(out)
         /\ Len(out') = Len(out) - 1 /\ Len(out) \in Nat /\ Len(out) > 0
         /\ out' # <<>> => Len(out) > 1
         /\ \A i \in 1 .. Len(out') : i + 1 \in 1 .. Len(out) /\ out'[i] = out[i + 1]
         /\ Len(in') \in Nat /\ Len(in) \in Nat
         /\ \A i \in 1 .. Len(in') :
              \/ i \in 1 .. Len(in) /\ in'[i] = in[i]
              \/ /\ i = Len(in) + 1 /\ i = Len(in') /\ e # "lost" /\ in'[i].error = e
                 /\ in'[i].kind = Head(out).kind /\ in'[i].stale = Head(out).stale
                 /\ in'[i].read = Head(out).read
<1> DEFINE r == Head(out)
           a == Answer(r, e)
<1>1. out \in Seq(Requests) /\ in \in Seq(Frames)
  BY DEF LinkOK
<1>2. /\ r \in Requests /\ r = out[1] /\ Len(out) \in Nat /\ Len(out) > 0
      /\ Len(Tail(out)) = Len(out) - 1 /\ Tail(out) \in Seq(Requests)
      /\ \A i \in 1 .. Len(Tail(out)) : Tail(out)[i] = out[i + 1]
  BY <1>1, HeadTailProperties, EmptySeq
<1>3. out' # <<>> => Len(out') > 0
  BY <1>2, EmptySeq
<1>4. /\ Head(out) \in Requests /\ Head(out) = out[1] /\ 1 \in 1 .. Len(out)
      /\ Len(out') = Len(out) - 1 /\ Len(out) \in Nat /\ Len(out) > 0
      /\ out' # <<>> => Len(out) > 1
      /\ \A i \in 1 .. Len(out') : i + 1 \in 1 .. Len(out) /\ out'[i] = out[i + 1]
  BY <1>2, <1>3
<1> HIDE DEF r
<1>5. CASE e = "lost"
  <2>1. in' = in \o <<>>
    BY <1>5
  <2>2. in' = in
    BY <1>1, <2>1, ConcatEmptySeq
  <2>3. Len(in') \in Nat /\ Len(in) \in Nat 
        /\ \A i \in 1 .. Len(in') : i \in 1 .. Len(in) /\ in'[i] = in[i]
    BY <1>1, <2>2
  <2> QED
    BY <1>4, <2>3
<1>6. CASE e # "lost"
  <2>1. a \in Frames /\ a.kind = r.kind /\ a.stale = r.stale /\ a.error = e /\ a.read = r.read
    <3>1. a \in Frames
      BY <1>2, <1>6, AnswerFits
    <3> QED
      BY <3>1 DEF Answer
  <2>2. in' = in \o <<a>>
    BY <1>6 DEF r
  <2> HIDE DEF a
  <2>3. /\ Len(in') = Len(in) + 1 /\ Len(in) \in Nat
        /\ \A i \in 1 .. Len(in) : in'[i] = in[i]
        /\ in'[Len(in) + 1] = a
    BY <1>1, <2>1, <2>2
  <2>4. \A i \in 1 .. Len(in') :
          \/ i \in 1 .. Len(in) /\ in'[i] = in[i]
          \/ /\ i = Len(in) + 1 /\ i = Len(in') /\ e # "lost" /\ in'[i].error = e
             /\ in'[i].kind = r.kind /\ in'[i].stale = r.stale /\ in'[i].read = r.read
    BY <1>6, <2>1, <2>3
  <2> QED
    BY <1>4, <2>3, <2>4 DEF r
<1> QED
  BY <1>5, <1>6

\* A request that is served, refused, or lost with its answer.
LEMMA ServedLink ==
  ASSUME IInv, LinkInv, NEW executed \in BOOLEAN,
         NEW e \in {"lost", "none", "outer", "inner", "malformed"},
         Served(executed, IF e = "lost" THEN <<>> ELSE <<Answer(Head(out), e)>>),
         executed => Understood(dev, Head(out)),
         e = "none" => executed, e \in {"outer", "inner"} => ~executed
  PROVE  LinkInv'
<1> DEFINE r == Head(out)
<1>1. /\ h \in HostType /\ LinkOK /\ OthersOK /\ Common /\ Wire /\ Target /\ Shape(h)
      /\ ModeSuits(h, h.pc)
  BY FromHere
<1>2. /\ out # <<>> /\ out' = Tail(out)
      /\ in' = in \o (IF e = "lost" THEN <<>> ELSE <<Answer(Head(out), e)>>)
      /\ dev' = (IF executed THEN Executed(dev, r) ELSE dev)
      /\ (mixed' <=> mixed \/ (executed /\ Cardinality(Framed(dev, r)) > 1))
      /\ UNCHANGED <<h, menu, half, dead, fooled, cut, loose>>
  BY DEF Served
<1>3. /\ r \in Requests /\ r = out[1] /\ 1 \in 1 .. Len(out)
      /\ Len(out') = Len(out) - 1 /\ Len(out) \in Nat /\ Len(out) > 0
      /\ out' # <<>> => Len(out) > 1
      /\ \A i \in 1 .. Len(out') : i + 1 \in 1 .. Len(out) /\ out'[i] = out[i + 1]
      /\ Len(in') \in Nat /\ Len(in) \in Nat
      /\ \A i \in 1 .. Len(in') :
           \/ i \in 1 .. Len(in) /\ in'[i] = in[i]
           \/ /\ i = Len(in) + 1 /\ i = Len(in') /\ e # "lost" /\ in'[i].error = e
              /\ in'[i].kind = r.kind /\ in'[i].stale = r.stale /\ in'[i].read = r.read
  <2>1. LinkOK /\ out # <<>> /\ out' = Tail(out)
    BY <1>1, <1>2
  <2>2. in' = in \o (IF e = "lost" THEN <<>> ELSE <<Answer(Head(out), e)>>)
    BY <1>2
  <2> QED
    BY <2>1, <2>2, ServedMoves, Zenon
<1>4. ~dead
  BY <1>1, <1>2 DEF Common
<1>5. executed =>
        /\ ~dev'.cs => dev'.frame = {}
        /\ r.kind = "config" => dev'.bus = r.bus /\ dev'.power = r.power /\ ~dev'.cs
        /\ r.kind # "config" => dev'.bus = dev.bus /\ dev'.power = dev.power
        /\ r.kind = "status" => (dev'.cs <=> dev.cs)
        /\ r.kind = "data" /\ r.stop => ~dev'.cs
        /\ r.kind = "data" /\ ~r.stop => (dev'.cs <=> dev.cs \/ r.start)
        /\ dev'.frame \subseteq dev.frame \cup Owners(r)
        /\ Framed(dev, r) \subseteq dev.frame \cup Owners(r)
        /\ ~r.garbled
  <2> SUFFICES ASSUME executed
               PROVE  /\ ~dev'.cs => dev'.frame = {}
                      /\ r.kind = "config" => dev'.bus = r.bus /\ dev'.power = r.power /\ ~dev'.cs
                      /\ r.kind # "config" => dev'.bus = dev.bus /\ dev'.power = dev.power
                      /\ r.kind = "status" => (dev'.cs <=> dev.cs)
                      /\ r.kind = "data" /\ r.stop => ~dev'.cs
                      /\ r.kind = "data" /\ ~r.stop => (dev'.cs <=> dev.cs \/ r.start)
                      /\ dev'.frame \subseteq dev.frame \cup Owners(r)
                      /\ Framed(dev, r) \subseteq dev.frame \cup Owners(r)
                      /\ ~r.garbled
    OBVIOUS
  <2>1. dev' = Executed(dev, r) /\ Understood(dev, r) /\ (~dev.cs => dev.frame = {})
    BY <1>1, <1>2 DEF Common
  <2> HIDE DEF r
  <2> QED
    BY <1>1, <1>3, <2>1, ExecutedLink
<1> HIDE DEF r
<1>6. ~executed => dev' = dev
  BY <1>2
<1>7. h.answer = "wait" =>
        /\ ~h.heard /\ (\A i \in 1 .. Len(in) : in[i].stale)
        /\ out[Len(out)] = [h.req EXCEPT !.garbled = out[Len(out)].garbled]
        /\ \A i \in 1 .. Len(out) : i < Len(out) => out[i].stale
  BY <1>1, <1>2 DEF Wire, Own
\* The request of the exchange, when it is the one that is served.
<1>8. h.answer = "wait" /\ Len(out) = 1 =>
        /\ r.kind = h.req.kind /\ r.read = h.req.read /\ ~r.stale /\ r.bus = h.req.bus
        /\ r.power = h.req.power /\ r.stop = h.req.stop /\ r.start = h.req.start
  <2> SUFFICES ASSUME h.answer = "wait", Len(out) = 1
               PROVE  /\ r.kind = h.req.kind /\ r.read = h.req.read /\ ~r.stale
                      /\ r.bus = h.req.bus /\ r.power = h.req.power
                      /\ r.stop = h.req.stop /\ r.start = h.req.start
    OBVIOUS
  <2>1. r = [h.req EXCEPT !.garbled = r.garbled] /\ h.req \in Requests
    BY <1>1, <1>3, <1>7 DEF HostType
  <2>2. ~h.req.stale
    BY <1>1 DEF Shape, ReqFits
  <2> QED
    BY <2>1, <2>2 DEF Requests
<1>9. ~r.stale /\ h.answer = "wait" => Len(out) = 1
  BY <1>3, <1>7
<1>10. ~Quiet
  BY <1>2 DEF Quiet
<1>11. Shape(h)'
  BY <1>1, <1>2, ShapeCarries
<1>12. Wire'
  <2>1. Own(h)'
    <3> SUFFICES ASSUME h.answer = "wait" PROVE Own(h)'
      BY <1>2 DEF Own
    <3>1. \A i \in 1 .. Len(out') : i < Len(out') => out'[i].stale
      BY <1>3, <1>7
    <3>2. out' # <<>> =>
            /\ out'[Len(out')] = [h.req EXCEPT !.garbled = out'[Len(out')].garbled]
            /\ \A i \in 1 .. Len(in') : in'[i].stale
      <4> SUFFICES ASSUME out' # <<>>
                   PROVE  /\ out'[Len(out')] = [h.req EXCEPT !.garbled = out'[Len(out')].garbled]
                          /\ \A i \in 1 .. Len(in') : in'[i].stale
        OBVIOUS
      <4>1. Len(out) > 1 /\ Len(out') \in 1 .. Len(out') /\ out'[Len(out')] = out[Len(out)]
        <5> DEFINE n == Len(out)
                   m == Len(out')
        <5>1. n \in Nat /\ n > 1 /\ m = n - 1
          BY <1>3
        <5>4. \A i \in 1 .. m : out'[i] = out[i + 1]
          BY <1>3, Zenon
        <5> HIDE DEF n, m
        <5>2. n > 1 /\ m \in 1 .. m /\ m + 1 = n
          BY <5>1
        <5>3. out'[m] = out[n]
          BY <5>2, <5>4
        <5> QED
          BY <5>2, <5>3 DEF n, m
      <4>2. r.stale
        BY <1>9, <4>1
      <4> QED
        BY <1>3, <1>7, <4>1, <4>2
    <3>3. \A i \in 1 .. Len(in') : ~in'[i].stale =>
            /\ i = Len(in') /\ out' = <<>>
            /\ in'[i].kind = h.req.kind /\ in'[i].read = h.req.read /\ in'[i].error # "async"
      <4> SUFFICES ASSUME NEW i \in 1 .. Len(in'), ~in'[i].stale
                   PROVE  /\ i = Len(in') /\ out' = <<>>
                          /\ in'[i].kind = h.req.kind /\ in'[i].read = h.req.read
                          /\ in'[i].error # "async"
        OBVIOUS
      <4>1. i = Len(in') /\ in'[i].error = e /\ in'[i].kind = r.kind /\ in'[i].read = r.read
            /\ ~r.stale
        BY <1>3, <1>7
      <4>2. Len(out) = 1
        BY <1>9, <4>1
      <4> QED
        BY <1>3, <1>8, <4>1, <4>2
    <3> QED
      BY <1>2, <1>7, <3>1, <3>2, <3>3 DEF Own
  <2>2. ~loose => FirmWire(h)'
    <3> SUFFICES ASSUME ~loose, (h.mode \in InUse \/ h.pc \in RecoverySteps), h.pc # "drain"
                 PROVE  FirmWire(h)'
      BY <1>2 DEF FirmWire
    <3>1. /\ Len(out) <= 1 /\ h.answer # "ok" /\ h.pc # "drained"
          /\ ~(h.answer \in {"none", "no"} /\ ~h.desynced /\ ~h.recovering)
      BY <1>1, <1>10 DEF Wire, FirmWire
    <3>2. h.answer = "wait" => \A i \in 1 .. Len(in') : Sound(in'[i]) => ~in'[i].stale
      <4> SUFFICES ASSUME h.answer = "wait", NEW i \in 1 .. Len(in'), Sound(in'[i])
                   PROVE  ~in'[i].stale
        OBVIOUS
      <4>1. CASE i \in 1 .. Len(in) /\ in'[i] = in[i]
        BY <1>1, <4>1 DEF Wire, FirmWire
      <4>2. CASE in'[i].stale = r.stale
        BY <1>3, <1>8, <3>1, <4>2
      <4> QED
        BY <1>3, <4>1, <4>2
    <3> QED
      BY <1>2, <1>3, <3>1, <3>2 DEF FirmWire, Sound
  <2>3. ~loose => OpeningWire(h)'
    <3> SUFFICES ASSUME ~loose PROVE OpeningWire(h)'
      OBVIOUS
    <3>1. OpeningWire(h)
      BY <1>1 DEF Wire
    \* What arrives answers a request that reached the device as it was sent.
    <3>2. ASSUME NEW i \in 1 .. Len(in'), Sound(in'[i])
          PROVE  \/ i \in 1 .. Len(in) /\ in'[i] = in[i]
                 \/ /\ i = Len(in) + 1 /\ in'[i].kind = r.kind /\ in'[i].stale = r.stale
                    /\ ~out[1].garbled /\ r = out[1]
      BY <1>3, <1>5, <3>2 DEF Sound
    <3>3. OutStatus => OutStatus'
      BY <1>3 DEF OutStatus
    <3>4. InStatus /\ OutStatus => InStatus'
      <4> SUFFICES ASSUME InStatus, OutStatus, NEW i \in 1 .. Len(in'), Sound(in'[i])
                   PROVE  in'[i].kind = "status"
        BY DEF InStatus, Sound
      <4> QED
        BY <1>3, <3>2 DEF InStatus, OutStatus
    <3>5. OutStaleStatus => OutStaleStatus'
      BY <1>3 DEF OutStaleStatus
    <3>6. InStaleStatus /\ OutStaleStatus => InStaleStatus'
      <4> SUFFICES ASSUME InStaleStatus, OutStaleStatus,
                          NEW i \in 1 .. Len(in'), Sound(in'[i]), in'[i].stale
                   PROVE  in'[i].kind = "status"
        BY DEF InStaleStatus, Sound
      <4> QED
        BY <1>3, <3>2 DEF InStaleStatus, OutStaleStatus
    <3>7. OutOrdered => OutOrdered'
      <4> SUFFICES ASSUME OutOrdered, NEW i \in 1 .. Len(out'), NEW j \in 1 .. Len(out'), i < j,
                          ~out'[i].garbled, out'[i].kind = "status", ~out'[j].garbled
                   PROVE  out'[j].kind = "status"
        BY DEF OutOrdered
      <4>1. i + 1 \in 1 .. Len(out) /\ j + 1 \in 1 .. Len(out) /\ i + 1 < j + 1
        BY <1>3
      <4> QED
        BY <1>3, <4>1 DEF OutOrdered
    <3>8. Ordered => InOrdered'
      <4> SUFFICES ASSUME Ordered, NEW i \in 1 .. Len(in'), NEW j \in 1 .. Len(in'), i < j,
                          Sound(in'[i]), in'[i].kind = "status", Sound(in'[j])
                   PROVE  in'[j].kind = "status"
        BY DEF InOrdered, Sound
      <4>1. i \in 1 .. Len(in) /\ in'[i] = in[i]
        BY <1>3
      <4>2. OutStatus
        BY <4>1 DEF Ordered
      <4>3. CASE j \in 1 .. Len(in) /\ in'[j] = in[j]
        BY <4>1, <4>3 DEF Ordered, InOrdered
      <4>4. CASE in'[j].kind = r.kind /\ ~out[1].garbled /\ r = out[1]
        BY <1>3, <4>2, <4>4 DEF OutStatus
      <4> QED
        BY <3>2, <4>3, <4>4
    <3>9. Ordered => Ordered'
      <4> SUFFICES ASSUME Ordered, NEW i \in 1 .. Len(in'), Sound(in'[i]), in'[i].kind = "status"
                   PROVE  OutStatus'
        BY <3>7, <3>8 DEF Ordered, Sound
      <4>1. CASE i \in 1 .. Len(in) /\ in'[i] = in[i]
        BY <3>3, <4>1 DEF Ordered
      <4>2. CASE in'[i].kind = r.kind /\ ~out[1].garbled /\ r = out[1]
        <5> SUFFICES ASSUME NEW j \in 1 .. Len(out'), ~out'[j].garbled
                     PROVE  out'[j].kind = "status"
          BY DEF OutStatus
        <5>1. j + 1 \in 1 .. Len(out) /\ 1 < j + 1 /\ out'[j] = out[j + 1]
          BY <1>3
        <5> QED
          BY <1>3, <4>2, <5>1 DEF Ordered, OutOrdered
      <4> QED
        BY <3>2, <4>1, <4>2
    <3>10. h.mode = "unknown" /\ ~h.desynced
             /\ (h.pc \in {"idle", "session"} \/ (h.pc = "configure" /\ h.answer = "no")) =>
               InStatus' /\ OutStatus' /\ half'
      BY <1>2, <3>1, <3>3, <3>4 DEF OpeningWire
    <3> QED
      BY <1>2, <1>10, <3>1, <3>3, <3>4, <3>5, <3>6, <3>7, <3>9, <3>10 DEF OpeningWire
  <2> QED
    BY <1>1, <1>2, <1>4, <2>1, <2>2, <2>3 DEF Wire
<1>13. Target'
  <2>1. Wanted' = Wanted
    BY <1>2 DEF Wanted
  <2>2. ~dev'.cs => dev'.frame = {}
    BY <1>1, <1>5, <1>6 DEF Common
  <2>3. ~loose => Granted(h)'
    <3> SUFFICES ASSUME ~loose, h.req.kind = "config" PROVE Granted(h)'
      BY <1>2 DEF Granted, Done
    <3>1. h.answer # "ok"
      <4> SUFFICES ASSUME h.answer = "ok" PROVE FALSE
        OBVIOUS
      <4>1. ModeSuits(h, h.pc) /\ h.pc \in {"configure", "hiz", "resync_config"}
        <5>1. h.pc \in Waits
          BY <1>1, FromHere
        <5> QED
          BY <1>1, <5>1 DEF Shape, ReqFits, Waits, Releasing, Transferring
      <4>2. h.mode \in InUse \cup {"unknown"}
        BY <1>1, <4>1 DEF ModeSuits, IsOpen, HostType, Modes, InUse, Waits
      <4> QED
        BY <1>1, <1>10, <4>1, <4>2 DEF Wire, FirmWire, OpeningWire, ModeSuits, RecoverySteps
    <3>2. ASSUME h.answer = "wait", NEW i \in 1 .. Len(in'), ~in'[i].stale, Sound(in'[i])
          PROVE  Done(h)'
      <4>1. in'[i].error = e /\ in'[i].stale = r.stale
        BY <1>3, <1>7, <3>2
      <4>2. executed /\ Len(out) = 1
        BY <1>9, <3>2, <4>1 DEF Sound
      <4> QED
        BY <1>2, <1>5, <1>8, <3>2, <4>2 DEF Done
    <3> QED
      BY <1>2, <3>1, <3>2 DEF Granted, Sound
  <2>4. ASSUME NEW c, Holds(c) PROVE Holds(c)'
    <3>1. executed /\ r.kind = "config" => r.bus = c.bus /\ r.power = c.power
      BY <1>3, <1>5, <2>4 DEF Holds
    <3>2. dev'.bus = c.bus /\ dev'.power = c.power
      BY <1>5, <1>6, <2>4, <3>1 DEF Holds
    <3>3. \A i \in 1 .. Len(out') :
            ~out'[i].garbled /\ out'[i].kind = "config" => out'[i].bus = c.bus /\ out'[i].power = c.power
      BY <1>3, <2>4 DEF Holds
    <3> QED
      BY <3>2, <3>3 DEF Holds
  <2>5. ~loose => SettingsHold(h)'
    <3> SUFFICES ASSUME ~loose PROVE SettingsHold(h)'
      OBVIOUS
    <3>1. SettingsHold(h) /\ h.told # "off"
      BY <1>1, <1>2 DEF Target, SettingsHold
    <3>2. h.applied # None /\ h.pc # "hiz" => Holds(h.applied)'
      <4>1. PICK w : w = h.applied
        OBVIOUS
      <4> QED
        BY <1>2, <1>4, <2>4, <3>1, <4>1 DEF SettingsHold
    <3>3. h.opened /\ h.pc # "idle" => Holds(Wanted)'
      <4>1. PICK w : w = Wanted
        OBVIOUS
      <4> QED
        BY <1>4, <2>1, <2>4, <3>1, <4>1 DEF SettingsHold
    <3> QED
      BY <1>2, <3>1, <3>2, <3>3 DEF SettingsHold
  <2>6. ~loose => SelectHolds(h)'
    <3> SUFFICES ASSUME ~loose, Synced(h) PROVE SelectHolds(h)'
      BY <1>2 DEF SelectHolds, Synced
    <3>1. h.answer = "wait" /\ Len(out) = 1
      <4>1. h.pc # "drain" /\ h.mode \in InUse
        BY <1>1 DEF ModeSuits, Recovery, Synced, InUse
      <4>2. h.answer \in {"none", "wait", "ok", "no"}
        BY <1>1 DEF HostType, Results
      <4> QED
        BY <1>1, <1>3, <1>10, <4>1, <4>2 DEF Wire, FirmWire, Synced
    <3>2. out' = <<>> /\ ~h.heard
      BY <1>3, <1>7, <3>1
    <3>3. dev.cs <=> h.cs
      BY <1>1, <1>2, <3>1 DEF Target, SelectHolds
    <3>4. executed => (dev'.cs <=> SelectedAfter(h))
      <4> SUFFICES ASSUME executed PROVE dev'.cs <=> SelectedAfter(h)
        OBVIOUS
      <4>1. r.kind \in {"status", "config", "data"}
        BY <1>3 DEF Requests, Kinds
      <4>2. CASE r.kind = "status"
        <5>1. SelectedAfter(h) = h.cs
          BY <1>8, <3>1, <4>2 DEF SelectedAfter
        <5> QED
          BY <1>5, <3>3, <4>2, <5>1
      <4>3. CASE r.kind = "config"
        <5>1. SelectedAfter(h) = FALSE
          BY <1>8, <3>1, <4>3 DEF SelectedAfter
        <5> QED
          BY <1>5, <4>3, <5>1
      <4>4. CASE r.kind = "data"
        <5>1. SelectedAfter(h) = ~h.req.stop
          BY <1>8, <3>1, <4>4 DEF SelectedAfter
        <5>2. h.pc \in Waits /\ h.req.kind = "data" /\ ReqFits(h, h.pc, h.req)
          BY <1>1, <1>8, <3>1, <4>4, FromHere DEF Shape
        <5>3. h.req.stop \/ h.cs \/ h.req.start
          BY <5>2 DEF ReqFits, Waits, Releasing, Transferring, Config, HiZ, Status
        <5> QED
          BY <1>5, <1>8, <3>1, <3>3, <4>4, <5>1, <5>3
      <4> QED
        BY <4>1, <4>2, <4>3, <4>4
    <3>5. ASSUME NEW i \in 1 .. Len(in'), ~in'[i].stale
          PROVE  /\ in'[i].error \in {"outer", "inner"} => (dev'.cs <=> h.cs)
                 /\ in'[i].error = "none" => (dev'.cs <=> SelectedAfter(h))
      <4>1. in'[i].error = e
        BY <1>3, <1>7, <3>1, <3>5
      <4> QED
        BY <1>6, <3>3, <3>4, <4>1
    <3>6. SelectedAfter(h)' = SelectedAfter(h)
      BY <1>2 DEF SelectedAfter
    <3> QED
      BY <1>2, <3>1, <3>2, <3>5, <3>6 DEF SelectHolds
  <2>7. ~loose /\ ~cut => FrameHolds' /\ TransactionHolds(h)' /\ ~mixed'
    <3> SUFFICES ASSUME ~loose, ~cut PROVE FrameHolds' /\ TransactionHolds(h)' /\ ~mixed'
      OBVIOUS
    <3>1. PICK t \in 0 .. MaxTxns :
            /\ dev.frame \subseteq {t}
            /\ \A i \in 1 .. Len(out) : ~out[i].garbled => Owners(out[i]) \subseteq {t}
      BY <1>1 DEF Target, FrameHolds
    <3>2. executed => Owners(r) \subseteq {t}
      BY <1>3, <1>5, <3>1
    <3>3. dev'.frame \subseteq {t}
      BY <1>5, <1>6, <3>1, <3>2
    <3>4. FrameHolds'
      <4>1. \A i \in 1 .. Len(out') : ~out'[i].garbled => Owners(out'[i]) \subseteq {t}
        BY <1>3, <3>1
      <4> QED
        BY <3>3, <4>1 DEF FrameHolds
    <3>5. ~mixed'
      <4>1. executed => Framed(dev, r) \subseteq {t}
        BY <1>5, <3>1, <3>2
      <4>2. executed => Cardinality(Framed(dev, r)) \in {0, 1}
        <5>1. executed => Framed(dev, r) \in {{}, {t}}
          BY <4>1
        <5> QED
          BY <5>1, FS_EmptySet, FS_Singleton
      <4>3. executed => ~(Cardinality(Framed(dev, r)) > 1)
        BY <4>2
      <4> QED
        BY <1>1, <1>2, <4>3 DEF Target
    <3>6. TransactionHolds(h)'
      <4> DEFINE q == Synced(h) /\ h.opened /\ h.pc # "idle"
      <4>1. q => dev'.frame \subseteq {h.txn}
        <5> SUFFICES ASSUME q PROVE dev'.frame \subseteq {h.txn}
          OBVIOUS
        <5>1. dev.frame \subseteq {h.txn}
          BY <1>1 DEF Target, TransactionHolds
        <5>2. h.pc \in {"session", "release"} \cup Transferring /\ h.mode \in InUse /\ ~h.recovering
          BY <1>1, FromHere DEF SettingsSuit, Synced, InUse
        <5>3. h.answer = "wait" /\ Len(out) = 1
          <6>1. h.answer \in {"none", "wait", "ok", "no"}
            BY <1>1 DEF HostType, Results
          <6> QED
            BY <1>1, <1>3, <1>10, <5>2, <6>1 DEF Wire, FirmWire, Synced, Transferring
        <5>4. Owners(r) \subseteq {h.txn}
          <6>1. h.pc \in Releasing \cup Transferring
            BY <1>1, <5>2, <5>3, FromHere DEF Waits, Releasing, Transferring
          <6>2. Owners(h.req) \subseteq {h.txn}
            BY <1>1, <5>3, <6>1 DEF Shape, ReqFits
          <6>3. r = [h.req EXCEPT !.garbled = r.garbled] /\ h.req \in Requests
            BY <1>1, <1>3, <1>7, <5>3 DEF HostType
          <6>4. r.bytes = h.req.bytes /\ r.read = h.req.read /\ r.by = h.req.by
            BY <6>3 DEF Requests
          <6>5. Owners(r) = Owners(h.req)
            BY <6>4 DEF Owners
          <6> QED
            BY <6>2, <6>5
        <5> QED
          BY <1>5, <1>6, <5>1, <5>4
      <4>2. Synced(h)' <=> Synced(h)
        BY <1>2 DEF Synced
      <4> QED
        BY <1>1, <1>2, <4>1, <4>2 DEF Target, TransactionHolds
    <3> QED
      BY <3>4, <3>5, <3>6
  <2> QED
    BY <1>2, <1>4, <2>2, <2>3, <2>5, <2>6, <2>7 DEF Target
<1> QED
  BY <1>11, <1>12, <1>13 DEF LinkInv

\* The device serves what reaches it, and refuses what it cannot do.
LEMMA ServeLink ==
  ASSUME IInv, LinkInv, Serve
  PROVE  LinkInv'
<1> DEFINE r == Head(out)
           done == Understood(dev, r)
           e == IF done THEN "none" ELSE IF r.garbled THEN "outer" ELSE "inner"
<1>1. Served(done, <<Answer(r, e)>>)
  BY DEF Serve
<1>2. /\ e \in {"lost", "none", "outer", "inner", "malformed"} /\ e # "lost"
      /\ done \in BOOLEAN /\ (e = "none" => done) /\ (e \in {"outer", "inner"} => ~done)
  BY DEF Understood
<1> HIDE DEF e
<1>3. Served(done, IF e = "lost" THEN <<>> ELSE <<Answer(r, e)>>)
  BY <1>1, <1>2
<1> QED
  BY <1>2, <1>3, ServedLink

\* A request or its answer gets lost, damaged or refused.
LEMMA LinkFailsLink ==
  ASSUME IInv, LinkInv, LinkFails
  PROVE  LinkInv'
<1>1. /\ Understood(dev, Head(out))
      /\ \/ Served(FALSE, <<>>)
         \/ Served(TRUE, <<>>)
         \/ Served(TRUE, <<Answer(Head(out), "malformed")>>)
         \/ \E error \in {"outer", "inner"} : Served(FALSE, <<Answer(Head(out), error)>>)
  BY DEF LinkFails
<1>2. ASSUME NEW x \in BOOLEAN, Served(x, <<>>) PROVE LinkInv'
  <2>1. Served(x, IF "lost" = "lost" THEN <<>> ELSE <<Answer(Head(out), "lost")>>)
    BY <1>2
  <2> QED
    BY <1>1, <2>1, ServedLink
<1>3. ASSUME Served(TRUE, <<Answer(Head(out), "malformed")>>) PROVE LinkInv'
  <2>1. Served(TRUE, IF "malformed" = "lost" THEN <<>> ELSE <<Answer(Head(out), "malformed")>>)
    BY <1>3
  <2> QED
    BY <1>1, <2>1, ServedLink
<1>4. ASSUME NEW e \in {"outer", "inner"}, Served(FALSE, <<Answer(Head(out), e)>>) PROVE LinkInv'
  <2>1. Served(FALSE, IF e = "lost" THEN <<>> ELSE <<Answer(Head(out), e)>>)
    BY <1>4
  <2> QED
    BY <1>1, <2>1, ServedLink
<1> QED
  BY <1>1, <1>2, <1>3, <1>4

\* A frame nobody asked for is sound for nobody.
LEMMA StrayFrameLink ==
  ASSUME IInv, LinkInv, StrayFrame
  PROVE  LinkInv'
<1>1. Wire /\ Target /\ Shape(h) /\ Common
  BY FromHere
<1>2. UNCHANGED <<h, menu, dev, out, half, dead, fooled, mixed, cut, loose>>
  BY DEF StrayFrame, history
<1>3. /\ Len(in') = 1 /\ \A i \in 1 .. Len(in') : in'[i].stale /\ ~Sound(in'[i])
  <2>1. PICK error \in Strays : in' = <<Stray(error)>>
    BY DEF StrayFrame
  <2>2. error \in {"outer", "async"}
    BY BusPirate5Assumption
  <2>3. Stray(error).stale /\ Stray(error).error = error
    BY DEF Stray
  <2> QED
    BY <2>1, <2>2, <2>3 DEF Sound
<1>4. Shape(h)'
  BY <1>1, <1>2, ShapeCarries
<1>5. /\ (Quiet => Quiet') /\ (Ordered => Ordered') /\ InStatus' /\ InStaleStatus'
      /\ (OutStatus' <=> OutStatus) /\ (OutStaleStatus' <=> OutStaleStatus)
      /\ (OutOrdered' <=> OutOrdered)
  BY <1>2, <1>3
  DEF Quiet, Ordered, InStatus, InStaleStatus, InOrdered, OutStatus, OutStaleStatus, OutOrdered,
      Sound
<1>6. Wire'
  <2>1. Own(h)'
    BY <1>1, <1>2, <1>3, <1>5 DEF Wire, Own
  <2>2. ~loose => FirmWire(h)'
    BY <1>1, <1>2, <1>3, <1>5 DEF Wire, FirmWire, Sound
  <2>3. ~loose => OpeningWire(h)'
    BY <1>1, <1>2, <1>5 DEF Wire, OpeningWire
  <2> QED
    BY <1>1, <1>2, <2>1, <2>2, <2>3 DEF Wire
<1>7. Target'
  <2>1. Wanted' = Wanted /\ \A c : Holds(c)' <=> Holds(c)
    BY <1>2 DEF Wanted, Holds
  <2>2. ~loose => Granted(h)'
    BY <1>1, <1>2, <1>3 DEF Target, Granted, Done, Sound
  <2>3. ~loose => SettingsHold(h)'
    BY <1>1, <1>2, <2>1 DEF Target, SettingsHold
  <2>4. ~loose => SelectHolds(h)'
    <3>1. SelectedAfter(h)' = SelectedAfter(h) /\ (Synced(h)' <=> Synced(h))
      BY <1>2 DEF SelectedAfter, Synced
    <3> QED
      BY <1>1, <1>2, <1>3, <3>1 DEF Target, SelectHolds
  <2>5. ~loose /\ ~cut => FrameHolds' /\ TransactionHolds(h)' /\ ~mixed'
    BY <1>1, <1>2 DEF Target, FrameHolds, TransactionHolds, Synced
  <2> QED
    BY <1>1, <1>2, <2>2, <2>3, <2>4, <2>5 DEF Target
<1> QED
  BY <1>4, <1>6, <1>7 DEF LinkInv

\* The device is pulled out: nothing is under way, and the open port is dead.
LEMMA UnplugLink ==
  ASSUME IInv, LinkInv, Unplug
  PROVE  LinkInv'
<1>1. /\ h \in HostType /\ Wire /\ Target /\ Shape(h) /\ Common /\ ModeSuits(h, h.pc)
      /\ SettingsSuit(h, h.pc) /\ (h.pc \in Waits <=> h.answer # "none")
  BY FromHere
<1>2. /\ UNCHANGED <<h, menu, fooled, mixed, cut, loose>>
      /\ dev' = Off /\ out' = <<>> /\ in' = <<>> /\ ~half' /\ (dead' <=> IsOpen(h))
  BY DEF Unplug, history
<1>3. Shape(h)'
  BY <1>1, <1>2, ShapeCarries
<1>4. Len(out') = 0 /\ Len(in') = 0
  BY <1>2
<1>5. /\ Quiet' /\ Ordered' /\ InStatus' /\ OutStatus' /\ InStaleStatus' /\ OutStaleStatus'
      /\ OutOrdered'
  BY <1>2, <1>4
  DEF Quiet, Ordered, InStatus, InStaleStatus, InOrdered, OutStatus, OutStaleStatus, OutOrdered
<1>6. dev'.bus = "HiZ" /\ ~dev'.power /\ ~dev'.cs /\ dev'.frame = {}
  BY <1>2 DEF Off
<1>7. /\ h.answer # "none" => dead'
      /\ h.mode \in InUse => dead'
      /\ h.applied # None => dead'
      /\ h.opened /\ h.pc # "idle" => dead'
  BY <1>1, <1>2 DEF ModeSuits, SettingsSuit, IsOpen, InUse
<1>8. Wire'
  BY <1>1, <1>2, <1>4, <1>5 DEF Wire, Own, FirmWire, OpeningWire
<1>9. Target'
  <2>1. Granted(h)'
    BY <1>2, <1>4, <1>7 DEF Granted
  <2>2. SettingsHold(h)'
    BY <1>2, <1>6, <1>7 DEF SettingsHold
  <2>3. ~Synced(h)'
    BY <1>2, <1>7 DEF Synced, InUse
  <2>4. FrameHolds'
    BY <1>4, <1>6, Bounds DEF FrameHolds
  <2>5. ~loose /\ ~cut => TransactionHolds(h)' /\ ~mixed'
    BY <1>1, <1>2, <2>3 DEF Target, TransactionHolds
  <2> QED
    BY <1>2, <1>6, <2>1, <2>2, <2>3, <2>4, <2>5 DEF Target, SelectHolds
<1> QED
  BY <1>3, <1>8, <1>9 DEF LinkInv

\* The settings change only between operations.
LEMMA ChangeMenuLink ==
  ASSUME IInv, LinkInv, ChangeMenu
  PROVE  LinkInv'
<1>1. Wire /\ Target /\ Shape(h) /\ h.pc = "idle" /\ h.answer = "none"
  BY FromHere DEF ChangeMenu, At
<1>2. UNCHANGED <<h, dev, out, in, half, dead, fooled, mixed, cut, loose>>
  BY DEF ChangeMenu, link, history
<1>3. Shape(h)'
  BY <1>1, <1>2 DEF Shape, Suits, ModeSuits, SettingsSuit, QueueSuits, IsOpen
<1>4. Wire'
  BY <1>1, <1>2
  DEF Wire, Own, FirmWire, OpeningWire, Quiet, Ordered, InStatus, OutStatus, InStaleStatus,
      OutStaleStatus, InOrdered, OutOrdered, Sound
<1>5. Target'
  <2>1. \A c : Holds(c)' <=> Holds(c)
    BY <1>2 DEF Holds
  <2>2. ~loose => Granted(h)' /\ SettingsHold(h)' /\ SelectHolds(h)'
    BY <1>1, <1>2, <2>1 DEF Target, Granted, Done, Sound, SettingsHold, SelectHolds, SelectedAfter,
       Synced
  <2>3. ~loose /\ ~cut => FrameHolds' /\ TransactionHolds(h)' /\ ~mixed'
    BY <1>1, <1>2 DEF Target, FrameHolds, TransactionHolds, Synced
  <2> QED
    BY <1>1, <1>2, <2>2, <2>3 DEF Target
<1> QED
  BY <1>3, <1>4, <1>5 DEF LinkInv

-----------------------------------------------------------------------------
(***************************************************************************)
(* The theorems.                                                           *)
(***************************************************************************)
\* The invariant holds before the first DevOpen.
LEMMA LinkInvInit == Init => LinkInv
<1> SUFFICES ASSUME Init PROVE LinkInv
  OBVIOUS
<1>1. /\ h.pc = "idle" /\ h.answer = "none" /\ h.mode = "closed" /\ ~h.recovering
      /\ h.applied = None /\ ~h.opened /\ h.told = "none" /\ h.pending = <<>>
      /\ h.stream = <<>> /\ h.call = NoCall
  BY DEF Init, Host0
<1>2. out = <<>> /\ in = <<>> /\ ~dead /\ ~fooled /\ ~mixed /\ dev.frame = {} /\ dev = Off
  BY DEF Init, Off
<1>3. Len(out) = 0 /\ Len(h.pending) = 0 /\ Len(h.stream) = 0
  BY <1>1, <1>2
<1>4. Shape(h)
  <2>1. ModeSuits(h, "idle")
    BY <1>1 DEF ModeSuits, Waits, Recovery, Connecting, Transferring, Releasing
  <2>2. SettingsSuit(h, "idle")
    BY <1>1 DEF SettingsSuit, InUse
  <2>3. QueueSuits(h, "idle")
    BY <1>1, <1>3 DEF QueueSuits, Transferring
  <2> QED
    BY <1>1, <2>1, <2>2, <2>3 DEF Shape, Suits
<1>5. Wire
  BY <1>1, <1>2, <1>3 DEF Wire, Own, FirmWire, OpeningWire, OutOrdered, InUse, RecoverySteps
<1>6. Target
  <2>1. FrameHolds
    BY <1>2, <1>3, Bounds DEF FrameHolds
  <2> QED
    BY <1>1, <1>2, <2>1 DEF Target, Granted, SettingsHold, SelectHolds, TransactionHolds, Synced
<1> QED
  BY <1>4, <1>5, <1>6 DEF LinkInv

\* Every step keeps it.
LEMMA LinkInvStep == IInv /\ LinkInv /\ [Next]_vars => LinkInv'
<1> SUFFICES ASSUME IInv, LinkInv, [Next]_vars PROVE LinkInv'
  OBVIOUS
<1>1. CASE UNCHANGED vars
  <2>1. Wire /\ Target /\ Shape(h)
    BY DEF LinkInv
  <2>2. UNCHANGED <<h, menu, dev, out, in, half, dead, fooled, mixed, cut, loose>>
    BY <1>1 DEF vars, link, history
  <2>3. Shape(h)'
    BY <2>1, <2>2, ShapeCarries
  <2>4. Wire'
    BY <2>1, <2>2
    DEF Wire, Own, FirmWire, OpeningWire, Quiet, Ordered, InStatus, OutStatus, InStaleStatus,
        OutStaleStatus, InOrdered, OutOrdered, Sound
  <2>5. Target'
    <3>1. Wanted' = Wanted /\ \A c : Holds(c)' <=> Holds(c)
      BY <2>2 DEF Wanted, Holds
    <3>2. ~loose => Granted(h)' /\ SettingsHold(h)' /\ SelectHolds(h)'
      BY <2>1, <2>2, <3>1 DEF Target, Granted, Done, Sound, SettingsHold, SelectHolds,
         SelectedAfter, Synced
    <3>3. ~loose /\ ~cut => FrameHolds' /\ TransactionHolds(h)' /\ ~mixed'
      BY <2>1, <2>2 DEF Target, FrameHolds, TransactionHolds, Synced
    <3> QED
      BY <2>1, <2>2, <3>2, <3>3 DEF Target
  <2> QED
    BY <2>3, <2>4, <2>5 DEF LinkInv
<1>2. CASE Host
  BY <1>2, DrainLink, ResyncStatusLink, ResyncAnsweredLink, ResyncConfiguredLink, ProbeLink,
     ProbedLink, FullLink, PingLink, FastReleaseLink, ConfiguredLink, DownReleaseLink,
     PoweredDownLink, PushedLink, AssertedLink, SlicedLink, TransferFailedLink, ReleasedLink
  DEF Host
<1>3. CASE Handlers
  BY <1>3, DevOpenLink, CommandLink, QueueLink, FinishLink, SPIDeinitLink, DevCloseLink,
     LeftOpenLink, DisconnectLink, ChangeMenuLink DEF Handlers
<1>4. CASE Receive \/ Timeout
  BY <1>4, ReceiveLink, TimeoutLink
<1>5. CASE Serve \/ LinkFails \/ StrayFrame \/ Unplug
  BY <1>5, ServeLink, LinkFailsLink, StrayFrameLink, UnplugLink
<1> QED
  BY <1>1, <1>2, <1>3, <1>4, <1>5 DEF Next

\* The invariant is inductive.
LEMMA LinkInductive == Spec => [](IInv /\ LinkInv)
<1>1. Init => LinkInv
  BY LinkInvInit
<1>2. IInv /\ LinkInv /\ [Next]_vars => LinkInv'
  BY LinkInvStep
<1>3. Spec => []IInv
  BY Inductive
<1> QED
  BY <1>1, <1>2, <1>3, PTL DEF Spec

\* Transact's staleErr and its discarded frames: whatever is lost, late or in excess,
\* no answer is taken for another request's, unless an error frame of another exchange
\* was taken for the answer before.
THEOREM BusPirate5Attributed == Spec => []Attributed
<1>1. IInv /\ LinkInv => Attributed
  BY DEF LinkInv, Wire, Attributed
<1> QED
  BY <1>1, LinkInductive, PTL

\* DevClose and SafePowerDown: what they report as off is off, with the same exception.
THEOREM BusPirate5OffMeansOff == Spec => []OffMeansOff
<1>1. IInv /\ LinkInv => OffMeansOff
  BY DEF LinkInv, Target, SettingsHold, OffMeansOff
<1> QED
  BY <1>1, LinkInductive, PTL

\* DevOpen: in a session it opened, the device has the mode and the supply that the
\* menu asks for, with the same exception.
THEOREM BusPirate5ConfiguredAsWanted == Spec => []ConfiguredAsWanted
<1>1. IInv /\ LinkInv => ConfiguredAsWanted
  <2> SUFFICES ASSUME LinkInv, h.pc = "session", h.opened, ~dead, ~loose
               PROVE  dev.bus = menu.bus /\ dev.power = menu.power
    BY DEF ConfiguredAsWanted
  <2>1. Holds(Wanted)
    BY DEF LinkInv, Target, SettingsHold
  <2> QED
    BY <2>1 DEF Holds, Wanted
<1> QED
  BY <1>1, LinkInductive, PTL

\* FCSAsserted: between two exchanges on a link that is in step the engine knows whether
\* the chip is selected, with the same exception.
THEOREM BusPirate5ChipSelectKnown == Spec => []ChipSelectKnown
<1>1. IInv /\ LinkInv => ChipSelectKnown
  <2> SUFFICES ASSUME IInv, LinkInv, h.answer = "none", h.pc \in {"idle", "session"},
                      h.mode = "SPI", ~h.desynced, ~dead, ~loose
               PROVE  h.cs <=> dev.cs
    BY DEF ChipSelectKnown
  <2>1. ModeSuits(h, h.pc) /\ Target
    BY FromHere
  <2>2. Synced(h)
    BY <2>1 DEF ModeSuits, Recovery, Synced
  <2> QED
    BY <2>1, <2>2 DEF Target, SelectHolds
<1> QED
  BY <1>1, LinkInductive, PTL

\* SPITransfer, SPIDropQueued and SPIReleaseCS: between two deselections the chip sees
\* the bytes of one transaction, unless a request was refused inside a transfer, and
\* with the same exception.
THEOREM BusPirate5Whole == Spec => []Whole
<1>1. IInv /\ LinkInv => Whole
  BY DEF LinkInv, Target, Whole
<1> QED
  BY <1>1, LinkInductive, PTL
=============================================================================
