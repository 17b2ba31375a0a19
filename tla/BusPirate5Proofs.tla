-------------------------- MODULE BusPirate5Proofs --------------------------
(***************************************************************************)
(* What is proved of BusPirate5 for every slice length, queue limit, menu  *)
(* and transaction, and for every number of failures: its type invariant,  *)
(* and that no request the engine sends is one the device must not get.    *)
(***************************************************************************)
EXTENDS BusPirate5, SequenceTheorems, TLAPS

(***************************************************************************)
(* The inductive invariant.  Placed: an exchange has an answer exactly     *)
(* where one is waited for, and Resync, Connect and SPIReleaseCS run on    *)
(* behalf of those that call them.  Numbered: who has something to send    *)
(* has a transaction to send it for.                                       *)
(***************************************************************************)
Recovery == {"drain", "drained", "resync_status", "resync_config"}
Connecting == {"opening", "probe", "full"}

SiteFits(p, site) ==
  /\ p \in Recovery => site \in {"open", "ping", "down"}
  /\ p \in Connecting => site \in {"open", "ping"}
  /\ p = "release" => site \in {"close", "deinit"}

Placed(g) ==
  /\ g.pc \in Waits <=> g.answer # "none"
  /\ g.answer = "wait" => g.skipped <= MaxSkipped
  /\ SiteFits(g.pc, g.site)

Numbered(g) ==
  g.call # NoCall \/ g.stream # <<>> \/ g.want > 0 \/ g.more > 0 => g.txn > 0

\* What EncodeData asserts of a request, and whose transaction it reads for.
Sendable(r) ==
  /\ r.read > 0 => r.by > 0
  /\ r.kind = "data" =>
       /\ r.read <= MaxRead /\ Len(r.bytes) <= MaxWrite
       /\ ~(r.start /\ r.read > 0 /\ r.bytes = <<>>)

Frames ==
  [kind : Kinds, stale : BOOLEAN, read : 0 .. MaxRead,
   error : {"none", "outer", "inner", "malformed", "async"}]

LinkOK ==
  /\ out \in Seq(Requests) /\ in \in Seq(Frames)
  /\ half \in BOOLEAN /\ dead \in BOOLEAN /\ faults \in 0 .. MaxFaults
  /\ \A i \in 1 .. Len(out) : Sendable(out[i])

OthersOK ==
  /\ menu \in Menus
  /\ dev \in [bus : Buses, power : BOOLEAN, cs : BOOLEAN, frame : SUBSET (1 .. MaxTxns)]
  /\ fooled \in BOOLEAN /\ mixed \in BOOLEAN /\ cut \in BOOLEAN /\ loose \in BOOLEAN

Fit(g) == g \in HostType /\ Placed(g) /\ Numbered(g)

HostOK == Fit(h)

IInv == HostOK /\ LinkOK /\ OthersOK

-----------------------------------------------------------------------------
(***************************************************************************)
(* Requests.                                                               *)
(***************************************************************************)
\* What is assumed of the bounds, one by one.
LEMMA Bounds ==
  /\ MaxWrite \in Nat /\ MaxWrite > 0 /\ MaxRead \in Nat /\ MaxRead > 0
  /\ QueueLimit \in Nat /\ QueueLimit > 0 /\ MaxSkipped \in Nat /\ MaxSkipped > 0
  /\ MaxTxns \in Nat /\ MaxFaults \in Nat
<1>1. /\ MaxWrite \in Nat \ {0} /\ MaxRead \in Nat \ {0} /\ QueueLimit \in Nat \ {0}
      /\ MaxSkipped \in Nat \ {0} /\ MaxTxns \in Nat /\ MaxFaults \in Nat
  BY BusPirate5Assumption
<1> QED
  BY <1>1

\* The packets the engine sends are well formed, and their numbers those of the
\* transaction they are part of.
LEMMA StatusFits == Status \in Requests /\ Sendable(Status)
<1>1. MaxRead \in Nat \ {0} /\ MaxTxns \in Nat
  BY BusPirate5Assumption
<1>2. <<>> \in Seq(1 .. MaxTxns)
  BY EmptySeq
<1> QED
  BY <1>1, <1>2 DEF Status, Requests, Sendable, Kinds, Buses

\* A configuration.
LEMMA ConfigFits ==
  ASSUME NEW c \in Configs
  PROVE  Config(c) \in Requests /\ Sendable(Config(c))
<1>1. /\ Config(c).kind = "config" /\ Config(c).read = 0
      /\ Config(c) = [Status EXCEPT !.kind = "config", !.bus = c.bus, !.power = c.power]
  BY DEF Config, Status
<1> QED
  BY <1>1, StatusFits DEF Requests, Sendable, Configs, Kinds

\* A data request.
LEMMA DataFits ==
  ASSUME NEW start \in BOOLEAN, NEW stop \in BOOLEAN, NEW bytes \in Seq(1 .. MaxTxns),
         NEW read \in 0 .. MaxRead, NEW by \in 0 .. MaxTxns,
         read > 0 => by > 0, Len(bytes) <= MaxWrite,
         ~(start /\ read > 0 /\ bytes = <<>>)
  PROVE  Data(start, stop, bytes, read, by) \in Requests
         /\ Sendable(Data(start, stop, bytes, read, by))
<1>1. Data(start, stop, bytes, read, by) =
        [Status EXCEPT !.kind = "data", !.start = start, !.stop = stop,
                       !.bytes = bytes, !.read = read, !.by = by]
  BY DEF Data
<1>2. MaxRead \in Nat
  BY BusPirate5Assumption
<1>3. Data(start, stop, bytes, read, by) \in Requests
  BY <1>1, StatusFits DEF Requests, Kinds
<1> QED
  BY <1>1, <1>2, <1>3 DEF Sendable, Status

\* The mode a device starts in, and that of a part whose settings are unknown.
LEMMA NoneFits == None \in Configs
  BY DEF None, Configs, Buses

\* The settings of the menu.
LEMMA MenuFits ==
  ASSUME OthersOK
  PROVE  /\ Wanted \in Configs /\ Wanted.bus \in {"SPI", "I2C"} /\ None \in Configs
         /\ menu.reset \in BOOLEAN
  BY BusPirate5Assumption DEF OthersOK, Wanted, None, Configs, MenuType, Buses

-----------------------------------------------------------------------------
(***************************************************************************)
(* What a request, a failed write, a local step, Resync and Connect do to  *)
(* an engine record g the action has already brought up to date.           *)
(***************************************************************************)
\* Marking what is under way as given up changes nothing else about it.
LEMMA OutdatedFits ==
  ASSUME NEW S, NEW s \in Seq(S), \A x \in S : [x EXCEPT !.stale = TRUE] \in S
  PROVE  /\ Outdated(s) \in Seq(S) /\ Len(Outdated(s)) = Len(s)
         /\ \A i \in 1 .. Len(s) : Outdated(s)[i] = [s[i] EXCEPT !.stale = TRUE]
<1>1. DOMAIN s = 1 .. Len(s) /\ Len(s) \in Nat /\ \A i \in 1 .. Len(s) : s[i] \in S
  BY LenProperties
<1>2. Outdated(s) = [i \in 1 .. Len(s) |-> [s[i] EXCEPT !.stale = TRUE]]
  BY <1>1 DEF Outdated
<1>3. \A i \in 1 .. Len(s) : [s[i] EXCEPT !.stale = TRUE] \in S
  BY <1>1
<1>4. Outdated(s) \in [1 .. Len(s) -> S]
  BY <1>2, <1>3
<1> QED
  BY <1>1, <1>2, <1>4

\* What Sent does to the two directions of the link.
LEMMA SentLink ==
  ASSUME LinkOK, NEW g, NEW p, NEW r \in Requests, Sent(g, p, r)
  PROVE  /\ in' \in Seq(Frames) /\ out' \in Seq(Requests)
         /\ Len(out') = Len(out) + 1
         /\ \A i \in 1 .. Len(out) : out'[i] = [out[i] EXCEPT !.stale = TRUE]
         /\ out'[Len(out) + 1] = [r EXCEPT !.garbled = half]
         /\ \E n \in 0 .. Len(in) :
              /\ Len(in') = Len(in) - n
              /\ \A i \in 1 .. Len(in') : in'[i] = [in[i + n] EXCEPT !.stale = TRUE]
<1>1. /\ \A x \in Requests : [x EXCEPT !.stale = TRUE] \in Requests
      /\ \A x \in Frames : [x EXCEPT !.stale = TRUE] \in Frames
  BY DEF Requests, Frames
<1>2. /\ in \in Seq(Frames) /\ out \in Seq(Requests) /\ Len(in) \in Nat /\ Len(out) \in Nat
      /\ half \in BOOLEAN
  BY DEF LinkOK
<1>3. PICK n \in 0 .. Len(in) : in' = Outdated(SubSeq(in, n + 1, Len(in)))
  BY DEF Sent
<1> DEFINE rest == SubSeq(in, n + 1, Len(in))
<1>4. /\ rest \in Seq(Frames) /\ Len(rest) = Len(in) - n
      /\ \A i \in 1 .. Len(in) - n : rest[i] = in[i + n]
  <2>1. \A i \in n + 1 .. Len(in) : in[i] \in Frames
    BY <1>2, ElementOfSeq
  <2> QED
    BY <1>2, <2>1, SubSeqProperties
<1>5. /\ in' \in Seq(Frames) /\ Len(in') = Len(in) - n
      /\ \A i \in 1 .. Len(in') : in'[i] = [in[i + n] EXCEPT !.stale = TRUE]
  <2> HIDE DEF rest
  <2>1. in' = Outdated(rest) /\ rest \in Seq(Frames)
    BY <1>3, <1>4 DEF rest
  <2>2. /\ Outdated(rest) \in Seq(Frames) /\ Len(Outdated(rest)) = Len(rest)
        /\ \A i \in 1 .. Len(rest) : Outdated(rest)[i] = [rest[i] EXCEPT !.stale = TRUE]
    BY <1>1, <2>1, OutdatedFits
  <2> QED
    BY <1>4, <2>1, <2>2
<1>6. /\ Outdated(out) \in Seq(Requests) /\ Len(Outdated(out)) = Len(out)
      /\ \A i \in 1 .. Len(out) : Outdated(out)[i] = [out[i] EXCEPT !.stale = TRUE]
  BY <1>1, <1>2, OutdatedFits
<1>7. out' = Append(Outdated(out), [r EXCEPT !.garbled = half])
      /\ [r EXCEPT !.garbled = half] \in Requests
  BY <1>2 DEF Sent, Requests
<1>8. /\ out' \in Seq(Requests) /\ Len(out') = Len(out) + 1
      /\ \A i \in 1 .. Len(out) : out'[i] = [out[i] EXCEPT !.stale = TRUE]
      /\ out'[Len(out) + 1] = [r EXCEPT !.garbled = half]
  <2> DEFINE o == Outdated(out)
             e == [r EXCEPT !.garbled = half]
  <2>1. o \in Seq(Requests) /\ Len(o) = Len(out) /\ e \in Requests /\ out' = Append(o, e)
    BY <1>6, <1>7
  <2> HIDE DEF o, e
  <2>2. /\ Append(o, e) \in Seq(Requests) /\ Len(Append(o, e)) = Len(o) + 1
        /\ \A i \in 1 .. Len(o) : Append(o, e)[i] = o[i]
        /\ Append(o, e)[Len(o) + 1] = e
    BY <2>1, AppendProperties
  <2> QED
    BY <1>6, <2>1, <2>2 DEF o, e
<1> QED
  BY <1>5, <1>8

\* What the fields of the record may hold.
LEMMA Names ==
  /\ \A p \in Waits : p \in Places
  /\ {"idle", "session", "drain", "drained", "opening"} \subseteq Places
  /\ {"none", "wait", "ok", "no"} = Results
  /\ {"none", "open", "ping", "down", "close", "deinit"} = Sites
  /\ {"closed", "unknown", "HiZ", "SPI", "I2C"} = Modes
  /\ {"none", "off", "maybe", "unreachable"} = Words
  /\ Waits \cap {"idle", "session", "drain", "drained", "opening"} = {}
  /\ <<>> \in Seq(1 .. MaxTxns) /\ NoCall \in Transactions \cup {NoCall}
  BY EmptySeq DEF Places, Waits, Results, Sites, Modes, Words

\* The result Transact returns, and where the code goes on.
LEMMA TurnFits ==
  ASSUME NEW g \in HostType
  PROVE   \A p \in Places, y \in Results :
              [g EXCEPT !.pc = p, !.answer = y] \in HostType
<1>1. ASSUME NEW p \in Places, NEW y \in Results
      PROVE  [g EXCEPT !.pc = p, !.answer = y] \in HostType
  BY <1>1, Zenon DEF HostType
<1> QED
  BY <1>1, Zenon

\* The state of the engine.
LEMMA ModeFits ==
  ASSUME NEW g \in HostType
  PROVE  /\ \A m \in Modes :
              [g EXCEPT !.mode = m] \in HostType
         /\ \A q \in Seq(1 .. MaxTxns) :
              [g EXCEPT !.pending = q] \in HostType
         /\ \A c \in BOOLEAN :
              [g EXCEPT !.cs = c] \in HostType
         /\ \A q \in Seq(1 .. MaxTxns), c \in BOOLEAN :
              [g EXCEPT !.pending = q, !.cs = c] \in HostType
         /\ \A d \in BOOLEAN, q \in Seq(1 .. MaxTxns) :
              [g EXCEPT !.desynced = d, !.pending = q] \in HostType
         /\ \A r \in BOOLEAN, d \in BOOLEAN :
              [g EXCEPT !.recovering = r, !.desynced = d] \in HostType
         /\ \A m \in Modes, q \in Seq(1 .. MaxTxns), c \in BOOLEAN, d \in BOOLEAN, r \in BOOLEAN :
              [g EXCEPT !.mode = m, !.pending = q, !.cs = c, !.desynced = d, !.recovering = r] \in HostType
<1>1. ASSUME NEW m \in Modes
      PROVE  [g EXCEPT !.mode = m] \in HostType
  BY <1>1, Zenon DEF HostType
<1>2. ASSUME NEW q \in Seq(1 .. MaxTxns)
      PROVE  [g EXCEPT !.pending = q] \in HostType
  BY <1>2, Zenon DEF HostType
<1>3. ASSUME NEW c \in BOOLEAN
      PROVE  [g EXCEPT !.cs = c] \in HostType
  BY <1>3, Zenon DEF HostType
<1>4. ASSUME NEW q \in Seq(1 .. MaxTxns), NEW c \in BOOLEAN
      PROVE  [g EXCEPT !.pending = q, !.cs = c] \in HostType
  BY <1>4, Zenon DEF HostType
<1>5. ASSUME NEW d \in BOOLEAN, NEW q \in Seq(1 .. MaxTxns)
      PROVE  [g EXCEPT !.desynced = d, !.pending = q] \in HostType
  BY <1>5, Zenon DEF HostType
<1>6. ASSUME NEW r \in BOOLEAN, NEW d \in BOOLEAN
      PROVE  [g EXCEPT !.recovering = r, !.desynced = d] \in HostType
  BY <1>6, Zenon DEF HostType
<1>7. ASSUME NEW m \in Modes, NEW q \in Seq(1 .. MaxTxns), NEW c \in BOOLEAN, NEW d \in BOOLEAN, NEW r \in BOOLEAN
      PROVE  [g EXCEPT !.mode = m, !.pending = q, !.cs = c, !.desynced = d, !.recovering = r] \in HostType
  BY <1>7, Zenon DEF HostType
<1> QED
  BY <1>1, <1>2, <1>3, <1>4, <1>5, <1>6, <1>7, Zenon

\* The settings the device was given, and those a mode was entered with.
LEMMA SettingsFit ==
  ASSUME NEW g \in HostType
  PROVE  /\ \A a \in Configs :
              [g EXCEPT !.applied = a] \in HostType
         /\ \A a \in Configs, s \in Sites :
              [g EXCEPT !.applied = a, !.site = s] \in HostType
         /\ \A s \in Sites, r \in BOOLEAN :
              [g EXCEPT !.site = s, !.recovering = r] \in HostType
         /\ \A a \in Configs, q \in Seq(1 .. MaxTxns) :
              [g EXCEPT !.applied = a, !.pending = q] \in HostType
         /\ \A m \in Modes, a \in Configs, c \in BOOLEAN :
              [g EXCEPT !.mode = m, !.conf = a, !.cs = c] \in HostType
         /\ \A a \in Configs, o \in BOOLEAN, t \in Words :
              [g EXCEPT !.applied = a, !.opened = o, !.told = t] \in HostType
<1>1. ASSUME NEW a \in Configs
      PROVE  [g EXCEPT !.applied = a] \in HostType
  BY <1>1, Zenon DEF HostType
<1>2. ASSUME NEW a \in Configs, NEW s \in Sites
      PROVE  [g EXCEPT !.applied = a, !.site = s] \in HostType
  BY <1>2, Zenon DEF HostType
<1>3. ASSUME NEW s \in Sites, NEW r \in BOOLEAN
      PROVE  [g EXCEPT !.site = s, !.recovering = r] \in HostType
  BY <1>3, Zenon DEF HostType
<1>4. ASSUME NEW a \in Configs, NEW q \in Seq(1 .. MaxTxns)
      PROVE  [g EXCEPT !.applied = a, !.pending = q] \in HostType
  BY <1>4, Zenon DEF HostType
<1>5. ASSUME NEW m \in Modes, NEW a \in Configs, NEW c \in BOOLEAN
      PROVE  [g EXCEPT !.mode = m, !.conf = a, !.cs = c] \in HostType
  BY <1>5, Zenon DEF HostType
<1>6. ASSUME NEW a \in Configs, NEW o \in BOOLEAN, NEW t \in Words
      PROVE  [g EXCEPT !.applied = a, !.opened = o, !.told = t] \in HostType
  BY <1>6, Zenon DEF HostType
<1> QED
  BY <1>1, <1>2, <1>3, <1>4, <1>5, <1>6, Zenon

\* What a call of a handler begins with.
LEMMA CallFits ==
  ASSUME NEW g \in HostType
  PROVE  /\ \A o \in BOOLEAN :
              [g EXCEPT !.opened = o] \in HostType
         /\ \A c \in BOOLEAN :
              [g EXCEPT !.tried = c] \in HostType
         /\ \A o \in BOOLEAN, t \in Words, c \in BOOLEAN :
              [g EXCEPT !.opened = o, !.told = t, !.tried = c] \in HostType
         /\ \A o \in BOOLEAN, t \in Words, c \in BOOLEAN, n \in 0 .. MaxFaults, d \in BOOLEAN :
              [g EXCEPT !.opened = o, !.told = t, !.tried = c, !.since = n, !.sound = d] \in HostType
         /\ \A k \in Transactions \cup {NoCall}, s \in Sites :
              [g EXCEPT !.call = k, !.site = s] \in HostType
         /\ \A k \in Transactions \cup {NoCall}, o \in BOOLEAN, s \in Sites :
              [g EXCEPT !.call = k, !.opened = o, !.site = s] \in HostType
         /\ \A x \in 0 .. MaxTxns, k \in Transactions \cup {NoCall} :
              [g EXCEPT !.txn = x, !.call = k] \in HostType
<1>1. ASSUME NEW o \in BOOLEAN
      PROVE  [g EXCEPT !.opened = o] \in HostType
  BY <1>1, Zenon DEF HostType
<1>2. ASSUME NEW c \in BOOLEAN
      PROVE  [g EXCEPT !.tried = c] \in HostType
  BY <1>2, Zenon DEF HostType
<1>3. ASSUME NEW o \in BOOLEAN, NEW t \in Words, NEW c \in BOOLEAN
      PROVE  [g EXCEPT !.opened = o, !.told = t, !.tried = c] \in HostType
  BY <1>3, Zenon DEF HostType
<1>4. ASSUME NEW o \in BOOLEAN, NEW t \in Words, NEW c \in BOOLEAN, NEW n \in 0 .. MaxFaults, NEW d \in BOOLEAN
      PROVE  [g EXCEPT !.opened = o, !.told = t, !.tried = c, !.since = n, !.sound = d] \in HostType
  BY <1>4, Zenon DEF HostType
<1>5. ASSUME NEW k \in Transactions \cup {NoCall}, NEW s \in Sites
      PROVE  [g EXCEPT !.call = k, !.site = s] \in HostType
  BY <1>5, Zenon DEF HostType
<1>6. ASSUME NEW k \in Transactions \cup {NoCall}, NEW o \in BOOLEAN, NEW s \in Sites
      PROVE  [g EXCEPT !.call = k, !.opened = o, !.site = s] \in HostType
  BY <1>6, Zenon DEF HostType
<1>7. ASSUME NEW x \in 0 .. MaxTxns, NEW k \in Transactions \cup {NoCall}
      PROVE  [g EXCEPT !.txn = x, !.call = k] \in HostType
  BY <1>7, Zenon DEF HostType
<1> QED
  BY <1>1, <1>2, <1>3, <1>4, <1>5, <1>6, <1>7, Zenon

\* What a transfer still has to do.
LEMMA TransferFits ==
  ASSUME NEW g \in HostType
  PROVE  /\ \A k \in Transactions \cup {NoCall} :
              [g EXCEPT !.call = k] \in HostType
         /\ \A b \in Seq(1 .. MaxTxns), q \in Seq(1 .. MaxTxns) :
              [g EXCEPT !.stream = b, !.pending = q] \in HostType
         /\ \A w \in Nat, e \in BOOLEAN, v \in Nat :
              [g EXCEPT !.want = w, !.stop = e, !.more = v] \in HostType
         /\ \A w \in Nat, e \in BOOLEAN, v \in Nat, k \in Transactions \cup {NoCall} :
              [g EXCEPT !.want = w, !.stop = e, !.more = v, !.call = k] \in HostType
         /\ \A c \in BOOLEAN, b \in Seq(1 .. MaxTxns) :
              [g EXCEPT !.cs = c, !.stream = b] \in HostType
         /\ \A c \in BOOLEAN, b \in Seq(1 .. MaxTxns), w \in Nat :
              [g EXCEPT !.cs = c, !.stream = b, !.want = w] \in HostType
         /\ \A q \in Seq(1 .. MaxTxns), v \in Nat :
              [g EXCEPT !.pending = q, !.more = v] \in HostType
         /\ \A a \in Configs, b \in Seq(1 .. MaxTxns), w \in Nat, v \in Nat :
              [g EXCEPT !.applied = a, !.stream = b, !.want = w, !.more = v] \in HostType
<1>1. ASSUME NEW k \in Transactions \cup {NoCall}
      PROVE  [g EXCEPT !.call = k] \in HostType
  BY <1>1, Zenon DEF HostType
<1>2. ASSUME NEW b \in Seq(1 .. MaxTxns), NEW q \in Seq(1 .. MaxTxns)
      PROVE  [g EXCEPT !.stream = b, !.pending = q] \in HostType
  BY <1>2, Zenon DEF HostType
<1>3. ASSUME NEW w \in Nat, NEW e \in BOOLEAN, NEW v \in Nat
      PROVE  [g EXCEPT !.want = w, !.stop = e, !.more = v] \in HostType
  BY <1>3, Zenon DEF HostType
<1>4. ASSUME NEW w \in Nat, NEW e \in BOOLEAN, NEW v \in Nat, NEW k \in Transactions \cup {NoCall}
      PROVE  [g EXCEPT !.want = w, !.stop = e, !.more = v, !.call = k] \in HostType
  BY <1>4, Zenon DEF HostType
<1>5. ASSUME NEW c \in BOOLEAN, NEW b \in Seq(1 .. MaxTxns)
      PROVE  [g EXCEPT !.cs = c, !.stream = b] \in HostType
  BY <1>5, Zenon DEF HostType
<1>6. ASSUME NEW c \in BOOLEAN, NEW b \in Seq(1 .. MaxTxns), NEW w \in Nat
      PROVE  [g EXCEPT !.cs = c, !.stream = b, !.want = w] \in HostType
  BY <1>6, Zenon DEF HostType
<1>7. ASSUME NEW q \in Seq(1 .. MaxTxns), NEW v \in Nat
      PROVE  [g EXCEPT !.pending = q, !.more = v] \in HostType
  BY <1>7, Zenon DEF HostType
<1>8. ASSUME NEW a \in Configs, NEW b \in Seq(1 .. MaxTxns), NEW w \in Nat, NEW v \in Nat
      PROVE  [g EXCEPT !.applied = a, !.stream = b, !.want = w, !.more = v] \in HostType
  BY <1>8, Zenon DEF HostType
<1> QED
  BY <1>1, <1>2, <1>3, <1>4, <1>5, <1>6, <1>7, <1>8, Zenon

\* What Transact notes of a request and of a frame.
LEMMA WaitFits ==
  ASSUME NEW g \in HostType
  PROVE  /\ \A y \in Results :
              [g EXCEPT !.answer = y] \in HostType
         /\ \A c \in BOOLEAN :
              [g EXCEPT !.graced = c] \in HostType
         /\ \A c \in BOOLEAN :
              [g EXCEPT !.heard = c] \in HostType
         /\ \A z \in 0 .. MaxSkipped + 1 :
              [g EXCEPT !.skipped = z] \in HostType
         /\ \A p \in Places, y \in Results, c \in BOOLEAN, z \in 0 .. MaxSkipped + 1, R \in Requests, d \in BOOLEAN :
              [g EXCEPT !.pc = p, !.answer = y, !.graced = c, !.skipped = z, !.req = R, !.heard = d] \in HostType
<1>1. ASSUME NEW y \in Results
      PROVE  [g EXCEPT !.answer = y] \in HostType
  BY <1>1, Zenon DEF HostType
<1>2. ASSUME NEW c \in BOOLEAN
      PROVE  [g EXCEPT !.graced = c] \in HostType
  BY <1>2, Zenon DEF HostType
<1>3. ASSUME NEW c \in BOOLEAN
      PROVE  [g EXCEPT !.heard = c] \in HostType
  BY <1>3, Zenon DEF HostType
<1>4. ASSUME NEW z \in 0 .. MaxSkipped + 1
      PROVE  [g EXCEPT !.skipped = z] \in HostType
  BY <1>4, Zenon DEF HostType
<1>5. ASSUME NEW p \in Places, NEW y \in Results, NEW c \in BOOLEAN, NEW z \in 0 .. MaxSkipped + 1, NEW R \in Requests, NEW d \in BOOLEAN
      PROVE  [g EXCEPT !.pc = p, !.answer = y, !.graced = c, !.skipped = z, !.req = R, !.heard = d] \in HostType
  BY <1>5, Zenon DEF HostType
<1> QED
  BY <1>1, <1>2, <1>3, <1>4, <1>5, Zenon

\* The engine's record while a result is handed on, or a request waited for.
LEMMA ReturnedFits ==
  ASSUME NEW g \in HostType, Numbered(g), NEW p, SiteFits(p, g.site),
         NEW result \in {"none", "no"},
         \/ p \in Waits /\ result = "no"
         \/ p \in {"idle", "session", "drain", "drained", "opening"} /\ result = "none"
  PROVE  Fit(Returned(g, p, result))
<1> DEFINE k == Returned(g, p, result)
<1>1. k = [g EXCEPT !.pc = p, !.answer = result]
  BY DEF Returned
<1>2. k \in HostType
  <2>1. p \in Places /\ result \in Results
    BY Names
  <2> QED
    BY <2>1, TurnFits, Zenon DEF Returned
<1>3. k.pc = p /\ k.answer = result /\ k.site = g.site
      /\ k.call = g.call /\ k.stream = g.stream /\ k.want = g.want /\ k.more = g.more /\ k.txn = g.txn
  BY <1>1 DEF HostType
<1>4. Placed(k)
  BY <1>3 DEF Placed, Waits
<1>5. Numbered(k)
  BY <1>3 DEF Numbered
<1> QED
  BY <1>2, <1>4, <1>5 DEF Fit

\* The record of a request that has just been sent.
LEMMA SentFits ==
  ASSUME NEW g \in HostType, Numbered(g), NEW p \in Waits, SiteFits(p, g.site),
         NEW r \in Requests
  PROVE  Fit([g EXCEPT !.pc = p, !.answer = "wait", !.graced = FALSE, !.skipped = 0,
                       !.req = r, !.heard = FALSE])
<1> DEFINE k == [g EXCEPT !.pc = p, !.answer = "wait", !.graced = FALSE, !.skipped = 0,
                          !.req = r, !.heard = FALSE]
<1>1. 0 \in 0 .. MaxSkipped + 1 /\ 0 <= MaxSkipped
  BY Bounds
<1>2. k \in HostType
  <2>1. p \in Places /\ "wait" \in Results /\ FALSE \in BOOLEAN
    BY Names
  <2> QED
    BY <1>1, <2>1, WaitFits, Zenon
<1>3. k.pc = p /\ k.answer = "wait" /\ k.site = g.site /\ k.skipped = 0
      /\ k.call = g.call /\ k.stream = g.stream /\ k.want = g.want /\ k.more = g.more /\ k.txn = g.txn
  BY DEF HostType
<1>4. Placed(k)
  BY <1>1, <1>3 DEF Placed, Waits
<1>5. Numbered(k)
  BY <1>3 DEF Numbered
<1> QED
  BY <1>2, <1>4, <1>5 DEF Fit

\* One more failure, or none.
LEMMA Counted ==
  ASSUME faults \in 0 .. MaxFaults, Fault \/ NoFault
  PROVE  faults' \in 0 .. MaxFaults
  BY Bounds DEF Fault, NoFault

\* A request that is asked for with a sound record leaves a sound state behind,
\* whatever becomes of it.
LEMMA AskFits ==
  ASSUME LinkOK, NEW g \in HostType, Numbered(g), NEW p \in Waits, SiteFits(p, g.site),
         NEW r \in Requests, Sendable(r), Ask(g, p, r)
  PROVE  HostOK' /\ LinkOK'
<1>1. CASE Gate(g) /\ h' = Returned(g, p, "no") /\ UNCHANGED link /\ NoFault
  <2>1. HostOK'
    BY <1>1, ReturnedFits DEF HostOK
  <2>2. LinkOK'
    BY <1>1 DEF link, NoFault, LinkOK
  <2> QED
    BY <2>1, <2>2
<1>2. CASE WriteFails(g, p)
  <2>1. HostOK'
    BY <1>2, ReturnedFits DEF HostOK, WriteFails
  <2>2. faults' \in 0 .. MaxFaults
    BY <1>2, Counted DEF WriteFails, LinkOK
  <2>3. out' = out /\ in' = in /\ dead' = dead /\ half' \in BOOLEAN
    BY <1>2 DEF WriteFails, LinkOK
  <2>4. LinkOK'
    BY <2>2, <2>3 DEF LinkOK
  <2> QED
    BY <2>1, <2>4
<1>3. CASE Sent(g, p, r)
  <2>1. HostOK'
    BY <1>3, SentFits DEF HostOK, Sent
  <2>2. Len(out) \in Nat
    BY LenProperties DEF LinkOK
  <2>3. /\ in' \in Seq(Frames) /\ out' \in Seq(Requests)
        /\ Len(out') = Len(out) + 1
        /\ \A i \in 1 .. Len(out) : out'[i] = [out[i] EXCEPT !.stale = TRUE]
        /\ out'[Len(out) + 1] = [r EXCEPT !.garbled = half]
    BY <1>3, SentLink, Zenon
  <2>4. /\ in' \in Seq(Frames) /\ out' \in Seq(Requests)
        /\ Len(out') = Len(out) + 1 /\ Len(out) \in Nat
        /\ \A i \in 1 .. Len(out) : out'[i] = [out[i] EXCEPT !.stale = TRUE]
        /\ out'[Len(out) + 1] = [r EXCEPT !.garbled = half]
    BY <2>2, <2>3, Zenon
  <2>5. ASSUME NEW i \in 1 .. Len(out') PROVE Sendable(out'[i])
    <3>1. CASE i \in 1 .. Len(out)
      <4> DEFINE o == out[i]
      <4>1. Sendable(o) /\ o \in Requests /\ out'[i] = [o EXCEPT !.stale = TRUE]
        BY <2>4, <3>1, ElementOfSeq DEF LinkOK
      <4> HIDE DEF o
      <4> QED
        BY <4>1 DEF Sendable, Requests
    <3>2. CASE i = Len(out) + 1
      BY <2>4, <3>2 DEF Sendable, Requests
    <3> QED
      BY <2>4, <3>1, <3>2
  <2>6. half' \in BOOLEAN /\ dead' = dead /\ faults' = faults
    BY <1>3 DEF Sent, NoFault
  <2> QED
    BY <2>1, <2>4, <2>5, <2>6 DEF LinkOK
<1> QED
  BY <1>1, <1>2, <1>3 DEF Ask

\* A step without a request.
LEMMA GoFits ==
  ASSUME LinkOK, NEW g \in HostType, Numbered(g), NEW p \in {"idle", "session"}, Go(g, p)
  PROVE  HostOK' /\ LinkOK'
<1>1. SiteFits(p, g.site)
  BY DEF SiteFits, Recovery, Connecting
<1>2. HostOK'
  BY <1>1, ReturnedFits DEF Go, HostOK
<1>3. LinkOK'
  BY DEF Go, link, NoFault, LinkOK
<1> QED
  BY <1>2, <1>3

\* Resync, up to the drain.
LEMMA ResyncFits ==
  ASSUME LinkOK, NEW g \in HostType, Numbered(g), NEW site \in {"open", "ping", "down"},
         Resync(g, site)
  PROVE  HostOK' /\ LinkOK'
<1>1. HostOK'
  <2> DEFINE k == [g EXCEPT !.site = site, !.recovering = TRUE]
  <2>0. k \in HostType
    <3>1. site \in Sites /\ TRUE \in BOOLEAN
      BY Names
    <3> QED
      BY <3>1, SettingsFit, Zenon
  <2>1. k \in HostType /\ Numbered(k) /\ SiteFits("drain", k.site)
    BY <2>0 DEF HostType, Numbered, SiteFits, Connecting
  <2>2. h' = Returned(k, "drain", "none")
    BY DEF Resync
  <2> QED
    BY <2>1, <2>2, ReturnedFits DEF HostOK
<1>2. faults' \in 0 .. MaxFaults /\ half' \in BOOLEAN /\ in' = in /\ dead' = dead
  <2>1. faults' \in 0 .. MaxFaults
    BY Counted DEF Resync, LinkOK
  <2> QED
    BY <2>1 DEF Resync, LinkOK
<1>3. CASE out' = Append(out, [Status EXCEPT !.garbled = TRUE, !.stale = TRUE])
  <2> DEFINE e == [Status EXCEPT !.garbled = TRUE, !.stale = TRUE]
  <2>1. e \in Requests /\ Sendable(e)
    BY StatusFits DEF Requests, Sendable, Status
  <2>2. out \in Seq(Requests) /\ out' = Append(out, e)
    BY <1>3 DEF LinkOK
  <2> HIDE DEF e
  <2>3. /\ out' \in Seq(Requests) /\ Len(out') = Len(out) + 1 /\ Len(out) \in Nat
        /\ \A i \in 1 .. Len(out) : out'[i] = out[i]
        /\ out'[Len(out) + 1] = e
    BY <2>1, <2>2, AppendProperties
  <2>4. \A i \in 1 .. Len(out') : Sendable(out'[i])
    BY <2>1, <2>3 DEF LinkOK
  <2> QED
    BY <1>1, <1>2, <2>3, <2>4 DEF LinkOK
<1>4. CASE out' = out
  BY <1>1, <1>2, <1>4 DEF LinkOK
<1> QED
  BY <1>3, <1>4 DEF Resync

\* The engine once its port is closed.
LEMMA ClosedFits ==
  ASSUME NEW g \in HostType, Numbered(g)
  PROVE  EngineClosed(g) \in HostType /\ Numbered(EngineClosed(g))
<1>1. <<>> \in Seq(1 .. MaxTxns) /\ "closed" \in Modes /\ FALSE \in BOOLEAN
  BY Names
<1>2. EngineClosed(g) = [g EXCEPT !.mode = "closed", !.pending = <<>>, !.cs = FALSE,
                                  !.desynced = FALSE, !.recovering = FALSE]
  BY DEF EngineClosed
<1>3. EngineClosed(g) \in HostType
  BY <1>1, ModeFits, Zenon DEF EngineClosed
<1> QED
  BY <1>2, <1>3 DEF Numbered, HostType

\* Connect.
LEMMA ConnectFits ==
  ASSUME LinkOK, NEW g \in HostType, Numbered(g), NEW site \in {"open", "ping"},
         Connect(g, site)
  PROVE  HostOK' /\ LinkOK'
<1> DEFINE c == EngineClosed(g)
           k == [c EXCEPT !.applied = None, !.site = site]
           u == [k EXCEPT !.mode = "unknown"]
<1>1. c \in HostType /\ Numbered(c)
  BY ClosedFits
<1> HIDE DEF c
<1>2. k \in HostType /\ Numbered(k) /\ k.site = site
  <2>1. site \in Sites /\ None \in Configs
    BY Names, NoneFits
  <2>2. k \in HostType
    BY <1>1, <2>1, SettingsFit, Zenon
  <2> QED
    BY <1>1, <2>2 DEF HostType, Numbered
<1> HIDE DEF k
<1>3. u \in HostType /\ Numbered(u) /\ u.site = site
  <2>1. "unknown" \in Modes
    BY Names
  <2>2. u \in HostType
    BY <1>2, <2>1, ModeFits, Zenon
  <2> QED
    BY <1>2, <2>2 DEF HostType, Numbered
<1>4. SiteFits("opening", site) /\ SiteFits("session", site)
  BY DEF SiteFits, Recovery, Connecting
<1>5. h' = Returned(u, "opening", "none") \/ h' = Returned(k, "session", "none")
  BY DEF Connect, c, k
<1>6. HostOK'
  <2> HIDE DEF u
  <2> QED
    BY <1>2, <1>3, <1>4, <1>5, ReturnedFits DEF HostOK
<1>7. faults' \in 0 .. MaxFaults
  BY Counted DEF Connect, LinkOK
<1>8. LinkOK'
  BY <1>7, EmptySeq DEF Connect, LinkOK
<1> QED
  BY <1>6, <1>8

-----------------------------------------------------------------------------
(***************************************************************************)
(* The procedures the handlers are made of.  Ready: a record that may be   *)
(* handed to one of them.                                                  *)
(***************************************************************************)
Ready(g) == g \in HostType /\ Numbered(g)

\* A change of fields that no transaction depends on keeps a record ready.
LEMMA ReadyKept ==
  ASSUME NEW g, Ready(g), NEW k \in HostType, k.call = g.call, k.stream = g.stream,
         k.want = g.want, k.more = g.more, k.txn = g.txn
  PROVE  Ready(k)
  BY DEF Ready, Numbered

\* TBusPirate5.Configure's request.
LEMMA ConfigureFits ==
  ASSUME LinkOK, OthersOK, NEW g, Ready(g), Configure(g)
  PROVE  HostOK' /\ LinkOK'
<1> DEFINE k == [g EXCEPT !.applied = None, !.pending = <<>>]
<1>1. k \in HostType
  BY NoneFits, Names, SettingsFit, Zenon DEF Ready
<1>2. Ready(k)
  BY <1>1 DEF Ready, HostType, Numbered
<1>3. Config(Wanted) \in Requests /\ Sendable(Config(Wanted))
  BY MenuFits, ConfigFits
<1>4. "configure" \in Waits /\ SiteFits("configure", k.site)
  BY DEF Waits, SiteFits, Recovery, Connecting
<1>5. Ask(k, "configure", Config(Wanted))
  BY DEF Configure
<1> HIDE DEF k
<1> QED
  BY <1>2, <1>3, <1>4, <1>5, AskFits DEF Ready

\* A ping that was lost.
LEMMA LostPingFits ==
  ASSUME LinkOK, NEW g, Ready(g), LostPing(g)
  PROVE  HostOK' /\ LinkOK'
  BY ResyncFits, ConnectFits DEF LostPing, Ready

\* DevOpen, once the link is in step.
LEMMA FastPathFits ==
  ASSUME LinkOK, OthersOK, NEW g, Ready(g), FastPath(g)
  PROVE  HostOK' /\ LinkOK'
<1>1. menu.reset \in BOOLEAN
  BY MenuFits
<1>2. CASE menu.reset \/ ~IsOpen(g)
  BY <1>2, ConnectFits DEF FastPath, Ready
<1>3. CASE ~menu.reset /\ IsOpen(g) /\ ~Current(g)
  BY <1>3, ConfigureFits DEF FastPath
<1>4. CASE ~menu.reset /\ IsOpen(g) /\ Current(g) /\ g.pending # <<>>
  <2>1. LostPing(g)
    BY <1>4 DEF FastPath
  <2> QED
    BY <2>1, LostPingFits
<1>5. CASE ~menu.reset /\ IsOpen(g) /\ Current(g) /\ g.pending = <<>>
  <2>1. Ask(g, "ping", Status)
    BY <1>5 DEF FastPath
  <2>2. "ping" \in Waits /\ SiteFits("ping", g.site)
    BY DEF Waits, SiteFits, Recovery, Connecting
  <2> QED
    BY <2>1, <2>2, StatusFits, AskFits DEF Ready
<1> QED
  BY <1>1, <1>2, <1>3, <1>4, <1>5

\* DevOpen.
LEMMA BeginFits ==
  ASSUME LinkOK, OthersOK, NEW g, Ready(g), Begin(g)
  PROVE  HostOK' /\ LinkOK'
<1>1. g.desynced \in BOOLEAN
  BY DEF Ready, HostType
<1>2. CASE g.desynced /\ IsOpen(g)
  <2> DEFINE k == [g EXCEPT !.applied = None]
  <2>1. k \in HostType
    BY NoneFits, SettingsFit, Zenon DEF Ready
  <2>2. Numbered(k)
    BY DEF Ready, HostType, Numbered
  <2>3. Resync(k, "open")
    BY <1>2 DEF Begin
  <2> HIDE DEF k
  <2> QED
    BY <2>1, <2>2, <2>3, ResyncFits
<1>3. CASE g.desynced /\ ~IsOpen(g)
  BY <1>3, ConnectFits DEF Begin, Ready
<1>4. CASE ~g.desynced
  BY <1>4, FastPathFits DEF Begin
<1> QED
  BY <1>1, <1>2, <1>3, <1>4

\* EnterHiZ.
LEMMA GoHiZFits ==
  ASSUME LinkOK, NEW g, Ready(g), GoHiZ(g)
  PROVE  HostOK' /\ LinkOK'
<1> DEFINE k == [g EXCEPT !.tried = @ \/ ~Gate(g)]
<1>1. k \in HostType
  <2>1. (g.tried \/ ~Gate(g)) \in BOOLEAN
    OBVIOUS
  <2>2. k = [g EXCEPT !.tried = g.tried \/ ~Gate(g)]
    BY DEF Ready, HostType
  <2> QED
    BY <2>1, <2>2, CallFits, Zenon DEF Ready
<1>2. Numbered(k)
  BY DEF Ready, HostType, Numbered
<1>3. HiZ \in Requests /\ Sendable(HiZ)
  BY ConfigFits, NoneFits DEF HiZ, None
<1>4. "hiz" \in Waits /\ SiteFits("hiz", k.site)
  BY DEF Waits, SiteFits, Recovery, Connecting
<1>5. Ask(k, "hiz", HiZ)
  BY DEF GoHiZ
<1> HIDE DEF k
<1> QED
  BY <1>1, <1>2, <1>3, <1>4, <1>5, AskFits

\* The end of DevClose and of Disconnect.
LEMMA ClosedGoFits ==
  ASSUME LinkOK, NEW g, Ready(g), NEW told \in Words, Closed(g, told)
  PROVE  HostOK' /\ LinkOK'
<1> DEFINE c == EngineClosed(g)
           k == [c EXCEPT !.applied = None, !.opened = FALSE, !.told = told]
<1>1. c \in HostType /\ Numbered(c)
  BY ClosedFits DEF Ready
<1>2. Go(k, "idle")
  BY DEF Closed
<1> HIDE DEF c
<1>3. k \in HostType
  BY <1>1, NoneFits, SettingsFit, Zenon
<1>4. Numbered(k)
  BY <1>1 DEF HostType, Numbered
<1> HIDE DEF k
<1> QED
  BY <1>2, <1>3, <1>4, GoFits

\* A release of chip select.
LEMMA ReleaseFits ==
  ASSUME h \in HostType
  PROVE  Release \in Requests /\ Sendable(Release)
<1>1. 0 \in 0 .. MaxRead /\ 0 <= MaxWrite /\ h.txn \in 0 .. MaxTxns /\ <<>> \in Seq(1 .. MaxTxns)
  BY Bounds, Names DEF HostType
<1>2. Len(<<>>) = 0
  OBVIOUS
<1>3. (0 > 0 => h.txn > 0) /\ ~(FALSE /\ 0 > 0 /\ <<>> = <<>>)
  OBVIOUS
<1> QED
  BY <1>1, <1>2, <1>3, DataFits DEF Release

\* Pins and supply off.
LEMMA PowerDownFits ==
  ASSUME h \in HostType, LinkOK, NEW g, Ready(g), PowerDown(g)
  PROVE  HostOK' /\ LinkOK'
<1> DEFINE q == IF g.mode = "SPI" THEN [g EXCEPT !.pending = <<>>] ELSE g
<1>1. q \in HostType
  <2>1. [g EXCEPT !.pending = <<>>] \in HostType
    BY Names, ModeFits, Zenon DEF Ready
  <2> QED
    BY <2>1 DEF Ready
<1>2. Ready(q)
  BY <1>1 DEF Ready, HostType, Numbered
<1>3. IF q.mode = "SPI" /\ q.cs THEN Ask(q, "down_release", Release) ELSE GoHiZ(q)
  BY DEF PowerDown
<1>4. "down_release" \in Waits /\ SiteFits("down_release", q.site)
  BY DEF Waits, SiteFits, Recovery, Connecting
<1> HIDE DEF q
<1>5. CASE Ask(q, "down_release", Release)
  BY <1>2, <1>4, <1>5, ReleaseFits, AskFits DEF Ready
<1>6. CASE GoHiZ(q)
  BY <1>2, <1>6, GoHiZFits
<1> QED
  BY <1>3, <1>5, <1>6

\* SafePowerDown and what the callers do after it.
LEMMA SafePowerDownFits ==
  ASSUME h \in HostType, LinkOK, NEW g, Ready(g), SafePowerDown(g)
  PROVE  HostOK' /\ LinkOK'
<1>1. g.desynced \in BOOLEAN /\ "none" \in Words
  BY Names DEF Ready, HostType
<1>2. CASE ~IsOpen(g)
  BY <1>1, <1>2, ClosedGoFits DEF SafePowerDown
<1>3. CASE IsOpen(g) /\ g.desynced
  BY <1>3, ResyncFits DEF SafePowerDown, Ready
<1>4. CASE IsOpen(g) /\ ~g.desynced
  BY <1>4, PowerDownFits DEF SafePowerDown
<1> QED
  BY <1>1, <1>2, <1>3, <1>4

\* What follows Resync.
LEMMA RearmedFits ==
  ASSUME h \in HostType, LinkOK, OthersOK, h.site \in {"open", "ping", "down"},
         NEW r, Ready(r), NEW ok \in BOOLEAN, Rearmed(r, ok)
  PROVE  HostOK' /\ LinkOK'
<1> DEFINE g == [r EXCEPT !.recovering = FALSE, !.desynced = ~ok]
<1>1. g \in HostType
  <2>1. FALSE \in BOOLEAN /\ (~ok) \in BOOLEAN
    OBVIOUS
  <2> QED
    BY <2>1, ModeFits, Zenon DEF Ready
<1>2. Ready(g)
  BY <1>1 DEF Ready, HostType, Numbered
<1>3. CASE h.site = "open"
  <2>1. IF ok THEN FastPath(g) ELSE Connect(g, "open")
    BY <1>3 DEF Rearmed
  <2> HIDE DEF g
  <2> QED
    BY <1>2, <2>1, FastPathFits, ConnectFits DEF Ready
<1>4. CASE h.site = "ping"
  <2>1. IF ok THEN Configure(g) ELSE Connect(g, "ping")
    BY <1>4 DEF Rearmed
  <2> HIDE DEF g
  <2> QED
    BY <1>2, <2>1, ConfigureFits, ConnectFits DEF Ready
<1>5. CASE h.site = "down" /\ ok
  <2>1. PowerDown(g)
    BY <1>5 DEF Rearmed
  <2> HIDE DEF g
  <2> QED
    BY <1>2, <2>1, PowerDownFits
<1>6. CASE h.site = "down" /\ ~ok
  <2>1. Closed(g, "unreachable") /\ "unreachable" \in Words
    BY <1>6, Names DEF Rearmed
  <2> HIDE DEF g
  <2> QED
    BY <1>2, <2>1, ClosedGoFits
<1> QED
  BY <1>3, <1>4, <1>5, <1>6

\* The slices a transfer is cut into.
LEMMA SliceFits ==
  ASSUME NEW g, Ready(g)
  PROVE  /\ ReadSlice(g) \in 0 .. MaxRead /\ ReadSlice(g) <= g.want
         /\ ReadSlice(g) > 0 => g.want > 0
         /\ g.want > 0 => ReadSlice(g) > 0
         /\ StopMain(g) \in BOOLEAN
  BY Bounds DEF Ready, HostType, ReadSlice, StopMain

\* SPITransfer's next request: bytes of its own stream, chip select asserted if it
\* is not yet, and released with the last slice.
LEMMA TransferAsks ==
  ASSUME NEW g, Ready(g), Transfer(g)
  PROVE  \E p \in {"push", "assert", "slice"}, r \in Requests :
           /\ Ask(g, p, r) /\ Sendable(r) /\ r.kind = "data" /\ ~r.stale /\ ~r.garbled
           /\ r.start <=> ~g.cs
           /\ r.stop <=> p = "slice" /\ StopMain(g)
           /\ \A i \in 1 .. Len(r.bytes) :
                \E j \in 1 .. Len(g.stream) : r.bytes[i] = g.stream[j]
           /\ r.by = g.txn
<1>1. /\ g \in HostType /\ Numbered(g) /\ g.stream \in Seq(1 .. MaxTxns)
      /\ Len(g.stream) \in Nat /\ g.want \in Nat /\ g.txn \in 0 .. MaxTxns /\ g.cs \in BOOLEAN
      /\ <<>> \in Seq(1 .. MaxTxns) /\ Len(<<>>) = 0
  BY Names DEF Ready, HostType
<1>2. Len(g.stream) > MaxWrite <=> ~(Len(g.stream) <= MaxWrite)
  BY <1>1, Bounds
<1>3. CASE Len(g.stream) > MaxWrite
  <2> DEFINE bytes == SubSeq(g.stream, 1, MaxWrite)
             r == Data(~g.cs, FALSE, bytes, 0, g.txn)
  <2>1. /\ bytes \in Seq(1 .. MaxTxns) /\ Len(bytes) = MaxWrite
        /\ \A i \in 1 .. MaxWrite : i \in 1 .. Len(g.stream) /\ bytes[i] = g.stream[i]
    <3>1. \A i \in 1 .. MaxWrite : i \in 1 .. Len(g.stream) /\ g.stream[i] \in 1 .. MaxTxns
      BY <1>1, <1>3, Bounds, ElementOfSeq
    <3> QED
      BY <1>1, <1>3, <3>1, Bounds, SubSeqProperties
  <2>2. Ask(g, "push", r)
    BY <1>2, <1>3, Zenon DEF Transfer
  <2> HIDE DEF bytes
  <2>3. r \in Requests /\ Sendable(r)
    <3>1. 0 \in 0 .. MaxRead /\ Len(bytes) <= MaxWrite /\ (0 > 0 => g.txn > 0)
          /\ ~(~g.cs /\ 0 > 0 /\ bytes = <<>>) /\ (~g.cs) \in BOOLEAN
      BY <2>1, Bounds
    <3> QED
      BY <1>1, <2>1, <3>1, DataFits
  <2>4. /\ r.kind = "data" /\ ~r.stale /\ ~r.garbled /\ (r.start <=> ~g.cs) /\ ~r.stop
        /\ r.bytes = bytes /\ r.by = g.txn
    BY DEF Data, Status
  <2> HIDE DEF r
  <2>5. \A i \in 1 .. Len(r.bytes) : \E j \in 1 .. Len(g.stream) : r.bytes[i] = g.stream[j]
    BY <2>1, <2>4
  <2> QED
    BY <2>2, <2>3, <2>4, <2>5
<1>4. CASE Len(g.stream) <= MaxWrite /\ NeedsAssert(g)
  <2> DEFINE r == Data(TRUE, FALSE, <<>>, 0, g.txn)
  <2>1. Ask(g, "assert", r)
    BY <1>2, <1>4, Zenon DEF Transfer
  <2>2. 0 \in 0 .. MaxRead /\ 0 <= MaxWrite /\ (0 > 0 => g.txn > 0)
        /\ ~(TRUE /\ 0 > 0 /\ <<>> = <<>>)
    BY Bounds
  <2>3. r \in Requests /\ Sendable(r)
    BY <1>1, <2>2, DataFits
  <2>4. /\ r.kind = "data" /\ ~r.stale /\ ~r.garbled /\ r.start /\ ~r.stop
        /\ r.bytes = <<>> /\ r.by = g.txn /\ ~g.cs
    BY <1>4 DEF NeedsAssert, Data, Status
  <2> HIDE DEF r
  <2>5. \A i \in 1 .. Len(r.bytes) : \E j \in 1 .. Len(g.stream) : r.bytes[i] = g.stream[j]
    BY <1>1, <2>4
  <2> QED
    BY <2>1, <2>3, <2>4, <2>5
<1>5. CASE Len(g.stream) <= MaxWrite /\ ~NeedsAssert(g)
  <2> DEFINE read == ReadSlice(g)
             r == Data(~g.cs, StopMain(g), g.stream, read, g.txn)
  <2>1. Ask(g, "slice", r)
    BY <1>2, <1>5, Zenon DEF Transfer
  <2>2. /\ read \in 0 .. MaxRead /\ (read > 0 => g.txn > 0) /\ StopMain(g) \in BOOLEAN
        /\ ~(~g.cs /\ read > 0 /\ g.stream = <<>>) /\ (~g.cs) \in BOOLEAN
    BY <1>1, <1>5, SliceFits DEF Numbered, NeedsAssert
  <2> HIDE DEF read
  <2>3. r \in Requests /\ Sendable(r)
    BY <1>1, <1>5, <2>2, DataFits
  <2>4. /\ r.kind = "data" /\ ~r.stale /\ ~r.garbled /\ (r.start <=> ~g.cs)
        /\ (r.stop <=> StopMain(g)) /\ r.bytes = g.stream /\ r.by = g.txn
    BY DEF Data, Status
  <2> HIDE DEF r
  <2> QED
    BY <2>1, <2>3, <2>4
<1>6. \/ Len(g.stream) > MaxWrite
      \/ Len(g.stream) <= MaxWrite /\ NeedsAssert(g)
      \/ Len(g.stream) <= MaxWrite /\ ~NeedsAssert(g)
  BY <1>1, Bounds
<1> QED
  BY <1>3, <1>4, <1>5, <1>6

\* SPITransfer, up to its next request.
LEMMA TransferStepFits ==
  ASSUME LinkOK, NEW g, Ready(g), Transfer(g)
  PROVE  HostOK' /\ LinkOK'
<1>1. PICK p \in {"push", "assert", "slice"}, r \in Requests : Ask(g, p, r) /\ Sendable(r)
  BY TransferAsks
<1>2. p \in Waits /\ SiteFits(p, g.site)
  BY DEF Waits, SiteFits, Recovery, Connecting
<1> QED
  BY <1>1, <1>2, AskFits DEF Ready

\* What SPIReleaseCS is called for.
LEMMA AfterReleaseFits ==
  ASSUME h \in HostType, LinkOK, OthersOK, NEW g, Ready(g), g.site \in {"close", "deinit"},
         AfterRelease(g)
  PROVE  HostOK' /\ LinkOK'
<1>1. menu.reset \in BOOLEAN
  BY MenuFits
<1> QED
  BY <1>1, GoFits, SafePowerDownFits DEF AfterRelease, Ready

\* SPIReleaseCS.
LEMMA SPIReleaseCSFits ==
  ASSUME h \in HostType, LinkOK, OthersOK, NEW g, Ready(g), g.site \in {"close", "deinit"},
         SPIReleaseCS(g)
  PROVE  HostOK' /\ LinkOK'
<1> DEFINE k == Dropped(g)
<1>1. k \in HostType
  BY Names, ModeFits, Zenon DEF Ready, Dropped
<1>2. Ready(k) /\ k.site = g.site
  BY <1>1 DEF Ready, HostType, Numbered, Dropped
<1>3. "release" \in Waits /\ SiteFits("release", g.site)
  BY DEF Waits, SiteFits, Recovery, Connecting
<1>4. AfterRelease(g) \/ Ask(k, "release", Release) \/ AfterRelease(k)
  BY DEF SPIReleaseCS
<1> HIDE DEF k
<1>5. CASE AfterRelease(g)
  BY <1>5, AfterReleaseFits
<1>6. CASE AfterRelease(k)
  BY <1>2, <1>6, AfterReleaseFits
<1>7. CASE Ask(k, "release", Release)
  BY <1>2, <1>3, <1>7, ReleaseFits, AskFits DEF Ready
<1> QED
  BY <1>4, <1>5, <1>6, <1>7

-----------------------------------------------------------------------------
(***************************************************************************)
(* Transact's judgement of a frame.                                        *)
(***************************************************************************)
\* A record that a request is waited for with, or was.
InExchange(g) ==
  g \in HostType /\ Numbered(g) /\ g.pc \in Waits /\ SiteFits(g.pc, g.site) /\ g.answer # "none"

\* The verdicts an exchange may end with, and the notes taken on the way.
LEMMA VerdictFits ==
  ASSUME NEW g, InExchange(g)
  PROVE  /\ InExchange(MarkDesynced(g))
         /\ InExchange(Fails(g)) /\ Fails(g).answer = "no"
         /\ InExchange([g EXCEPT !.answer = "ok"]) /\ [g EXCEPT !.answer = "ok"].answer = "ok"
         /\ InExchange([g EXCEPT !.graced = TRUE])
         /\ [g EXCEPT !.graced = TRUE].answer = g.answer
         /\ [g EXCEPT !.graced = TRUE].skipped = g.skipped
<1>1. g \in HostType
  BY DEF InExchange
<1>2. /\ [g EXCEPT !.desynced = TRUE, !.pending = <<>>] \in HostType
      /\ [g EXCEPT !.answer = "no"] \in HostType
      /\ [g EXCEPT !.answer = "ok"] \in HostType
      /\ [g EXCEPT !.graced = TRUE] \in HostType
  <2>1. "no" \in Results /\ "ok" \in Results /\ TRUE \in BOOLEAN /\ <<>> \in Seq(1 .. MaxTxns)
    BY Names
  <2> QED
    BY <1>1, <2>1, ModeFits, WaitFits, Zenon
<1>3. InExchange([g EXCEPT !.desynced = TRUE, !.pending = <<>>])
  BY <1>1, <1>2 DEF InExchange, HostType, Numbered
<1>4. InExchange([g EXCEPT !.answer = "no"])
  BY <1>1, <1>2 DEF InExchange, HostType, Numbered
<1>5. InExchange([g EXCEPT !.answer = "ok"])
  BY <1>1, <1>2 DEF InExchange, HostType, Numbered
<1>6. InExchange([g EXCEPT !.graced = TRUE])
  BY <1>1, <1>2 DEF InExchange, HostType, Numbered
<1>7. /\ [g EXCEPT !.answer = "no"].answer = "no" /\ [g EXCEPT !.answer = "ok"].answer = "ok"
      /\ [g EXCEPT !.graced = TRUE].answer = g.answer
      /\ [g EXCEPT !.graced = TRUE].skipped = g.skipped
  BY <1>1 DEF HostType
<1> QED
  BY <1>3, <1>4, <1>5, <1>6, <1>7 DEF MarkDesynced, Fails

\* The end of a wait.
LEMMA GivesUpFits ==
  ASSUME NEW g, InExchange(g)
  PROVE  InExchange(GivesUp(g)) /\ GivesUp(g).answer = "no"
<1> DEFINE k == IF g.graced THEN g ELSE MarkDesynced(g)
<1>1. InExchange(k)
  BY VerdictFits
<1>2. GivesUp(g) = Fails(k)
  BY DEF GivesUp
<1> HIDE DEF k
<1> QED
  BY <1>1, <1>2, VerdictFits

\* A frame that is thrown away.
LEMMA DiscardFits ==
  ASSUME NEW g, InExchange(g), g.skipped <= MaxSkipped
  PROVE  /\ InExchange(Discard(g))
         /\ Discard(g).answer = "no" \/ Discard(g).skipped <= MaxSkipped
<1> DEFINE k == [g EXCEPT !.skipped = @ + 1]
<1>1. g \in HostType /\ g.skipped \in Nat
  BY Bounds DEF InExchange, HostType
<1>2. g.skipped + 1 \in 0 .. MaxSkipped + 1
  BY <1>1, Bounds
<1>3. k = [g EXCEPT !.skipped = g.skipped + 1]
  BY <1>1 DEF HostType
<1>4. k \in HostType
  BY <1>1, <1>2, <1>3, WaitFits, Zenon
<1>5. InExchange(k) /\ k.skipped = g.skipped + 1
  BY <1>1, <1>4 DEF InExchange, HostType, Numbered
<1>6. Discard(g) = IF g.skipped + 1 > MaxSkipped THEN GivesUp(k) ELSE k
  BY DEF Discard
<1> HIDE DEF k
<1> QED
  BY <1>1, <1>5, <1>6, GivesUpFits, Bounds

\* Transact's verdict on a frame leaves a sound record.
LEMMA JudgedFits ==
  ASSUME NEW g, InExchange(g), g.answer = "wait", g.skipped <= MaxSkipped, NEW a \in Frames
  PROVE  Fit(Judged(g, a))
<1> DEFINE j == Judged(g, a)
           Good(k) == InExchange(k) /\ (k.answer = "wait" => k.skipped <= MaxSkipped)
<1>1. a.error \in {"none", "outer", "inner", "malformed", "async"}
  BY DEF Frames
<1>2. Good(Fails(MarkDesynced(g))) /\ Good(Fails(g)) /\ Good([g EXCEPT !.answer = "ok"])
  BY VerdictFits
<1>3. Good(Discard(g))
  BY DiscardFits
<1>4. Good(Discard([g EXCEPT !.graced = TRUE]))
  <2> DEFINE k == [g EXCEPT !.graced = TRUE]
  <2>1. InExchange(k) /\ k.skipped = g.skipped
    BY VerdictFits
  <2> HIDE DEF k
  <2>2. Good(Discard(k))
    BY <2>1, DiscardFits
  <2> QED
    BY <2>2 DEF k
<1> SUFFICES Good(j)
  BY DEF InExchange, Fit, Placed
<1> HIDE DEF Good
<1>5. CASE a.error = "malformed"
  <2>1. j = Fails(MarkDesynced(g))
    BY <1>5 DEF Judged
  <2> QED
    BY <1>2, <2>1
<1>6. CASE a.error = "outer"
  <2>1. j = Fails(g) \/ j = Discard([g EXCEPT !.graced = TRUE])
    BY <1>6 DEF Judged
  <2> QED
    BY <1>2, <1>4, <2>1
<1>7. CASE a.error \notin {"malformed", "outer"} /\ ~Matches(g, a)
  <2>1. j = Discard(g)
    BY <1>7 DEF Judged
  <2> QED
    BY <1>3, <2>1
<1>8. CASE a.error = "async" /\ Matches(g, a)
  <2>1. j = Discard(g)
    BY <1>8 DEF Judged
  <2> QED
    BY <1>3, <2>1
<1>9. CASE a.error = "inner" /\ Matches(g, a)
  <2>1. j = Fails(g)
    BY <1>9 DEF Judged
  <2> QED
    BY <1>2, <2>1
<1>10. CASE a.error = "none" /\ Matches(g, a)
  <2>1. j = [g EXCEPT !.answer = "ok"] \/ j = Fails(g)
    BY <1>10 DEF Judged
  <2> QED
    BY <1>2, <2>1
<1> QED
  BY <1>1, <1>5, <1>6, <1>7, <1>8, <1>9, <1>10

-----------------------------------------------------------------------------
(***************************************************************************)
(* The actions.                                                            *)
(***************************************************************************)
\* What the invariant says at the start of an action of the host.
LEMMA AtStart ==
  ASSUME IInv
  PROVE  /\ Ready(h) /\ h \in HostType /\ LinkOK /\ OthersOK /\ Placed(h)
         /\ SiteFits(h.pc, h.site)
  BY DEF IInv, HostOK, Fit, Ready, Placed

\* EnterSPI and EnterI2C.
LEMMA EnteredFits ==
  ASSUME NEW g, Ready(g), NEW c \in Configs
  PROVE  Ready(Entered(g, c))
<1> DEFINE sel == IF c.bus = "SPI" THEN FALSE ELSE g.cs
           k == [g EXCEPT !.mode = c.bus, !.conf = c, !.cs = sel]
<1>1. c.bus \in Modes /\ sel \in BOOLEAN
  BY DEF Configs, Buses, Modes, Ready, HostType
<1> HIDE DEF sel
<1>2. k \in HostType
  BY <1>1, SettingsFit, Zenon DEF Ready
<1>3. Ready(k)
  BY <1>2 DEF Ready, HostType, Numbered
<1>4. Entered(g, c) = k
  BY DEF Entered, sel, Ready, HostType
<1> QED
  BY <1>3, <1>4

\* DevOpen returns true.
LEMMA OpenedFits ==
  ASSUME LinkOK, NEW g, Ready(g), Opened(g)
  PROVE  HostOK' /\ LinkOK'
<1> DEFINE k == [g EXCEPT !.opened = TRUE]
<1>1. k \in HostType
  BY CallFits, Zenon DEF Ready
<1>2. Numbered(k) /\ Go(k, "session")
  BY DEF Ready, HostType, Numbered, Opened
<1> HIDE DEF k
<1> QED
  BY <1>1, <1>2, GoFits

\* Recovery.
LEMMA RecoveryFits ==
  ASSUME IInv, Drain \/ ResyncStatus \/ ResyncAnswered \/ ResyncConfigured
  PROVE  HostOK' /\ LinkOK'
<1> USE AtStart
<1>1. ASSUME Drain PROVE HostOK' /\ LinkOK'
  <2> DEFINE k == Forgotten(h)
  <2>1. k \in HostType
    BY Names, ModeFits, Zenon DEF Forgotten
  <2>2. Ready(k) /\ k.site = h.site
    BY <2>1 DEF Forgotten, HostType, Ready, Numbered
  <2>3. h' = Returned(k, "drained", "none") /\ SiteFits("drained", h.site)
    BY <1>1 DEF Drain, At, SiteFits, Recovery, Connecting
  <2> HIDE DEF k
  <2>4. HostOK'
    BY <2>2, <2>3, ReturnedFits DEF HostOK, Ready
  <2>5. LinkOK'
    BY <1>1, EmptySeq DEF Drain, NoFault, LinkOK
  <2> QED
    BY <2>4, <2>5
<1>2. ASSUME ResyncStatus PROVE HostOK' /\ LinkOK'
  <2>1. Ask(h, "resync_status", Status) /\ SiteFits("resync_status", h.site)
        /\ "resync_status" \in Waits
    BY <1>2 DEF ResyncStatus, At, SiteFits, Recovery, Connecting, Waits
  <2> QED
    BY <2>1, StatusFits, AskFits DEF Ready
<1>3. ASSUME ResyncAnswered PROVE HostOK' /\ LinkOK'
  <2>1. /\ h.site \in {"open", "ping", "down"} /\ SiteFits("resync_config", h.site)
        /\ "resync_config" \in Waits
    BY <1>3 DEF ResyncAnswered, Answered, SiteFits, Recovery, Connecting, Waits
  <2> DEFINE k == [h EXCEPT !.pending = <<>>]
  <2>2. k \in HostType
    BY Names, ModeFits, Zenon
  <2>3. Ready(k) /\ k.site = h.site
    BY <2>2 DEF HostType, Ready, Numbered
  <2>4. h.conf \in Configs
    BY DEF HostType
  <2>5. Ask(k, "resync_config", Config(h.conf)) \/ Rearmed(h, Ok)
    BY <1>3 DEF ResyncAnswered
  <2> HIDE DEF k
  <2>6. CASE Ask(k, "resync_config", Config(h.conf))
    BY <2>1, <2>3, <2>4, <2>6, ConfigFits, AskFits DEF Ready
  <2>7. CASE Rearmed(h, Ok)
    <3>1. Ok \in BOOLEAN
      BY DEF Ok
    <3> QED
      BY <2>1, <2>7, <3>1, RearmedFits
  <2> QED
    BY <2>5, <2>6, <2>7
<1>4. ASSUME ResyncConfigured PROVE HostOK' /\ LinkOK'
  <2>1. h.site \in {"open", "ping", "down"} /\ Ok \in BOOLEAN /\ h.conf \in Configs
    BY <1>4 DEF ResyncConfigured, Answered, SiteFits, Recovery, Ok, HostType
  <2> DEFINE k == IF Ok THEN Entered(h, h.conf) ELSE h
  <2>2. Ready(k)
    BY <2>1, EnteredFits
  <2>3. Rearmed(k, Ok)
    BY <1>4 DEF ResyncConfigured
  <2> HIDE DEF k
  <2> QED
    BY <2>1, <2>2, <2>3, RearmedFits
<1> QED
  BY <1>1, <1>2, <1>3, <1>4

\* DevOpen, from the port that is opened to the mode that is entered.
LEMMA OpeningFits ==
  ASSUME IInv, Probe \/ Probed \/ Full \/ Ping \/ FastRelease \/ Configured
  PROVE  HostOK' /\ LinkOK'
<1> USE AtStart
<1>1. ASSUME Probe PROVE HostOK' /\ LinkOK'
  <2>1. Ask(h, "probe", Status) /\ SiteFits("probe", h.site) /\ "probe" \in Waits
    BY <1>1 DEF Probe, At, SiteFits, Recovery, Connecting, Waits
  <2> QED
    BY <2>1, StatusFits, AskFits DEF Ready
<1>2. ASSUME Probed PROVE HostOK' /\ LinkOK'
  <2>1. SiteFits("full", h.site) /\ "full" \in Waits
    BY <1>2 DEF Probed, Answered, SiteFits, Recovery, Connecting, Waits
  <2> DEFINE k == [h EXCEPT !.mode = "closed"]
  <2>2. k \in HostType
    BY Names, ModeFits, Zenon
  <2>3. Ready(k)
    BY <2>2 DEF Ready, HostType, Numbered
  <2>4. Ask(h, "full", Status) \/ Go(k, "session")
    BY <1>2 DEF Probed
  <2> HIDE DEF k
  <2> QED
    BY <2>1, <2>3, <2>4, StatusFits, AskFits, GoFits DEF Ready
<1>3. ASSUME Full PROVE HostOK' /\ LinkOK'
  <2> DEFINE k == IF Ok THEN h ELSE FullDone(h)
  <2>1. FullDone(h) \in HostType
    BY Names, ModeFits, Zenon DEF FullDone
  <2>2. Ready(k)
    BY <2>1 DEF Ready, HostType, Numbered, FullDone
  <2>3. FastPath(k) \/ Configure(k)
    BY <1>3 DEF Full
  <2> HIDE DEF k
  <2> QED
    BY <2>2, <2>3, FastPathFits, ConfigureFits
<1>4. ASSUME Ping PROVE HostOK' /\ LinkOK'
  <2>1. SiteFits("fast_release", h.site) /\ "fast_release" \in Waits /\ h.cs \in BOOLEAN
    BY DEF SiteFits, Recovery, Connecting, Waits, HostType
  <2>2. LostPing(h) \/ Opened(h) \/ Ask(h, "fast_release", Release)
    BY <1>4, <2>1 DEF Ping
  <2>3. CASE Opened(h)
    BY <2>3, OpenedFits
  <2>4. CASE Ask(h, "fast_release", Release)
    BY <2>1, <2>4, ReleaseFits, AskFits DEF Ready
  <2> QED
    BY <2>2, <2>3, <2>4, LostPingFits
<1>5. ASSUME FastRelease PROVE HostOK' /\ LinkOK'
  <2> DEFINE k == [h EXCEPT !.cs = FALSE]
  <2>1. k \in HostType
    BY ModeFits, Zenon
  <2>2. Ready(k)
    BY <2>1 DEF Ready, HostType, Numbered
  <2>3. Opened(k) \/ LostPing(h)
    BY <1>5 DEF FastRelease
  <2> HIDE DEF k
  <2> QED
    BY <2>2, <2>3, OpenedFits, LostPingFits
<1>6. ASSUME Configured PROVE HostOK' /\ LinkOK'
  <2> DEFINE e == Entered(h, Wanted)
             k == [e EXCEPT !.applied = Wanted]
  <2>1. Wanted \in Configs
    BY MenuFits
  <2>2. Ready(e)
    BY <2>1, EnteredFits
  <2>3. Opened(k) \/ Go(h, "session")
    BY <1>6 DEF Configured
  <2> HIDE DEF e
  <2>4. k \in HostType
    BY <2>1, <2>2, SettingsFit, Zenon DEF Ready
  <2>5. Ready(k)
    BY <2>2, <2>4 DEF Ready, HostType, Numbered
  <2> HIDE DEF k
  <2> QED
    BY <2>3, <2>5, OpenedFits, GoFits DEF Ready
<1> QED
  BY <1>1, <1>2, <1>3, <1>4, <1>5, <1>6

\* SafePowerDown's requests, and Disconnect.
LEMMA ClosingFits ==
  ASSUME IInv, DownRelease \/ PoweredDown \/ Disconnect \/ Released
  PROVE  HostOK' /\ LinkOK'
<1> USE AtStart
<1> DEFINE k == IF Ok THEN [h EXCEPT !.cs = FALSE] ELSE h
<1>1. [h EXCEPT !.cs = FALSE] \in HostType
  BY ModeFits, Zenon
<1>2. Ready(k) /\ k.site = h.site
  BY <1>1 DEF Ready, HostType, Numbered
<1>3. ASSUME DownRelease PROVE HostOK' /\ LinkOK'
  <2>1. GoHiZ(k)
    BY <1>3 DEF DownRelease
  <2> HIDE DEF k
  <2> QED
    BY <1>2, <2>1, GoHiZFits
<1>4. ASSUME PoweredDown PROVE HostOK' /\ LinkOK'
  <2> DEFINE word == IF Ok THEN "off" ELSE "maybe"
  <2>1. Closed(h, word) /\ word \in Words
    BY <1>4, Names DEF PoweredDown
  <2> QED
    BY <2>1, ClosedGoFits
<1>5. ASSUME Disconnect PROVE HostOK' /\ LinkOK'
  <2> DEFINE d == [h EXCEPT !.opened = FALSE, !.told = "none", !.tried = FALSE]
  <2>1. "none" \in Words
    BY Names
  <2>2. d \in HostType
    BY <2>1, CallFits, Zenon
  <2>3. Ready(d)
    BY <2>2 DEF Ready, HostType, Numbered
  <2>4. SafePowerDown(d)
    BY <1>5 DEF Disconnect
  <2> HIDE DEF d
  <2> QED
    BY <2>3, <2>4, SafePowerDownFits
<1>6. ASSUME Released PROVE HostOK' /\ LinkOK'
  <2>1. AfterRelease(k) /\ h.site \in {"close", "deinit"}
    BY <1>6 DEF Released, Answered, SiteFits
  <2> HIDE DEF k
  <2> QED
    BY <1>2, <2>1, AfterReleaseFits
<1> QED
  BY <1>3, <1>4, <1>5, <1>6

\* The calls a handler begins and ends with.
LEMMA CallingFits ==
  ASSUME IInv, DevOpen \/ SPIDeinit \/ DevClose \/ LeftOpen
  PROVE  HostOK' /\ LinkOK'
<1> USE AtStart
<1>1. ASSUME DevOpen PROVE HostOK' /\ LinkOK'
  <2> DEFINE calm == ~half /\ ~dead
             k == [h EXCEPT !.opened = FALSE, !.told = "none", !.tried = FALSE,
                            !.since = faults, !.sound = calm]
  <2>1. "none" \in Words /\ faults \in 0 .. MaxFaults /\ calm \in BOOLEAN
    BY Names DEF LinkOK
  <2>2. Begin(k)
    BY <1>1 DEF DevOpen
  <2> HIDE DEF calm
  <2>3. k \in HostType
    BY <2>1, CallFits, Zenon
  <2>4. Ready(k)
    BY <2>3 DEF Ready, HostType, Numbered
  <2> HIDE DEF k
  <2> QED
    BY <2>2, <2>4, BeginFits
<1>2. ASSUME SPIDeinit PROVE HostOK' /\ LinkOK'
  <2> DEFINE k == [h EXCEPT !.call = NoCall, !.site = "deinit"]
  <2>1. "deinit" \in Sites /\ NoCall \in Transactions \cup {NoCall}
    BY Names
  <2>2. k \in HostType
    BY <2>1, CallFits, Zenon
  <2>3. Ready(k) /\ k.site = "deinit"
    BY <2>2 DEF Ready, HostType, Numbered
  <2>4. SPIReleaseCS(k)
    BY <1>2 DEF SPIDeinit
  <2> HIDE DEF k
  <2> QED
    BY <2>3, <2>4, SPIReleaseCSFits
<1>3. ASSUME DevClose PROVE HostOK' /\ LinkOK'
  <2> DEFINE k == [h EXCEPT !.call = NoCall, !.opened = FALSE, !.site = "close"]
  <2>1. "close" \in Sites /\ NoCall \in Transactions \cup {NoCall}
    BY Names
  <2>2. k \in HostType
    BY <2>1, CallFits, Zenon
  <2>3. Ready(k) /\ k.site = "close"
    BY <2>2 DEF Ready, HostType, Numbered
  <2>4. SPIReleaseCS(k) \/ Go(k, "idle")
    BY <1>3 DEF DevClose
  <2> HIDE DEF k
  <2> QED
    BY <2>3, <2>4, SPIReleaseCSFits, GoFits DEF Ready
<1>4. ASSUME LeftOpen PROVE HostOK' /\ LinkOK'
  <2> DEFINE k == [h EXCEPT !.call = NoCall, !.site = "none"]
  <2>1. "none" \in Sites /\ NoCall \in Transactions \cup {NoCall}
    BY Names
  <2>2. k \in HostType
    BY <2>1, CallFits, Zenon
  <2>3. Numbered(k) /\ Go(k, "idle")
    BY <1>4, <2>2 DEF HostType, Numbered, Ready, LeftOpen
  <2> HIDE DEF k
  <2> QED
    BY <2>2, <2>3, GoFits
<1> QED
  BY <1>1, <1>2, <1>3, <1>4

\* The bytes of a transaction carry its number.
LEMMA OwnedFits ==
  ASSUME h \in HostType, NEW n \in Nat, n > 0 => h.txn > 0
  PROVE  Owned(n) \in Seq(1 .. MaxTxns)
<1>1. h.txn \in 0 .. MaxTxns /\ MaxTxns \in Nat
  BY Bounds DEF HostType
<1>2. \A i \in 1 .. n : h.txn \in 1 .. MaxTxns
  BY <1>1
<1>3. Owned(n) \in [1 .. n -> 1 .. MaxTxns]
  BY <1>2 DEF Owned
<1> QED
  BY <1>3, SeqDef

\* What a transfer claims.
LEMMA ClaimedFits ==
  ASSUME NEW g, Ready(g), g.call # NoCall, NEW bytes \in Seq(1 .. MaxTxns)
  PROVE  Ready(Claimed(g, bytes)) /\ Claimed(g, bytes).txn = g.txn /\ g.txn > 0
         /\ Claimed(g, bytes).call = g.call
<1> DEFINE all == g.pending \o bytes
           k == [g EXCEPT !.stream = all, !.pending = <<>>]
<1>1. all \in Seq(1 .. MaxTxns) /\ <<>> \in Seq(1 .. MaxTxns)
  BY Names, ConcatProperties DEF Ready, HostType
<1>2. k = Claimed(g, bytes)
  BY DEF Claimed
<1>3. g.txn > 0
  BY DEF Ready, Numbered
<1> HIDE DEF all
<1>4. k \in HostType
  BY <1>1, TransferFits, Zenon DEF Ready
<1>5. k.txn = g.txn /\ k.call = g.call
  BY DEF Ready, HostType
<1>6. Ready(k)
  BY <1>3, <1>4, <1>5 DEF Ready, Numbered
<1> QED
  BY <1>2, <1>3, <1>5, <1>6

\* A handler's transaction, up to its first request.
LEMMA TransactionFits ==
  ASSUME IInv, Command \/ Queue \/ Finish
  PROVE  HostOK' /\ LinkOK'
<1> USE AtStart
<1>1. ASSUME Command PROVE HostOK' /\ LinkOK'
  <2>1. PICK c \in Calls : Go([h EXCEPT !.txn = @ + 1, !.call = c], "session")
    BY <1>1 DEF Command
  <2> DEFINE n == h.txn + 1
             k == [h EXCEPT !.txn = n, !.call = c]
  <2>2. n \in 0 .. MaxTxns /\ n > 0
    <3>1. h.txn \in 0 .. MaxTxns /\ h.txn < MaxTxns
      BY <1>1 DEF Command, HostType
    <3> QED
      BY <3>1, Bounds
  <2>3. c \in Transactions \cup {NoCall}
    BY BusPirate5Assumption
  <2>4. Go(k, "session")
    BY <2>1 DEF HostType
  <2> HIDE DEF n
  <2>5. k \in HostType
    BY <2>2, <2>3, CallFits, Zenon
  <2>6. Numbered(k)
    BY <2>2 DEF HostType, Numbered
  <2> HIDE DEF k
  <2> QED
    BY <2>4, <2>5, <2>6, GoFits
<1>2. ASSUME Queue PROVE HostOK' /\ LinkOK'
  <2> DEFINE n == Head(h.call.q)
             rest == [h.call EXCEPT !.q = Tail(h.call.q)]
             g == [h EXCEPT !.call = rest]
  <2>1. h.call \in Transactions /\ h.call.q # <<>> /\ h.call # NoCall
    BY <1>2 DEF Queue, HostType, NoCall
  <2>2. n \in Nat /\ rest \in Transactions /\ rest # NoCall
    <3>1. /\ h.call \in [q : Seq(Nat \ {0}), w : Nat, r : Nat] /\ h.call.q \in Seq(Nat \ {0})
          /\ h.call.w + h.call.r > 0 /\ h.call.w \in Nat /\ h.call.r \in Nat
      BY <2>1 DEF Transactions
    <3>2. n \in Nat \ {0} /\ Tail(h.call.q) \in Seq(Nat \ {0})
      BY <2>1, <3>1, HeadTailProperties
    <3>3. rest \in [q : Seq(Nat \ {0}), w : Nat, r : Nat] /\ rest.w = h.call.w /\ rest.r = h.call.r
      BY <3>1, <3>2
    <3> HIDE DEF n, rest
    <3>4. rest \in Transactions
      BY <3>1, <3>3 DEF Transactions
    <3>5. ~(rest.w = 0 /\ rest.r = 0)
      BY <3>1, <3>3
    <3> QED
      BY <3>2, <3>4, <3>5 DEF NoCall
  <2>3. IF g.pending # <<>> /\ Len(g.pending) + n > QueueLimit
          THEN Transfer([Claimed(g, <<>>) EXCEPT !.want = 0, !.stop = FALSE, !.more = n])
          ELSE Go([g EXCEPT !.pending = @ \o Owned(n)], "session")
    BY <1>2 DEF Queue, HostType
  <2>4. h.txn > 0
    BY <2>1 DEF Ready, Numbered
  <2> HIDE DEF rest, n
  <2>5. g \in HostType
    BY <2>2, TransferFits, Zenon
  <2>6. Ready(g) /\ g.call = rest /\ g.txn = h.txn /\ g.pending \in Seq(1 .. MaxTxns)
    BY <2>4, <2>5 DEF Ready, HostType, Numbered
  <2> HIDE DEF g
  <2>7. CASE Transfer([Claimed(g, <<>>) EXCEPT !.want = 0, !.stop = FALSE, !.more = n])
    <3> DEFINE c == Claimed(g, <<>>)
               t == [c EXCEPT !.want = 0, !.stop = FALSE, !.more = n]
    <3>1. Ready(c) /\ c.txn = h.txn
      BY <2>2, <2>6, Names, ClaimedFits
    <3> HIDE DEF c
    <3>2. 0 \in Nat /\ FALSE \in BOOLEAN
      OBVIOUS
    <3>3. t \in HostType
      BY <2>2, <3>1, <3>2, TransferFits, Zenon DEF Ready
    <3>4. Ready(t)
      BY <2>4, <3>1, <3>3 DEF Ready, HostType, Numbered
    <3>5. Transfer(t)
      BY <2>7 DEF c
    <3> HIDE DEF t
    <3> QED
      BY <3>4, <3>5, TransferStepFits
  <2>8. CASE Go([g EXCEPT !.pending = @ \o Owned(n)], "session")
    <3> DEFINE all == g.pending \o Owned(n)
               k == [g EXCEPT !.pending = all]
    <3>1. all \in Seq(1 .. MaxTxns)
      BY <2>2, <2>4, <2>6, OwnedFits, ConcatProperties
    <3>2. Go(k, "session")
      BY <2>6, <2>8 DEF Ready, HostType
    <3> HIDE DEF all
    <3>3. k \in HostType
      BY <2>6, <3>1, ModeFits, Zenon DEF Ready
    <3>4. Numbered(k)
      BY <2>6 DEF Ready, HostType, Numbered
    <3> HIDE DEF k
    <3> QED
      BY <3>2, <3>3, <3>4, GoFits
  <2> QED
    BY <2>3, <2>7, <2>8
<1>3. ASSUME Finish PROVE HostOK' /\ LinkOK'
  <2> DEFINE bytes == Owned(h.call.w)
             c == Claimed(h, bytes)
             t == [c EXCEPT !.want = h.call.r, !.stop = TRUE, !.more = 0, !.call = NoCall]
  <2>1. h.call \in Transactions /\ h.call # NoCall /\ h.call.w \in Nat /\ h.call.r \in Nat
    BY <1>3 DEF Finish, HostType, Transactions
  <2>2. h.txn > 0
    BY <2>1 DEF Ready, Numbered
  <2>3. bytes \in Seq(1 .. MaxTxns)
    BY <2>1, <2>2, OwnedFits
  <2>4. Transfer(t)
    BY <1>3 DEF Finish
  <2> HIDE DEF bytes
  <2>5. Ready(c) /\ c.txn = h.txn
    BY <2>1, <2>3, ClaimedFits
  <2> HIDE DEF c
  <2>6. 0 \in Nat /\ TRUE \in BOOLEAN /\ NoCall \in Transactions \cup {NoCall}
    OBVIOUS
  <2>7. t \in HostType
    BY <2>1, <2>5, <2>6, TransferFits, Zenon DEF Ready
  <2>8. Ready(t)
    BY <2>2, <2>5, <2>7 DEF Ready, HostType, Numbered
  <2> HIDE DEF t
  <2> QED
    BY <2>4, <2>8, TransferStepFits
<1> QED
  BY <1>1, <1>2, <1>3

\* A transfer that goes on, ends or fails.
LEMMA TransferGoesOnFits ==
  ASSUME IInv, Pushed \/ Asserted \/ Sliced \/ TransferFailed
  PROVE  HostOK' /\ LinkOK'
<1> USE AtStart
<1>1. ASSUME Pushed PROVE HostOK' /\ LinkOK'
  <2> DEFINE rest == SubSeq(h.stream, MaxWrite + 1, Len(h.stream))
             k == [h EXCEPT !.cs = TRUE, !.stream = rest]
  <2>1. h.stream \in Seq(1 .. MaxTxns)
    BY DEF HostType
  <2>2. rest \in Seq(1 .. MaxTxns) /\ (h.stream = <<>> => rest = <<>>)
    <3>1. \A i \in MaxWrite + 1 .. Len(h.stream) : h.stream[i] \in 1 .. MaxTxns
      BY <2>1, Bounds, ElementOfSeq
    <3>2. h.stream = <<>> => rest = <<>>
      BY Bounds, SubSeqProperties, EmptySeq
    <3> QED
      BY <2>1, <3>1, <3>2, Bounds, SubSeqProperties
  <2>3. Transfer(k)
    BY <1>1 DEF Pushed, HostType
  <2> HIDE DEF rest
  <2>4. k \in HostType
    BY <2>2, TransferFits, Zenon
  <2>5. Ready(k)
    BY <2>2, <2>4 DEF Ready, HostType, Numbered
  <2> HIDE DEF k
  <2> QED
    BY <2>3, <2>5, TransferStepFits
<1>2. ASSUME Asserted PROVE HostOK' /\ LinkOK'
  <2> DEFINE k == [h EXCEPT !.cs = TRUE]
  <2>1. Transfer(k)
    BY <1>2 DEF Asserted
  <2>2. k \in HostType
    BY ModeFits, Zenon
  <2>3. Ready(k)
    BY <2>2 DEF Ready, HostType, Numbered
  <2> HIDE DEF k
  <2> QED
    BY <2>1, <2>3, TransferStepFits
<1>3. ASSUME Sliced PROVE HostOK' /\ LinkOK'
  <2> DEFINE left == h.want - ReadSlice(h)
             hold == ~StopMain(h)
             g == [h EXCEPT !.cs = hold, !.stream = <<>>, !.want = left]
  <2>1. left \in Nat /\ (left > 0 => h.want > 0) /\ hold \in BOOLEAN /\ h.more \in Nat
        /\ h.want \in Nat
    BY SliceFits, Bounds DEF HostType
  <2>2. IF g.want > 0 THEN Transfer(g)
        ELSE Go([g EXCEPT !.pending = @ \o Owned(h.more), !.more = 0], "session")
    BY <1>3 DEF Sliced, HostType
  <2> HIDE DEF left, hold
  <2>3. g \in HostType
    BY <2>1, Names, TransferFits, Zenon
  <2>4. Ready(g) /\ g.pending \in Seq(1 .. MaxTxns)
    BY <2>1, <2>3 DEF Ready, HostType, Numbered
  <2> HIDE DEF g
  <2>5. CASE Transfer(g)
    BY <2>4, <2>5, TransferStepFits
  <2>6. CASE Go([g EXCEPT !.pending = @ \o Owned(h.more), !.more = 0], "session")
    <3> DEFINE all == g.pending \o Owned(h.more)
               k == [g EXCEPT !.pending = all, !.more = 0]
    <3>1. h.more > 0 => h.txn > 0
      BY DEF Ready, Numbered
    <3>2. all \in Seq(1 .. MaxTxns)
      BY <2>1, <2>4, <3>1, OwnedFits, ConcatProperties
    <3>3. Go(k, "session")
      BY <2>4, <2>6 DEF Ready, HostType
    <3> HIDE DEF all
    <3>4. 0 \in Nat
      OBVIOUS
    <3>5. k \in HostType
      BY <2>4, <3>2, <3>4, TransferFits, Zenon DEF Ready
    <3>6. Numbered(k)
      BY <2>4 DEF Ready, HostType, Numbered
    <3> HIDE DEF k
    <3> QED
      BY <3>3, <3>5, <3>6, GoFits
  <2> QED
    BY <2>2, <2>5, <2>6
<1>4. ASSUME TransferFailed PROVE HostOK' /\ LinkOK'
  <2> DEFINE k == [h EXCEPT !.applied = None, !.stream = <<>>, !.want = 0, !.more = 0]
  <2>1. Go(k, "session")
    BY <1>4 DEF TransferFailed, TransferFails
  <2>2. 0 \in Nat
    OBVIOUS
  <2>3. k \in HostType
    BY <2>2, NoneFits, Names, TransferFits, Zenon
  <2>4. Numbered(k)
    BY DEF Ready, HostType, Numbered
  <2> HIDE DEF k
  <2> QED
    BY <2>1, <2>3, <2>4, GoFits
<1> QED
  BY <1>1, <1>2, <1>3, <1>4

\* A frame that arrives, and a deadline that passes.
LEMMA WaitingStepFits ==
  ASSUME IInv, Receive \/ Timeout
  PROVE  HostOK' /\ LinkOK'
<1> USE AtStart
<1>1. h.answer = "wait" /\ InExchange(h) /\ h.skipped <= MaxSkipped
  BY DEF Receive, Timeout, InExchange, Ready, Placed
<1>2. ASSUME Receive PROVE HostOK' /\ LinkOK'
  <2> DEFINE a == Head(in)
             b == (h.heard \/ ~a.stale)
             g == [h EXCEPT !.heard = b]
  <2>1. a \in Frames /\ Tail(in) \in Seq(Frames)
    BY <1>2, HeadTailProperties DEF Receive, LinkOK
  <2>2. g \in HostType
    <3>1. b \in BOOLEAN
      OBVIOUS
    <3> HIDE DEF b
    <3> QED
      BY <3>1, WaitFits, Zenon
  <2>3. InExchange(g) /\ g.answer = "wait" /\ g.skipped <= MaxSkipped
    BY <1>1, <2>2 DEF InExchange, HostType, Numbered
  <2>4. h' = Judged(g, a)
    BY <1>2 DEF Receive, HostType
  <2> HIDE DEF g, a
  <2>5. HostOK'
    BY <2>1, <2>3, <2>4, JudgedFits DEF HostOK
  <2>6. LinkOK'
    BY <1>2, <2>1 DEF Receive, LinkOK
  <2> QED
    BY <2>5, <2>6
<1>3. ASSUME Timeout PROVE HostOK' /\ LinkOK'
  <2>1. h' = GivesUp(h) /\ UNCHANGED link /\ (Fault \/ NoFault)
    BY <1>3 DEF Timeout
  <2>2. InExchange(h') /\ h'.answer = "no"
    BY <1>1, <2>1, GivesUpFits
  <2>3. HostOK'
    BY <2>2 DEF HostOK, Fit, InExchange, Placed
  <2>4. faults' \in 0 .. MaxFaults
    BY <2>1, Counted DEF LinkOK
  <2>5. LinkOK'
    BY <2>1, <2>4 DEF LinkOK, link
  <2> QED
    BY <2>3, <2>5
<1> QED
  BY <1>2, <1>3

\* An answer to a request is a frame.
LEMMA AnswerFits ==
  ASSUME NEW r \in Requests, NEW e \in {"none", "outer", "inner", "malformed", "async"}
  PROVE  Answer(r, e) \in Frames
  BY DEF Answer, Requests, Frames

\* What the chip sees are transactions.
LEMMA ExecutedFits ==
  ASSUME OthersOK, NEW r \in Requests, Sendable(r)
  PROVE  Executed(dev, r) \in [bus : Buses, power : BOOLEAN, cs : BOOLEAN,
                               frame : SUBSET (1 .. MaxTxns)]
<1>1. r.kind \in {"status", "config", "data"} /\ r.stop \in BOOLEAN /\ r.start \in BOOLEAN
      /\ r.bytes \in Seq(1 .. MaxTxns) /\ r.by \in 0 .. MaxTxns /\ r.bus \in Buses
      /\ r.power \in BOOLEAN
  BY DEF Requests, Kinds
<1>2. /\ dev.bus \in Buses /\ dev.power \in BOOLEAN /\ dev.cs \in BOOLEAN
      /\ dev.frame \in SUBSET (1 .. MaxTxns)
      /\ dev = [bus |-> dev.bus, power |-> dev.power, cs |-> dev.cs, frame |-> dev.frame]
  BY DEF OthersOK
<1>3. Framed(dev, r) \in SUBSET (1 .. MaxTxns)
  <2>1. ToSet(r.bytes) \subseteq 1 .. MaxTxns
    <3>1. DOMAIN r.bytes = 1 .. Len(r.bytes)
      BY <1>1, LenProperties
    <3>2. \A i \in 1 .. Len(r.bytes) : r.bytes[i] \in 1 .. MaxTxns
      BY <1>1, ElementOfSeq
    <3> QED
      BY <3>1, <3>2 DEF ToSet
  <2>2. r.read > 0 => r.by \in 1 .. MaxTxns
    BY <1>1, Bounds DEF Sendable
  <2>3. Owners(r) \in SUBSET (1 .. MaxTxns)
    BY <2>1, <2>2 DEF Owners
  <2> QED
    BY <1>2, <2>3 DEF Framed
<1>4. CASE r.kind = "status"
  BY <1>4 DEF Executed, OthersOK
<1>5. CASE r.kind = "config"
  BY <1>1, <1>5 DEF Executed
<1>6. CASE r.kind = "data" /\ r.stop
  <2>1. Executed(dev, r) = [dev EXCEPT !.cs = FALSE, !.frame = {}]
    BY <1>6 DEF Executed
  <2> QED
    BY <1>2, <2>1
<1>7. CASE r.kind = "data" /\ ~r.stop
  <2> DEFINE c == (dev.cs \/ r.start)
             f == Framed(dev, r)
  <2>1. Executed(dev, r) = [dev EXCEPT !.cs = c, !.frame = f]
    BY <1>7 DEF Executed
  <2>2. c \in BOOLEAN
    OBVIOUS
  <2> HIDE DEF c, f
  <2> QED
    BY <1>2, <1>3, <2>1, <2>2 DEF f
<1> QED
  BY <1>1, <1>4, <1>5, <1>6, <1>7

\* A request that is served, or lost.
LEMMA ServedFits ==
  ASSUME IInv, NEW executed \in BOOLEAN, NEW answers \in Seq(Frames),
         Served(executed, answers), Fault \/ NoFault
  PROVE  IInv'
<1> USE AtStart
<1> DEFINE r == Head(out)
<1>1. /\ out \in Seq(Requests) /\ out # <<>> /\ in \in Seq(Frames)
      /\ r \in Requests /\ Tail(out) \in Seq(Requests) /\ Len(out) \in Nat
      /\ Len(Tail(out)) = Len(out) - 1 /\ r = out[1]
      /\ \A i \in 1 .. Len(Tail(out)) : Tail(out)[i] = out[i + 1]
  BY HeadTailProperties DEF LinkOK, Served
<1>2. Sendable(r) /\ \A i \in 1 .. Len(Tail(out)) : Sendable(Tail(out)[i])
  <2>1. \A i \in 1 .. Len(out) : Sendable(out[i])
    BY DEF LinkOK
  <2>2. 1 \in 1 .. Len(out) /\ \A i \in 1 .. Len(Tail(out)) : i + 1 \in 1 .. Len(out)
    BY <1>1, EmptySeq
  <2> QED
    BY <1>1, <2>1, <2>2
<1>3. in \o answers \in Seq(Frames)
  BY <1>1, ConcatProperties
<1>4. faults' \in 0 .. MaxFaults
  BY Counted DEF LinkOK
<1>5. LinkOK'
  BY <1>1, <1>2, <1>3, <1>4 DEF LinkOK, Served
<1>6. HostOK'
  BY DEF Served, IInv, HostOK
<1>7. OthersOK'
  <2>1. dev' \in [bus : Buses, power : BOOLEAN, cs : BOOLEAN, frame : SUBSET (1 .. MaxTxns)]
    <3> HIDE DEF r
    <3>1. Executed(dev, r) \in [bus : Buses, power : BOOLEAN, cs : BOOLEAN,
                                frame : SUBSET (1 .. MaxTxns)]
      BY <1>1, <1>2, ExecutedFits
    <3>2. dev' = dev \/ dev' = Executed(dev, r)
      BY DEF Served, r
    <3> QED
      BY <3>1, <3>2 DEF OthersOK
  <2>2. /\ mixed' = (mixed \/ (executed /\ Cardinality(Framed(dev, Head(out))) > 1))
        /\ UNCHANGED <<menu, fooled, cut, loose>>
    BY DEF Served
  <2>3. mixed' \in BOOLEAN
    BY <2>2, Zenon
  <2> QED
    BY <2>1, <2>2, <2>3 DEF OthersOK
<1> QED
  BY <1>5, <1>6, <1>7 DEF IInv

\* The device and the line.
LEMMA DeviceFits ==
  ASSUME IInv, Serve \/ LinkFails \/ StrayFrame \/ Unplug
  PROVE  IInv'
<1> USE AtStart
<1> DEFINE r == Head(out)
<1>1. ASSUME out # <<>> PROVE r \in Requests
  BY <1>1, HeadTailProperties DEF LinkOK
<1>2. ASSUME Serve PROVE IInv'
  <2> DEFINE verdict == IF Understood(dev, r) THEN "none" ELSE IF r.garbled THEN "outer" ELSE "inner"
  <2>1. Served(Understood(dev, r), <<Answer(r, verdict)>>) /\ NoFault /\ out # <<>>
    BY <1>2 DEF Serve
  <2>2. verdict \in {"none", "outer", "inner", "malformed", "async"}
    OBVIOUS
  <2>3. Understood(dev, r) \in BOOLEAN
    BY DEF Understood
  <2> HIDE DEF verdict
  <2>4. <<Answer(r, verdict)>> \in Seq(Frames)
    BY <1>1, <2>1, <2>2, AnswerFits
  <2> QED
    BY <2>1, <2>3, <2>4, ServedFits
<1>3. ASSUME LinkFails PROVE IInv'
  <2>1. out # <<>> /\ Fault /\ r \in Requests
    BY <1>1, <1>3 DEF LinkFails
  <2>2. /\ Answer(r, "malformed") \in Frames /\ Answer(r, "outer") \in Frames
        /\ Answer(r, "inner") \in Frames
    BY <2>1, AnswerFits
  <2>3. /\ <<>> \in Seq(Frames) /\ <<Answer(r, "malformed")>> \in Seq(Frames)
        /\ <<Answer(r, "outer")>> \in Seq(Frames) /\ <<Answer(r, "inner")>> \in Seq(Frames)
    BY <2>2, EmptySeq
  <2>4. \E x \in BOOLEAN :
          \E s \in {<<>>, <<Answer(r, "malformed")>>, <<Answer(r, "outer")>>, <<Answer(r, "inner")>>} :
            Served(x, s)
    BY <1>3 DEF LinkFails
  <2> QED
    BY <2>1, <2>3, <2>4, ServedFits
<1>4. ASSUME StrayFrame PROVE IInv'
  <2>1. PICK error \in Strays :
          in' = <<Stray(error)>> /\ (Fault \/ NoFault)
    BY <1>4 DEF StrayFrame
  <2>2. Stray(error) \in Frames
    <3>1. error \in {"outer", "async"} /\ 0 \in 0 .. MaxRead
      BY BusPirate5Assumption, Bounds
    <3> QED
      BY <3>1 DEF Stray, Frames, Kinds
  <2>3. in' \in Seq(Frames) /\ faults' \in 0 .. MaxFaults
    BY <2>1, <2>2, Counted DEF LinkOK
  <2>4. UNCHANGED <<h, menu, dev, out, half, dead, history>>
    BY <1>4 DEF StrayFrame
  <2>5. LinkOK'
    BY <2>3, <2>4 DEF LinkOK
  <2> QED
    BY <2>4, <2>5 DEF IInv, HostOK, OthersOK, history
<1>5. ASSUME Unplug PROVE IInv'
  <2>1. LinkOK'
    <3>1. faults' \in 0 .. MaxFaults
      BY <1>5, Counted DEF Unplug, LinkOK
    <3>2. out' = <<>> /\ in' = <<>> /\ half' \in BOOLEAN /\ dead' \in BOOLEAN
      BY <1>5 DEF Unplug, IsOpen
    <3> QED
      BY <3>1, <3>2, EmptySeq DEF LinkOK
  <2>2. OthersOK'
    BY <1>5 DEF Unplug, OthersOK, history, Off, Buses
  <2>3. HostOK'
    BY <1>5 DEF Unplug, IInv, HostOK
  <2> QED
    BY <2>1, <2>2, <2>3 DEF IInv
<1> QED
  BY <1>2, <1>3, <1>4, <1>5

-----------------------------------------------------------------------------
(***************************************************************************)
(* The theorems.                                                           *)
(***************************************************************************)
\* The host changes neither the settings nor the device, and the histories are
\* Boolean.
LEMMA HostLeaves ==
  ASSUME OthersOK, Host \/ Handlers \/ Receive \/ Timeout
  PROVE  OthersOK'
<1>1. CASE Local
  BY <1>1 DEF Local, OthersOK, history
<1>2. CASE TransferFails
  BY <1>2 DEF TransferFails, OthersOK
<1>3. CASE Receive
  BY <1>3 DEF Receive, Loosened, OthersOK
<1>4. CASE Timeout
  BY <1>4 DEF Timeout, Loosened, OthersOK, link
<1>5. CASE ChangeMenu
  BY <1>5 DEF ChangeMenu, OthersOK, history
<1> QED
  BY <1>1, <1>2, <1>3, <1>4, <1>5
  DEF Host, Handlers, Drain, ResyncStatus, ResyncAnswered, ResyncConfigured, Probe, Probed, Full,
      Ping, FastRelease, Configured, DownRelease, PoweredDown, Pushed, Asserted, Sliced,
      TransferFailed, Released, DevOpen, Command, Queue, Finish, SPIDeinit, DevClose, LeftOpen,
      Disconnect

\* The invariant holds initially.
LEMMA IInvInit == Init => IInv
<1> SUFFICES ASSUME Init PROVE IInv
  OBVIOUS
<1>1. /\ 0 \in 0 .. MaxSkipped + 1 /\ 0 \in 0 .. MaxTxns /\ 0 \in 0 .. MaxFaults /\ 0 \in Nat
      /\ <<>> \in Seq(1 .. MaxTxns) /\ None \in Configs /\ Status \in Requests
  BY Bounds, Names, NoneFits, StatusFits
<1>2. /\ "idle" \in Places /\ "none" \in Sites /\ "none" \in Results /\ "closed" \in Modes
      /\ "none" \in Words /\ NoCall \in Transactions \cup {NoCall} /\ FALSE \in BOOLEAN
      /\ TRUE \in BOOLEAN
  BY Names
<1>3. Host0 \in HostType
  BY <1>1, <1>2, Zenon DEF Host0, HostType
<1>4. Placed(Host0) /\ Numbered(Host0)
  BY Bounds DEF Host0, Placed, Numbered, SiteFits, Waits, Recovery, Connecting
<1>5. LinkOK
  <2>1. out = <<>> /\ in = <<>> /\ half = FALSE /\ dead = FALSE /\ faults = 0 /\ Len(out) = 0
    BY DEF Init
  <2>2. out \in Seq(Requests) /\ in \in Seq(Frames)
    BY <2>1, EmptySeq
  <2>3. \A i \in 1 .. Len(out) : Sendable(out[i])
    BY <2>1
  <2> QED
    BY <1>1, <2>1, <2>2, <2>3 DEF LinkOK
<1>6. OthersOK
  BY DEF Init, OthersOK, Off, Buses
<1> QED
  BY <1>3, <1>4, <1>5, <1>6 DEF Init, IInv, HostOK, Fit

\* Every step keeps the invariant.
LEMMA IInvStep == IInv /\ [Next]_vars => IInv'
<1> SUFFICES ASSUME IInv, [Next]_vars PROVE IInv'
  OBVIOUS
<1>1. CASE UNCHANGED vars
  BY <1>1 DEF vars, link, history, IInv, HostOK, LinkOK, OthersOK
<1>2. CASE Serve \/ LinkFails \/ StrayFrame \/ Unplug
  BY <1>2, DeviceFits
<1>3. CASE Host \/ Handlers \/ Receive \/ Timeout
  <2>1. OthersOK'
    BY <1>3, HostLeaves DEF IInv
  <2>2. CASE ChangeMenu
    <3>1. HostOK' /\ LinkOK'
      BY <2>2 DEF ChangeMenu, IInv, HostOK, LinkOK, link
    <3> QED
      BY <2>1, <3>1 DEF IInv
  <2>3. CASE ~ChangeMenu
    <3>1. HostOK' /\ LinkOK'
      BY <1>3, <2>3, RecoveryFits, OpeningFits, ClosingFits, CallingFits, TransactionFits,
         TransferGoesOnFits, WaitingStepFits DEF Host, Handlers
    <3> QED
      BY <2>1, <3>1 DEF IInv
  <2> QED
    BY <2>2, <2>3
<1> QED
  BY <1>1, <1>2, <1>3 DEF Next

\* The invariant is inductive.
LEMMA Inductive == Spec => []IInv
<1>1. Init => IInv
  BY IInvInit
<1>2. IInv /\ [Next]_vars => IInv'
  BY IInvStep
<1> QED
  BY <1>1, <1>2, PTL DEF Spec

\* Every part of the state keeps its type.
THEOREM BusPirate5TypeOK == Spec => []TypeOK
<1>1. IInv => TypeOK
  BY DEF IInv, HostOK, Fit, LinkOK, OthersOK, TypeOK, Frames
<1> QED
  BY <1>1, Inductive, PTL

\* For every slice length and queue limit, whatever the handler asks for and
\* whatever the link does: no request the engine has under way reads or writes more
\* than the device takes, or opens a frame with a read and no byte to write.
THEOREM BusPirate5NoLandmine == Spec => []NoLandmine
<1>1. IInv => NoLandmine
  BY DEF IInv, LinkOK, NoLandmine, Sendable, ToSet
<1> QED
  BY <1>1, Inductive, PTL
=============================================================================
