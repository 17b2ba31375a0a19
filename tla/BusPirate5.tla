----------------------------- MODULE BusPirate5 -----------------------------
(***************************************************************************)
(* buspirate5hw.pas: the BPIO2 engine TBusPirate5 and the hardware class   *)
(* TBusPirate5Hardware that the handlers of main.pas call.                 *)
(*                                                                         *)
(* Every exchange with the device is Transact: send one request, wait for  *)
(* its answer. An action is the code between two of them. pc names the     *)
(* request that is being waited for, or idle (no handler runs), session (a *)
(* handler runs) and drain (Resync waits for the line to go quiet).        *)
(***************************************************************************)
EXTENDS BpioDevice

CONSTANTS
  Calls,       \* SPI transactions a handler may make, see Transactions
  Menus,       \* settings the user may choose, see MenuType
  MaxWrite,    \* BP5_MAX_WRITE
  MaxRead,     \* BP5_MAX_READ
  QueueLimit,  \* the 65536 bytes SPIQueueWrite holds back at most
  MaxSkipped,  \* the 8 frames Transact discards before it gives up
  MaxTxns,     \* bound on the transactions of one behaviour
  MaxFaults,   \* bound on the failures of the link in one behaviour
  Strays,      \* errors of the frames nobody asked for that may arrive
  Partial      \* whether a write to the port may stop half way

\* The lengths q of the SPIWrite calls with CS = 0, then w bytes through SPIWrite or
\* r bytes through SPIRead with CS = 1: the handlers' transactions all end with some.
Transactions == {c \in [q : Seq(Nat \ {0}), w : Nat, r : Nat] : c.w + c.r > 0}

\* bus and power: the radio buttons and Power ON; reset: Reset on every operation.
MenuType == [bus : {"SPI", "I2C"}, power : BOOLEAN, reset : BOOLEAN]

ASSUME BusPirate5Assumption ==
  /\ Calls \subseteq Transactions
  /\ Menus \subseteq MenuType /\ Menus # {}
  /\ {MaxWrite, MaxRead, QueueLimit, MaxSkipped} \subseteq Nat \ {0}
  /\ {MaxTxns, MaxFaults} \subseteq Nat
  /\ Strays \subseteq {"outer", "async"}
  /\ Partial \in BOOLEAN

VARIABLES
  h,       \* the host: both classes, see HostType
  menu,    \* the settings menu
  dev,     \* the device
  out,     \* requests on their way to the device, in order
  in,      \* answers on their way to the host, in order
  half,    \* the device holds half a request frame
  dead,    \* the open port handle leads nowhere: the device was unplugged
  faults,  \* failures so far
  fooled,  \* history: an answer was taken for another request's
  mixed,   \* history: the chip saw one frame made of two transactions
  cut,     \* history: a transaction was refused with the chip selected
  loose    \* history: a request was taken for refused and nobody had said so

link == <<out, in, half, dead>>
history == <<fooled, mixed, cut, loose>>
vars == <<h, menu, dev, link, faults, history>>

None == [bus |-> "HiZ", power |-> FALSE]
Wanted == [bus |-> menu.bus, power |-> menu.power]

Waits == {"resync_status", "resync_config", "probe", "full", "ping", "fast_release",
          "configure", "push", "assert", "slice", "release", "down_release", "hiz"}

(***************************************************************************)
(* pc, site: where the code is, and on whose behalf Resync, Connect or     *)
(* SPIReleaseCS runs; answer: what Transact has returned, "wait" until it  *)
(* has; graced: staleErr # ''; req: the request it waits for.              *)
(* mode .. pending: FMode, FDesynced, FRecovering, FCSAsserted, FPending;  *)
(* conf: FSPI or FI2C. stream, want, stop, more: SPITransfer's bytes to    *)
(* send and to read, its Deassert, and what is queued after a flush.       *)
(* applied, opened: FAppliedConfig, FDevOpened. call, txn: what is still   *)
(* to come of the handler's transaction, and its number.                   *)
(* History: heard, the answer to req itself has arrived; told, the last    *)
(* word on the target's supply; tried, the HiZ request went out on the     *)
(* wire; since, faults when DevOpen was called; sound, whether the port    *)
(* took what was written to it then.                                       *)
(***************************************************************************)
NoCall == [q |-> <<>>, w |-> 0, r |-> 0]

Host0 ==
  [pc |-> "idle", site |-> "none", answer |-> "none", graced |-> FALSE, skipped |-> 0,
   req |-> Status, heard |-> FALSE, mode |-> "closed", desynced |-> FALSE, recovering |-> FALSE,
   cs |-> FALSE, pending |-> <<>>, conf |-> None, stream |-> <<>>, want |-> 0,
   stop |-> FALSE, more |-> 0, applied |-> None, opened |-> FALSE, call |-> NoCall,
   txn |-> 0, told |-> "none", tried |-> FALSE, since |-> 0, sound |-> TRUE]

IsOpen(g) == g.mode # "closed"

Fault == faults < MaxFaults /\ faults' = faults + 1
NoFault == UNCHANGED faults

-----------------------------------------------------------------------------
(***************************************************************************)
(* Transact. Ask sends request r and waits for it at p, unless the link is *)
(* out of step. Purge throws away what has arrived: some prefix of in.     *)
(***************************************************************************)
Returned(g, p, result) == [g EXCEPT !.pc = p, !.answer = result]

\* Mutant of Gate: Transact goes ahead on a link that is out of step.
GateOpen(g) == FALSE

Gate(g) == g.desynced /\ ~g.recovering

Sent(g, p, r) ==
  /\ h' = [g EXCEPT !.pc = p, !.answer = "wait", !.graced = FALSE, !.skipped = 0,
                    !.req = r, !.heard = FALSE]
  /\ \E n \in 0 .. Len(in) : in' = Outdated(SubSeq(in, n + 1, Len(in)))
  /\ out' = Append(Outdated(out), [r EXCEPT !.garbled = half])
  /\ half' = FALSE
  /\ UNCHANGED dead /\ NoFault

\* WriteAll fails, and with it Transact; not a desync.
WriteFails(g, p) ==
  /\ h' = Returned(g, p, "no")
  /\ \/ dead /\ NoFault /\ UNCHANGED half
     \/ ~dead /\ Partial /\ Fault /\ half' = TRUE
  /\ UNCHANGED <<out, in, dead>>

Ask(g, p, r) ==
  \/ Gate(g) /\ h' = Returned(g, p, "no") /\ UNCHANGED link /\ NoFault
  \/ ~Gate(g) /\ ~dead /\ Sent(g, p, r)
  \/ ~Gate(g) /\ WriteFails(g, p)

\* Going on without a request.
Go(g, p) == h' = Returned(g, p, "none") /\ UNCHANGED link /\ NoFault

MarkDesynced(g) ==
  IF g.desynced \/ g.recovering THEN g
  ELSE [g EXCEPT !.desynced = TRUE, !.pending = <<>>]

Fails(g) == [g EXCEPT !.answer = "no"]

\* The deadline has passed, or too many frames were discarded.
GivesUp(g) == Fails(IF g.graced THEN g ELSE MarkDesynced(g))

\* Mutant of Discard: no limit on the discarded frames.
DiscardForever(g) == g

Discard(g) ==
  IF g.skipped + 1 > MaxSkipped THEN GivesUp([g EXCEPT !.skipped = @ + 1])
  ELSE [g EXCEPT !.skipped = @ + 1]

\* Mutant of Matches: any answer without an error will do.
MatchesAny(g, a) == TRUE

Matches(g, a) == a.kind = g.req.kind

\* A request that reads must be given as many bytes as it asked for.
Delivered(g, a) == a.kind # "data" \/ g.req.read \in {0, a.read}

Judged(g, a) ==
  CASE a.error = "malformed"             -> Fails(MarkDesynced(g))
    [] a.error = "outer" /\ g.graced     -> Fails(g)
    [] a.error = "outer" /\ ~g.graced    -> Discard([g EXCEPT !.graced = TRUE])
    [] a.error \notin {"malformed", "outer"} /\ ~Matches(g, a) -> Discard(g)
    [] a.error = "async" /\ Matches(g, a) -> Discard(g)
    [] a.error = "inner" /\ Matches(g, a) -> Fails(g)
    [] a.error = "none" /\ Matches(g, a)  ->
         IF Delivered(g, a) THEN [g EXCEPT !.answer = "ok"] ELSE Fails(g)

\* The answer may still come, late.
StillToCome == \E s \in ToSet(out) \cup ToSet(in) : ~s.stale

\* A request is taken for refused, and the session for in step, on the strength of
\* a frame that answers something else.
Loosened ==
  loose \/ (h'.answer = "no" /\ ~h'.desynced /\ ~h'.recovering /\ ~h'.heard)

\* The next frame arrives.
Receive ==
  /\ h.answer = "wait" /\ in # <<>>
  /\ h' = Judged([h EXCEPT !.heard = @ \/ ~Head(in).stale], Head(in))
  /\ in' = Tail(in)
  /\ fooled' = (fooled \/ (h'.answer = "ok" /\ Head(in).stale /\ Head(in).kind # "status"))
  /\ loose' = Loosened
  /\ UNCHANGED <<menu, dev, out, half, dead, faults, mixed, cut>>

Timeout ==
  /\ h.answer = "wait"
  /\ h' = GivesUp(h)
  /\ IF StillToCome THEN Fault ELSE NoFault
  /\ loose' = Loosened
  /\ UNCHANGED <<menu, dev, link, fooled, mixed, cut>>

-----------------------------------------------------------------------------
(***************************************************************************)
(* The engine's Close and Open, and Resync.                                *)
(***************************************************************************)
\* TBusPirate5.Close.
EngineClosed(g) ==
  [g EXCEPT !.mode = "closed", !.pending = <<>>, !.cs = FALSE, !.desynced = FALSE,
            !.recovering = FALSE]

\* The queue is dropped, the chip deselected by the configuration that follows.
Forgotten(g) == [g EXCEPT !.pending = <<>>, !.cs = FALSE]

\* Resync sends a lone delimiter, which ends half a frame, and drains the line. The
\* write may fail; its result is ignored.
Resync(g, site) ==
  /\ h' = Returned([g EXCEPT !.site = site, !.recovering = TRUE], "drain", "none")
  /\ \/ half /\ half' = FALSE /\ NoFault
        /\ out' = Append(out, [Status EXCEPT !.garbled = TRUE, !.stale = TRUE])
     \/ half /\ Fault /\ UNCHANGED <<out, half>>
     \/ ~half /\ NoFault /\ UNCHANGED <<out, half>>
  /\ UNCHANGED <<in, dead>>

\* Connect: a port that is there is opened afresh, and what waits on it is thrown
\* away. Otherwise DevOpen fails.
Connect(g, site) ==
  LET closed == [EngineClosed(g) EXCEPT !.applied = None, !.site = site] IN
  /\ \/ h' = Returned([closed EXCEPT !.mode = "unknown"], "opening", "none")
        /\ in' = <<>> /\ dead' = FALSE /\ NoFault
     \/ h' = Returned(closed, "session", "none")
        /\ Fault /\ UNCHANGED <<in, dead>>
  /\ UNCHANGED <<out, half>>

\* Everything outside Transact that changes neither the settings nor the device.
Local == UNCHANGED <<menu, dev, history>>

At(p) == h.pc = p /\ h.answer = "none"
Answered(p) == h.pc = p /\ h.answer \in {"ok", "no"}
Ok == h.answer = "ok"

\* That the device has finished answering by then, or within the five seconds the
\* drain lasts at most, is assumed.
Drain ==
  /\ At("drain") /\ (dead \/ out = <<>>)
  /\ h' = Returned(Forgotten(h), "drained", "none")
  /\ in' = <<>>
  /\ UNCHANGED <<out, half, dead>> /\ NoFault /\ Local

ResyncStatus == At("drained") /\ Ask(h, "resync_status", Status) /\ Local

-----------------------------------------------------------------------------
(***************************************************************************)
(* DevOpen.                                                                *)
(***************************************************************************)
Release == Data(FALSE, TRUE, <<>>, 0, h.txn)

Configure(g) ==
  Ask([g EXCEPT !.applied = None, !.pending = <<>>], "configure", Config(Wanted))

\* lostPing: one attempt to re-arm before the port is torn down.
LostPing(g) == IF g.desynced THEN Resync(g, "ping") ELSE Connect(g, "ping")

\* Mutant of Current: the signature leaves out the bus.
CurrentSupply(g) == g.applied # None /\ g.applied.power = menu.power

\* The signature of the settings is the one the device was given.
Current(g) == g.applied = Wanted

\* Same settings, device still answering.
FastPath(g) ==
  CASE menu.reset \/ ~IsOpen(g) -> Connect(g, "ping")
    [] ~menu.reset /\ IsOpen(g) /\ ~Current(g) -> Configure(g)
    [] ~menu.reset /\ IsOpen(g) /\ Current(g) ->
         IF g.pending # <<>> THEN LostPing(g) ELSE Ask(g, "ping", Status)

\* Mutant of Begin: nothing is done about a link that is out of step.
BeginUnarmed(g) == FastPath(g)

\* Resync gives up at once when the port is closed.
Begin(g) ==
  CASE g.desynced /\ IsOpen(g)  -> Resync([g EXCEPT !.applied = None], "open")
    [] g.desynced /\ ~IsOpen(g) -> Connect(g, "open")
    [] ~g.desynced               -> FastPath(g)

DevOpen ==
  /\ At("idle")
  /\ Begin([h EXCEPT !.opened = FALSE, !.told = "none", !.tried = FALSE,
                       !.since = faults, !.sound = ~half /\ ~dead])
  /\ Local

Opened(g) == Go([g EXCEPT !.opened = TRUE], "session")

Probe == At("opening") /\ Ask(h, "probe", Status) /\ Local

\* The port is closed when nothing answers; FDesynced stays.
Probed ==
  /\ Answered("probe")
  /\ IF Ok THEN Ask(h, "full", Status) ELSE Go([h EXCEPT !.mode = "closed"], "session")
  /\ Local

\* The full status may fail; "it must not survive as a desync flag".
FullDone(g) == [g EXCEPT !.desynced = FALSE, !.pending = <<>>]

Full ==
  /\ Answered("full")
  /\ LET g == IF Ok THEN h ELSE FullDone(h) IN
     IF h.site = "open" THEN FastPath(g) ELSE Configure(g)
  /\ Local

Ping ==
  /\ Answered("ping")
  /\ CASE ~Ok                             -> LostPing(h)
       [] Ok /\ ~(h.mode = "SPI" /\ h.cs) -> Opened(h)
       [] Ok /\ h.mode = "SPI" /\ h.cs    -> Ask(h, "fast_release", Release)
  /\ Local

FastRelease ==
  /\ Answered("fast_release")
  /\ IF Ok THEN Opened([h EXCEPT !.cs = FALSE]) ELSE LostPing(h)
  /\ Local

\* Mutant of Entered: the host still believes the chip is selected.
EnteredSelected(g, c) == [g EXCEPT !.mode = c.bus, !.conf = c]

\* EnterSPI and EnterI2C, after their configuration was accepted.
Entered(g, c) ==
  [g EXCEPT !.mode = c.bus, !.conf = c, !.cs = IF c.bus = "SPI" THEN FALSE ELSE @]

Configured ==
  /\ Answered("configure")
  /\ IF Ok THEN Opened([Entered(h, Wanted) EXCEPT !.applied = Wanted]) ELSE Go(h, "session")
  /\ Local

-----------------------------------------------------------------------------
(***************************************************************************)
(* SafePowerDown, and what follows Resync.                                 *)
(***************************************************************************)
HiZ == Config([bus |-> "HiZ", power |-> FALSE])

\* EnterHiZ.
GoHiZ(g) == Ask([g EXCEPT !.tried = @ \/ ~Gate(g)], "hiz", HiZ)

\* What DevClose and Disconnect do after SafePowerDown.
Closed(g, told) ==
  Go([EngineClosed(g) EXCEPT !.applied = None, !.opened = FALSE, !.told = told], "idle")

\* Pins and supply off, on a link that is in step or has been re-armed.
PowerDown(g) ==
  LET q == IF g.mode = "SPI" THEN [g EXCEPT !.pending = <<>>] ELSE g IN
  IF q.mode = "SPI" /\ q.cs THEN Ask(q, "down_release", Release) ELSE GoHiZ(q)

SafePowerDown(g) ==
  CASE ~IsOpen(g)               -> Closed(g, "none")
    [] IsOpen(g) /\ g.desynced  -> Resync(g, "down")
    [] IsOpen(g) /\ ~g.desynced -> PowerDown(g)

DownRelease ==
  /\ Answered("down_release")
  /\ GoHiZ(IF Ok THEN [h EXCEPT !.cs = FALSE] ELSE h)
  /\ Local

PoweredDown ==
  /\ Answered("hiz")
  /\ Closed(h, IF Ok THEN "off" ELSE "maybe")
  /\ Local

Rearmed(r, ok) ==
  LET g == [r EXCEPT !.recovering = FALSE, !.desynced = ~ok] IN
  CASE h.site = "open"            -> IF ok THEN FastPath(g) ELSE Connect(g, "open")
    [] h.site = "ping"            -> IF ok THEN Configure(g) ELSE Connect(g, "ping")
    [] h.site = "down" /\ ok      -> PowerDown(g)
    [] h.site = "down" /\ ~ok     -> Closed(g, "unreachable")

ResyncAnswered ==
  /\ Answered("resync_status")
  /\ IF Ok /\ h.mode \in {"SPI", "I2C"}
       THEN Ask([h EXCEPT !.pending = <<>>], "resync_config", Config(h.conf))
       ELSE Rearmed(h, Ok)
  /\ Local

\* The mode is entered again with the settings it had.
ResyncConfigured ==
  /\ Answered("resync_config")
  /\ Rearmed(IF Ok THEN Entered(h, h.conf) ELSE h, Ok)
  /\ Local

Disconnect ==
  /\ At("idle")
  /\ SafePowerDown([h EXCEPT !.opened = FALSE, !.told = "none", !.tried = FALSE])
  /\ Local

-----------------------------------------------------------------------------
(***************************************************************************)
(* SPI. SPITransfer sends what was queued and its own bytes, the part that *)
(* does not fit beside the read first, and reads in slices; chip select is *)
(* held until the last one.                                                *)
(***************************************************************************)
Owned(n) == [i \in 1 .. n |-> h.txn]

\* Mutant of ReadSlice: a read is not cut.
ReadSliceWhole(g) == g.want

ReadSlice(g) == IF g.want > MaxRead THEN MaxRead ELSE g.want

StopMain(g) == g.stop /\ ReadSlice(g) = g.want

\* Mutant of NeedsAssert: a read opens the transaction by itself.
NeedsAssertNever(g) == FALSE

\* Nothing to write but CS is idle: it is asserted on its own first.
NeedsAssert(g) == g.stream = <<>> /\ g.want > 0 /\ ~g.cs

Transfer(g) ==
  CASE Len(g.stream) > MaxWrite ->
         Ask(g, "push", Data(~g.cs, FALSE, SubSeq(g.stream, 1, MaxWrite), 0, g.txn))
    [] Len(g.stream) <= MaxWrite /\ NeedsAssert(g) ->
         Ask(g, "assert", Data(TRUE, FALSE, <<>>, 0, g.txn))
    [] Len(g.stream) <= MaxWrite /\ ~NeedsAssert(g) ->
         Ask(g, "slice", Data(~g.cs, StopMain(g), g.stream, ReadSlice(g), g.txn))

\* Mutant of Claimed: the bytes stay queued while they are sent.
ClaimedKept(g, bytes) == [g EXCEPT !.stream = g.pending \o bytes]

\* The queue is this transfer's write stream, claimed before anything is sent.
Claimed(g, bytes) == [g EXCEPT !.stream = g.pending \o bytes, !.pending = <<>>]

\* A handler of main.pas calls nothing but DevClose after SPIDeinit.
InSession == At("session") /\ h.opened /\ h.mode = "SPI" /\ h.site # "deinit"

\* The handler has another transaction to make. Bound: MaxTxns.
Command ==
  /\ InSession /\ h.call = NoCall /\ h.txn < MaxTxns
  /\ \E c \in Calls : Go([h EXCEPT !.txn = @ + 1, !.call = c], "session")
  /\ Local

\* SPIWrite with CS = 0. What is queued is sent first when it would grow too long.
Queue ==
  /\ InSession /\ h.call.q # <<>>
  /\ LET n == Head(h.call.q)
         g == [h EXCEPT !.call.q = Tail(@)] IN
     IF g.pending # <<>> /\ Len(g.pending) + n > QueueLimit
       THEN Transfer([Claimed(g, <<>>) EXCEPT !.want = 0, !.stop = FALSE, !.more = n])
       ELSE Go([g EXCEPT !.pending = @ \o Owned(n)], "session")
  /\ Local

\* SPIWrite or SPIRead with CS = 1.
Finish ==
  /\ InSession /\ h.call # NoCall /\ h.call.q = <<>>
  /\ Transfer([Claimed(h, Owned(h.call.w)) EXCEPT !.want = h.call.r, !.stop = TRUE,
                                                  !.more = 0, !.call = NoCall])
  /\ Local

\* Complain: the session is suspect. Nothing is left to send.
TransferFails ==
  /\ Go([h EXCEPT !.applied = None, !.stream = <<>>, !.want = 0, !.more = 0], "session")
  /\ cut' = (cut \/ (h.cs /\ ~h.desynced))
  /\ UNCHANGED <<menu, dev, fooled, mixed, loose>>

Pushed ==
  /\ Answered("push") /\ Ok
  /\ Transfer([h EXCEPT !.cs = TRUE, !.stream = SubSeq(@, MaxWrite + 1, Len(@))])
  /\ Local

Asserted == Answered("assert") /\ Ok /\ Transfer([h EXCEPT !.cs = TRUE]) /\ Local

Sliced ==
  /\ Answered("slice") /\ Ok
  /\ LET g == [h EXCEPT !.cs = ~StopMain(h), !.stream = <<>>, !.want = @ - ReadSlice(h)] IN
     IF g.want > 0 THEN Transfer(g)
     ELSE Go([g EXCEPT !.pending = @ \o Owned(h.more), !.more = 0], "session")
  /\ Local

TransferFailed == h.pc \in {"push", "assert", "slice"} /\ h.answer = "no" /\ TransferFails

-----------------------------------------------------------------------------
(***************************************************************************)
(* DevClose and SPIDeinit.                                                 *)
(***************************************************************************)
AfterRelease(g) ==
  CASE g.site = "deinit"                -> Go(g, "session")
    [] g.site = "close" /\ menu.reset   -> SafePowerDown(g)
    [] g.site = "close" /\ ~menu.reset  -> Go(g, "idle")

\* SPIDropQueued.
Dropped(g) == [g EXCEPT !.pending = <<>>]

SPIReleaseCS(g) ==
  IF g.mode # "SPI" THEN AfterRelease(g)
  ELSE IF g.cs THEN Ask(Dropped(g), "release", Release) ELSE AfterRelease(Dropped(g))

SPIDeinit ==
  /\ InSession
  /\ SPIReleaseCS([h EXCEPT !.call = NoCall, !.site = "deinit"])
  /\ Local

DevClose ==
  /\ At("session")
  /\ LET g == [h EXCEPT !.call = NoCall, !.opened = FALSE, !.site = "close"] IN
     IF IsOpen(g) THEN SPIReleaseCS(g) ELSE Go(g, "idle")
  /\ Local

\* ButtonReadIDClick leaves without DevClose when DevOpen fails, and for a KB part.
LeftOpen ==
  /\ At("session") /\ (h.site = "deinit" \/ ~h.opened)
  /\ Go([h EXCEPT !.call = NoCall, !.site = "none"], "idle")
  /\ Local

Released ==
  /\ Answered("release")
  /\ AfterRelease(IF Ok THEN [h EXCEPT !.cs = FALSE] ELSE h)
  /\ Local

-----------------------------------------------------------------------------
(***************************************************************************)
(* The device, the line and the user.                                      *)
(***************************************************************************)
\* The device takes the next request, carries it out or not, and its answer
\* arrives or not.
Served(executed, answers) ==
  /\ out # <<>>
  /\ out' = Tail(out)
  /\ in' = in \o answers
  /\ dev' = IF executed THEN Executed(dev, Head(out)) ELSE dev
  /\ mixed' = (mixed \/ (executed /\ Cardinality(Framed(dev, Head(out))) > 1))
  /\ UNCHANGED <<h, menu, half, dead, fooled, cut, loose>>

Serve ==
  /\ out # <<>>
  /\ LET r == Head(out) IN
     Served(Understood(dev, r),
            <<Answer(r, IF Understood(dev, r) THEN "none"
                        ELSE IF r.garbled THEN "outer" ELSE "inner")>>)
  /\ NoFault

\* A request or its answer is lost or damaged on the way, or it is refused.
LinkFails ==
  /\ out # <<>> /\ Understood(dev, Head(out))
  /\ \/ Served(FALSE, <<>>)
     \/ Served(TRUE, <<>>)
     \/ Served(TRUE, <<Answer(Head(out), "malformed")>>)
     \/ \E error \in {"outer", "inner"} : Served(FALSE, <<Answer(Head(out), error)>>)
  /\ Fault

\* A frame nobody asked for. What the device sends on its own is no failure. One
\* that arrives earlier is purged or still there, so it need not come before the wait.
\* Bound: none arrives with more than one request still to be served.
StrayFrame ==
  /\ h.answer = "wait" /\ in = <<>> /\ Len(out) <= 1
  /\ \E error \in Strays :
       /\ in' = <<Stray(error)>>
       /\ IF error = "async" THEN NoFault ELSE Fault
  /\ UNCHANGED <<h, menu, dev, out, half, dead, history>>

\* The device is pulled out and put back: it starts afresh, and the port that
\* was open leads nowhere.
Unplug ==
  /\ Fault
  /\ dev' = Off
  /\ out' = <<>> /\ in' = <<>> /\ half' = FALSE
  /\ dead' = IsOpen(h)
  /\ UNCHANGED <<h, menu, history>>

ChangeMenu ==
  /\ At("idle")
  /\ menu' \in Menus
  /\ UNCHANGED <<h, dev, link, faults, history>>

Init ==
  /\ h = Host0 /\ menu \in Menus /\ dev = Off
  /\ out = <<>> /\ in = <<>> /\ half = FALSE /\ dead = FALSE
  /\ faults = 0
  /\ fooled = FALSE /\ mixed = FALSE /\ cut = FALSE /\ loose = FALSE

\* What the host does without anyone else: the code between two requests.
Host ==
  \/ Drain \/ ResyncStatus \/ ResyncAnswered \/ ResyncConfigured
  \/ Probe \/ Probed \/ Full \/ Ping \/ FastRelease \/ Configured
  \/ DownRelease \/ PoweredDown
  \/ Pushed \/ Asserted \/ Sliced \/ TransferFailed \/ Released

\* The calls of the handlers, and the user's.
Handlers == DevOpen \/ Command \/ Queue \/ Finish \/ SPIDeinit \/ DevClose \/ LeftOpen \/ Disconnect \/ ChangeMenu

Next ==
  \/ Handlers \/ Host \/ Receive \/ Timeout
  \/ Serve \/ LinkFails \/ StrayFrame \/ Unplug

Spec == Init /\ [][Next]_vars

\* The code runs on, the device serves what reaches it, what has arrived is
\* read, and a wait on a silent line comes to its deadline. That deadlines also
\* pass while frames keep coming is not assumed.
FairSpec ==
  /\ Spec
  /\ WF_vars(Host) /\ WF_vars(Receive) /\ WF_vars(Serve)
  /\ WF_vars(in = <<>> /\ Timeout)

-----------------------------------------------------------------------------
(***************************************************************************)
(* Properties.                                                             *)
(***************************************************************************)
Requests ==
  [kind : Kinds, stale : BOOLEAN, garbled : BOOLEAN, bus : Buses, power : BOOLEAN,
   start : BOOLEAN, stop : BOOLEAN, bytes : Seq(1 .. MaxTxns), read : 0 .. MaxRead,
   by : 0 .. MaxTxns]

Configs == [bus : Buses, power : BOOLEAN]

Places == Waits \cup {"idle", "session", "drain", "drained", "opening"}
Sites == {"none", "open", "ping", "down", "close", "deinit"}
Results == {"none", "wait", "ok", "no"}
Modes == {"closed", "unknown", "HiZ", "SPI", "I2C"}
Words == {"none", "off", "maybe", "unreachable"}

HostType ==
  [pc : Places, site : Sites, answer : Results, graced : BOOLEAN,
   skipped : 0 .. MaxSkipped + 1, req : Requests, heard : BOOLEAN,
   mode : Modes, desynced : BOOLEAN,
   recovering : BOOLEAN, cs : BOOLEAN, pending : Seq(1 .. MaxTxns), conf : Configs,
   stream : Seq(1 .. MaxTxns), want : Nat, stop : BOOLEAN, more : Nat,
   applied : Configs, opened : BOOLEAN, call : Transactions \cup {NoCall}, txn : 0 .. MaxTxns,
   told : Words, tried : BOOLEAN, since : 0 .. MaxFaults, sound : BOOLEAN]

TypeOK ==
  /\ h \in HostType /\ menu \in Menus
  /\ dev \in [bus : Buses, power : BOOLEAN, cs : BOOLEAN, frame : SUBSET (1 .. MaxTxns)]
  /\ out \in Seq(Requests)
  /\ in \in Seq([kind : Kinds, stale : BOOLEAN, read : 0 .. MaxRead,
                 error : {"none", "outer", "inner", "malformed", "async"}])
  /\ half \in BOOLEAN /\ dead \in BOOLEAN /\ faults \in 0 .. MaxFaults
  /\ {fooled, mixed, cut, loose} \subseteq BOOLEAN

\* EncodeData's assertions, the "firmware landmines": however a transfer is cut
\* into slices, resumed or flushed, no request reads or writes more than the
\* device takes, or opens a frame with a read and no byte to write.
NoLandmine ==
  \A r \in ToSet(out) : r.kind = "data" =>
    r.read <= MaxRead /\ Len(r.bytes) <= MaxWrite
      /\ ~(r.start /\ r.read > 0 /\ r.bytes = <<>>)

\* No request is taken for done on the strength of another one's answer, however
\* late answers come: unless a request was taken for refused before its answer had
\* arrived, which the grace window for error frames allows (NeverFooled).
Attributed == fooled => loose

\* Transact's comments: "A frame that cannot be the answer to THIS request has to be
\* thrown away rather than reported, or one stray packet desynchronises every
\* operation that follows", and after the grace window "The device did answer, and
\* the stream is in step": the same without the exception.
NeverFooled == ~fooled

\* The chip never sees the bytes of two transactions between one assertion of
\* chip select and the next release: neither what an abandoned operation left
\* in the queue, nor a transfer continued on a frame that a failure left open;
\* unless the device refused a request in the middle of a transfer, and with the
\* same exception.
Whole == mixed => cut \/ loose

\* Between two exchanges on a link that is in step the engine knows whether the
\* chip is selected, whatever has failed before, with the same exception.
ChipSelectKnown ==
  (h.answer = "none" /\ h.pc \in {"idle", "session"} /\ h.mode = "SPI"
     /\ ~h.desynced /\ ~dead /\ ~loose) =>
    (h.cs <=> dev.cs)

\* When DevOpen has returned true the device is in the mode and with the supply
\* the menu asks for, and stays so during the handler, through every fast path,
\* recovery and reconnect, with the same exception.
ConfiguredAsWanted ==
  (h.pc = "session" /\ h.opened /\ ~dead /\ ~loose) => dev.bus = menu.bus /\ dev.power = menu.power

\* A shutdown that reported success has switched the target off, with the same
\* exception as Attributed.
OffMeansOff == (h.pc = "idle" /\ h.told = "off" /\ ~loose) => ~dev.power /\ dev.bus = "HiZ"

\* "It will be re-armed before the next operation": a DevOpen during which
\* nothing fails succeeds, whatever answers earlier operations lost, as long as
\* the port itself takes what is written to it and no flood of unasked frames uses
\* up the frames Transact discards; with the exception of Attributed.
Undisturbed == faults = h.since
OpenFailed == h.pc = "session" /\ h.answer = "none" /\ ~h.opened

RecoversFromLostAnswers == OpenFailed /\ h.sound /\ ~loose => ~Undisturbed

\* Complain's comment: "Anything that went wrong makes the session suspect, so
\* the next DevOpen re-arms the device": the same without the exception.
NextOpenRecovers == OpenFailed => ~Undisturbed

\* Every call returns: no exchange waits for ever, however many frames arrive
\* that answer something else.
CallsReturn == (h.pc \notin {"idle", "session"}) ~> (h.pc \in {"idle", "session"})

\* SafePowerDown works "even when the link is out of step": the target is left
\* powered only when the link could not be re-armed or the request to switch it
\* off was sent and failed.
PoweredOnlyIfTried ==
  (h.pc = "idle" /\ h.told \in {"maybe", "off"}) => h.tried
=============================================================================
