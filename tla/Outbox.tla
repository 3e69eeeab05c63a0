------------------------------- MODULE Outbox -------------------------------
(***************************************************************************)
(* The durable control-frame outbox: _MessagingOutbox in                   *)
(* lib/state/messaging_outbox.dart over the stored outbox of               *)
(* lib/data/storage/hidden_volume_storage.dart.                            *)
(*                                                                         *)
(* A frame is a key <<peer, id>>.  Storage runs its operations one at a    *)
(* time (ops); the operation at the head takes effect together with the    *)
(* Dart continuation that awaits it, since the microtasks of a completed   *)
(* future run before the next event.  Everything but row is RAM.           *)
(***************************************************************************)
EXTENDS Integers, Sequences, FiniteSets

CONSTANTS
    Peers,          \* recipients of control frames: contacts
    Ids,            \* frame ids
    Dest,           \* [Ids -> SUBSET Peers]: whom a frame with that id is sent to
    Early,          \* ids sent with startLiveBeforeEnqueue
    Calls,          \* call-signal ids: they also get the fast ladder
    Perishable,     \* ids whose rows are retired by age
    Fickle,         \* peers whose contact record may change during a run
    Strays,         \* keys a contact may acknowledge without having been sent them
    MaxPerPass,     \* _maxLiveRedrivesPerPass
    Workers,        \* worker jobs of one pass
    MaxChanged,     \* entries of _changedWhileReading before the pass is called off
    MaxFast,        \* _fastCallRetryAttempts
    LoadMayFail,    \* whether loading the stored index may fail
    Stalled,        \* peers to which a transport future may never settle
    MaxSends,       \* bound: calls of send
    MaxFaults,      \* bound: crashes, refused commits and failed loads
    MaxAcks,        \* bound: queued retirements of one frame when its ACK arrives
    Lossy,          \* whether a message goes with its delivery and can be lost; if not, it
                    \* stays to be delivered again, and a lost one is one never delivered
    NoPeer

Keys == Peers \X Ids
Sent == {k \in Keys : k[1] \in Dest[k[2]]}

ASSUME OutboxAssumption ==
    /\ IsFiniteSet(Peers) /\ IsFiniteSet(Ids)
    /\ Dest \in [Ids -> SUBSET Peers]
    /\ Calls \subseteq Ids /\ Early \subseteq Ids
    /\ Perishable \subseteq Ids /\ Fickle \subseteq Peers /\ Stalled \subseteq Peers
    /\ Strays \subseteq Keys
    /\ MaxPerPass \in Nat \ {0} /\ Workers \in Nat \ {0}
    /\ MaxChanged \in Nat /\ MaxFast \in Nat \ {0}
    /\ MaxSends \in Nat /\ MaxFaults \in Nat /\ MaxAcks \in Nat
    /\ LoadMayFail \in BOOLEAN /\ Lossy \in BOOLEAN
    /\ NoPeer \notin Peers

VARIABLES
    row,        \* the stored outbox, keyed by id alone: [Ids -> Peers or NoPeer]
    ops,        \* _outboxGate: storage operations not yet performed
    loaded,     \* _outboxLoaded
    sending,    \* stage of the send call of each frame
    unpersisted,\* _sendingUnpersisted
    ackedEarly, \* _ackedWhileUnpersisted
    backoff,    \* _liveBackoff: "none", or "wait" until nextAt and then "due"
    pending,    \* _pendingKeys
    count,      \* _pendingByPeer
    seeded,     \* _pendingSeeded
    timer,      \* _fastCallRetryTimers, keyed by id alone
    firing,     \* ladder callbacks that await their live send
    pass,       \* stage of the flush pass
    calledOff,  \* _cancelled of the pass
    changed,    \* _changedWhileReading of the pass
    candidates, \* _candidates of the pass
    todo,       \* rows of the pass the planning loop has not reached
    lane,       \* re-drives of the pass not yet attempted, by peer
    working,    \* peers whose lane a worker of the pass holds
    joined,     \* peers whose live leg a worker is waiting for
    active,     \* _activeLivePeers
    legs,       \* transport futures of re-drives that have not settled, by peer
    doomed,     \* rows a drop for a removed peer has read and not yet retired
    contact,    \* the stored contact of each peer
    net,        \* wires the network may still deliver
    acks,       \* acknowledgements the network may still deliver
    held,       \* history: frames durably owed, not acknowledged and not moot
    settled,    \* history: frames acknowledged since they were last sent
    moot,       \* history: frames judged moot since they were last sent
    stuck,      \* history: frames whose last retirement storage refused
    sends,      \* number of send calls so far
    faults      \* number of faults so far

store    == <<row, ops, loaded>>
sender   == <<sending, unpersisted, ackedEarly>>
ladder   == <<backoff, timer, firing>>
counts   == <<pending, count, seeded>>
snapshot == <<calledOff, changed, candidates>>
passes   == <<pass, todo, lane, working, joined>>
live     == <<active, legs>>
network  == <<net, acks>>
history  == <<held, settled, moot, stuck>>
bounds   == <<sends, faults>>
vars == <<store, sender, ladder, counts, snapshot, passes, live, doomed, contact,
          network, history, bounds>>

NoLadder == [peer |-> NoPeer, left |-> 0]
Ladder   == {NoLadder} \cup [peer : Peers, left : 1..MaxFast]
Op       == [op : {"enqueue", "ack"}, key : Keys]
            \cup [op : {"read", "seed"}] \cup [op : {"drop"}, peer : Peers]

Init ==
    /\ row = [i \in Ids |-> NoPeer] /\ ops = <<>> /\ loaded = FALSE
    /\ sending = [k \in Keys |-> "idle"] /\ unpersisted = {} /\ ackedEarly = {}
    /\ backoff = [k \in Keys |-> "none"]
    /\ timer = [i \in Ids |-> NoLadder] /\ firing = {}
    /\ pending = {} /\ count = [p \in Peers |-> 0] /\ seeded = FALSE
    /\ calledOff = FALSE /\ changed = {} /\ candidates = {}
    /\ pass = "idle" /\ todo = {} /\ lane = [p \in Peers |-> <<>>]
    /\ working = {} /\ joined = {}
    /\ active = {} /\ legs = [p \in Peers |-> 0] /\ doomed = {}
    /\ contact = [p \in Peers |-> "accepted"]
    /\ net = {} /\ acks = {}
    /\ held = {} /\ settled = {} /\ moot = {} /\ stuck = {}
    /\ sends = 0 /\ faults = 0

-----------------------------------------------------------------------------
(* Steps shared by several operations.                                     *)

\* Mutant: changes made while the rows are being read are not remembered.
InvalidateCapturedOnly(k) ==
    /\ candidates' = candidates \ {k} /\ UNCHANGED <<calledOff, changed>>

\* _OutboxFlushSnapshot.invalidate
Invalidate(k) ==
    IF pass = "idle" \/ calledOff THEN UNCHANGED snapshot
    ELSE IF pass = "reading" /\ k \notin changed /\ Cardinality(changed) >= MaxChanged
    THEN calledOff' = TRUE /\ changed' = {} /\ candidates' = {}
    ELSE /\ candidates' = candidates \ {k}
         /\ changed' = IF pass = "reading" THEN changed \cup {k} ELSE changed
         /\ UNCHANGED calledOff

\* Adding to and removing from _pendingKeys together with _pendingByPeer.
Count(k) ==
    /\ pending' = pending \cup {k}
    /\ count' = IF k \in pending THEN count ELSE [count EXCEPT ![k[1]] = @ + 1]

\* Mutant: the counter goes down whether or not the frame was counted.
UncountAlways(k) ==
    /\ pending' = pending \ {k} /\ count' = [count EXCEPT ![k[1]] = @ - 1]

Uncount(k) ==
    /\ pending' = pending \ {k}
    /\ count' = IF k \in pending THEN [count EXCEPT ![k[1]] = @ - 1] ELSE count

\* Mutant: an ACK that finds no row yet is forgotten.
ForgetEarlyAck(k) == UNCHANGED ackedEarly

\* The row of an early live leg is still being written: remember its ACK.
NoteEarlyAck(k) == ackedEarly' = ackedEarly \cup ({k} \cap unpersisted)

\* Mutant: only the timer is cancelled, the backoff entry stays.
CancelTimerOnly(k) ==
    /\ timer' = [timer EXCEPT ![k[2]] = NoLadder]
    /\ UNCHANGED backoff

CancelRetries(k) ==
    /\ timer' = [timer EXCEPT ![k[2]] = NoLadder]
    /\ backoff' = [backoff EXCEPT ![k] = "none"]

\* _retirePersisted up to its storage call, which joins the queue q.
Retire(k, q) ==
    /\ Invalidate(k)
    /\ NoteEarlyAck(k)
    /\ CancelRetries(k)
    /\ Uncount(k)
    /\ ops' = Append(q, [op |-> "ack", key |-> k])

\* What a caller of pendingOutboxFrames sees: nothing when the index cannot be loaded.
Stored == {k \in Keys : row[k[2]] = k[1]}
LoadFails == LoadMayFail /\ ~loaded /\ faults < MaxFaults
Visible(ok) == IF ok THEN Stored ELSE {}
Access(ok) ==
    /\ ok \/ LoadFails
    /\ loaded' = (loaded \/ ok)
    /\ faults' = IF ok THEN faults ELSE faults + 1

\* A write that storage refuses: the index cannot be loaded, or the commit fails.
Refused(commits) ==
    /\ \/ LoadFails /\ UNCHANGED loaded
       \/ commits /\ faults < MaxFaults /\ loaded' = TRUE
    /\ faults' = faults + 1

\* Both places that fill the counters from the store.
Recount(rows) ==
    /\ pending' = rows
    /\ count' = [p \in Peers |-> Cardinality({k \in rows : k[1] = p})]
    /\ seeded' = TRUE

Queued(o) == {j \in DOMAIN ops : ops[j] = o}
Head_(kind) == ops # <<>> /\ Head(ops).op = kind

-----------------------------------------------------------------------------
(* Sending a frame.                                                        *)

\* send: an early live leg opens the unpersisted window, any other frame goes to storage.
StartSend(k) ==
    /\ sends < MaxSends /\ sending[k] = "idle" /\ contact[k[1]] = "accepted"
    /\ sends' = sends + 1
    /\ settled' = settled \ {k} /\ moot' = moot \ {k}
    /\ IF k[2] \in Early
       THEN /\ sending' = [sending EXCEPT ![k] = "head start"]
            /\ unpersisted' = unpersisted \cup {k}
            /\ net' = net \cup {k}
            /\ UNCHANGED ops
       ELSE /\ sending' = [sending EXCEPT ![k] = "storing"]
            /\ ops' = Append(ops, [op |-> "enqueue", key |-> k])
            /\ UNCHANGED <<unpersisted, net>>
    /\ UNCHANGED <<row, loaded, ackedEarly, ladder, counts, snapshot, passes, live,
                   doomed, contact, acks, held, stuck, faults>>

\* The head start is over (the leg settled or 100 ms passed): persist.
HeadStartOver(k) ==
    /\ sending[k] = "head start"
    /\ sending' = [sending EXCEPT ![k] = "storing"]
    /\ ops' = Append(ops, [op |-> "enqueue", key |-> k])
    /\ UNCHANGED <<row, loaded, unpersisted, ackedEarly, ladder, counts, snapshot,
                   passes, live, doomed, contact, network, history, bounds>>

\* enqueueOutboxFrame: a row that exists, whosever it is, is left as it is.
StoreRow(k) ==
    row' = [row EXCEPT ![k[2]] = IF @ = NoPeer THEN k[1] ELSE @]

\* The row is written and nobody acknowledged the early leg meanwhile: record the frame,
\* start the live leg (or the fast ladder) and return.
EnqueueDone ==
    /\ Head_("enqueue")
    /\ LET k == Head(ops).key IN
       /\ k \notin ackedEarly
       /\ StoreRow(k)
       /\ Count(k) /\ Invalidate(k)
       /\ backoff' = [backoff EXCEPT ![k] = "wait"]
       /\ sending' = [sending EXCEPT ![k] = "idle"]
       /\ unpersisted' = unpersisted \ {k}
       /\ timer' = IF k[2] \in Calls
                   THEN [timer EXCEPT ![k[2]] = [peer |-> k[1], left |-> MaxFast]]
                   ELSE timer
       /\ net' = IF k[2] \in Early THEN net ELSE net \cup {k}
       /\ held' = IF k \in settled \cup moot THEN held ELSE held \cup {k}
    /\ ops' = Tail(ops) /\ loaded' = TRUE
    /\ UNCHANGED <<ackedEarly, firing, seeded, passes, live, doomed, contact, acks,
                   settled, moot, stuck, bounds>>

\* The ACK came while the row was being written: the frame just stored is retired.
EnqueueDoneAcked ==
    /\ Head_("enqueue")
    /\ LET k == Head(ops).key IN
       /\ k \in ackedEarly
       /\ StoreRow(k)
       /\ Uncount(k) /\ Invalidate(k)
       /\ backoff' = [backoff EXCEPT ![k] = "none"]
       /\ timer' = [timer EXCEPT ![k[2]] = NoLadder]
       /\ sending' = [sending EXCEPT ![k] = "idle"]
       /\ unpersisted' = unpersisted \ {k} /\ ackedEarly' = ackedEarly \ {k}
       /\ ops' = Append(Tail(ops), [op |-> "ack", key |-> k])
    /\ loaded' = TRUE
    /\ UNCHANGED <<firing, seeded, passes, live, doomed, contact, network, history,
                   bounds>>

\* enqueueOutboxFrame throws (index unreadable or commit refused), and send with it: the
\* unpersisted mark of an early frame stays behind.
EnqueueFails ==
    /\ Head_("enqueue") /\ Refused(row[Head(ops).key[2]] = NoPeer)
    /\ sending' = [sending EXCEPT ![Head(ops).key] = "idle"]
    /\ ops' = Tail(ops)
    /\ UNCHANGED <<row, unpersisted, ackedEarly, ladder, counts, snapshot,
                   passes, live, doomed, contact, network, history, sends>>

-----------------------------------------------------------------------------
(* Acknowledgement and retirement.                                         *)

\* The ack arm of the inbound dispatch: only a contact's acknowledgement counts, and it
\* retires the frame of that contact.
AckArrives(k) ==
    /\ k \in acks \cup Strays /\ contact[k[1]] = "accepted"
    /\ Cardinality(Queued([op |-> "ack", key |-> k])) < MaxAcks
    /\ Retire(k, ops)
    /\ settled' = settled \cup {k} /\ held' = held \ {k}
    /\ acks' = IF Lossy THEN acks \ {k} ELSE acks
    /\ UNCHANGED <<row, loaded, sending, unpersisted, firing, seeded, passes, live,
                   doomed, contact, net, moot, stuck, bounds>>

\* Mutant: any peer's acknowledgement of the id removes the row.
RemoveRowById(k) == row' = [row EXCEPT ![k[2]] = NoPeer]

\* ackOutboxFrame: the row goes only if it is addressed to the acknowledging peer.
RemoveRow(k) ==
    row' = [row EXCEPT ![k[2]] = IF @ = k[1] THEN NoPeer ELSE @]

AckDone ==
    /\ Head_("ack")
    /\ LET k == Head(ops).key IN RemoveRow(k) /\ Invalidate(k) /\ stuck' = stuck \ {k}
    /\ ops' = Tail(ops) /\ loaded' = TRUE
    /\ UNCHANGED <<sender, ladder, counts, passes, live, doomed, contact, network,
                   held, settled, moot, bounds>>

\* The commit is refused, or the index cannot be loaded: the row stays.
AckFails ==
    /\ Head_("ack") /\ Refused(Head(ops).key \in Stored)
    /\ Invalidate(Head(ops).key)
    /\ stuck' = stuck \cup {Head(ops).key}
    /\ ops' = Tail(ops)
    /\ UNCHANGED <<row, sender, ladder, counts, passes, live, doomed, contact,
                   network, held, settled, moot, sends>>

\* dropPendingFramesFor a removed peer: one read, then every row of that peer is retired.
StartDrop(p) ==
    /\ contact[p] = "gone" /\ doomed = {}
    /\ Queued([op |-> "drop", peer |-> p]) = {}
    /\ ops' = Append(ops, [op |-> "drop", peer |-> p])
    /\ UNCHANGED <<row, loaded, sender, ladder, counts, snapshot, passes, live, doomed,
                   contact, network, history, bounds>>

DropRead(ok) ==
    /\ Head_("drop") /\ Access(ok)
    /\ doomed' = doomed \cup {k \in Visible(ok) : k[1] = Head(ops).peer}
    /\ ops' = Tail(ops)
    /\ UNCHANGED <<row, sender, ladder, counts, snapshot, passes, live, contact,
                   network, history, sends>>

DropOne(k) ==
    /\ k \in doomed
    /\ doomed' = doomed \ {k}
    /\ Retire(k, ops)
    /\ moot' = moot \cup {k} /\ held' = held \ {k}
    /\ UNCHANGED <<row, loaded, sending, unpersisted, firing, seeded, passes, live,
                   contact, network, settled, stuck, bounds>>

\* ensurePendingCounted, called before a replication frame is queued.
StartSeed ==
    /\ Perishable # {} /\ ~seeded /\ Queued([op |-> "seed"]) = {}
    /\ ops' = Append(ops, [op |-> "seed"])
    /\ UNCHANGED <<row, loaded, sender, ladder, counts, snapshot, passes, live, doomed,
                   contact, network, history, bounds>>

SeedDone(ok) ==
    /\ Head_("seed") /\ Access(ok)
    /\ Recount(Visible(ok))
    /\ ops' = Tail(ops)
    /\ UNCHANGED <<row, sender, ladder, snapshot, passes, live, doomed, contact,
                   network, history, sends>>

-----------------------------------------------------------------------------
(* The fast ladder of a call signal.                                       *)

\* The timer fires: re-drive the frame if it still has a backoff entry.
FastFire(i) ==
    /\ timer[i] # NoLadder
    /\ timer' = [timer EXCEPT ![i] = NoLadder]
    /\ LET k == <<timer[i].peer, i>> IN
       IF backoff[k] = "none" THEN UNCHANGED <<backoff, firing, net>>
       ELSE /\ backoff' = [backoff EXCEPT ![k] = "wait"]
            /\ firing' = firing \cup {<<i, timer[i]>>}
            /\ net' = net \cup {k}
    /\ UNCHANGED <<store, sender, counts, snapshot, passes, live, doomed, contact, acks,
                   history, bounds>>

\* Mutant: the ladder has one step too many.
RearmsOnceMore(f) == backoff[<<f[2].peer, f[1]>>] # "none"

\* Steps are left and the frame was not retired meanwhile.
Rearms(f) == f[2].left > 1 /\ backoff[<<f[2].peer, f[1]>>] # "none"

\* The live send of a ladder step settled: arm the next step, if there is one.
FastSettle(f) ==
    /\ f \in firing
    /\ firing' = firing \ {f}
    /\ timer' = IF Rearms(f)
                THEN [timer EXCEPT ![f[1]] = [f[2] EXCEPT !.left = @ - 1]]
                ELSE timer
    /\ UNCHANGED <<store, sender, backoff, counts, snapshot, passes, live, doomed,
                   contact, network, history, bounds>>

\* nextAt passes, or traffic from the peer rewinds the frame (nudge, noteHeard).
Due(k) ==
    /\ backoff[k] = "wait"
    /\ backoff' = [backoff EXCEPT ![k] = "due"]
    /\ UNCHANGED <<store, sender, timer, firing, counts, snapshot, passes, live, doomed,
                   contact, network, history, bounds>>

-----------------------------------------------------------------------------
(* The flush pass.                                                         *)

StartFlush ==
    /\ pass = "idle"
    /\ pass' = "reading" /\ calledOff' = FALSE /\ changed' = {} /\ candidates' = {}
    /\ ops' = Append(ops, [op |-> "read"])
    /\ UNCHANGED <<row, loaded, sender, ladder, counts, todo, lane, working, joined,
                   live, doomed, contact, network, history, bounds>>

\* The rows are read: capture what did not change meanwhile, or give the pass up.
FlushRead(ok) ==
    /\ Head_("read") /\ Access(ok)
    /\ ops' = Tail(ops) /\ changed' = {}
    /\ IF calledOff
       THEN pass' = "idle" /\ UNCHANGED <<candidates, todo, counts>>
       ELSE /\ candidates' = Visible(ok) \ changed
            /\ todo' = Visible(ok)
            /\ Recount(Visible(ok))
            /\ pass' = "planning"
    /\ UNCHANGED <<row, sender, ladder, calledOff, lane, working, joined, live, doomed,
                   contact, network, history, sends>>

\* Mutant: a peer is free again as soon as nobody waits for its leg.
AwaitedOnly(p) == p \in joined

\* A re-drive to p has not settled (_activeLivePeers).
Occupied(p) == p \in active

\* A row the loop passes over: retired meanwhile, blocked, in flight, not due, lane full.
Skipped(k) ==
    \/ k \notin candidates
    \/ /\ contact[k[1]] # "gone"
       /\ \/ contact[k[1]] = "blocked" \/ Occupied(k[1]) \/ backoff[k] = "wait"
          \/ Len(lane[k[1]]) >= MaxPerPass

PlanSkip(k) ==
    /\ pass = "planning" /\ k \in todo /\ Skipped(k)
    /\ todo' = todo \ {k}
    /\ UNCHANGED <<store, sender, ladder, counts, snapshot, pass, lane, working, joined,
                   live, doomed, contact, network, history, bounds>>

\* A row that is too old, or whose contact is gone, is retired.
PlanRetire(k) ==
    /\ pass = "planning" /\ k \in todo /\ k \in candidates
    /\ k[2] \in Perishable \/ contact[k[1]] = "gone"
    /\ todo' = todo \ {k}
    /\ Retire(k, ops)
    /\ moot' = moot \cup {k} /\ held' = held \ {k}
    /\ UNCHANGED <<row, loaded, sending, unpersisted, firing, seeded, pass, lane,
                   working, joined, live, doomed, contact, network, settled, stuck,
                   bounds>>

PlanRedrive(k) ==
    /\ pass = "planning" /\ k \in todo /\ ~Skipped(k) /\ contact[k[1]] = "accepted"
    /\ todo' = todo \ {k}
    /\ lane' = [lane EXCEPT ![k[1]] = Append(@, k[2])]
    /\ UNCHANGED <<store, sender, ladder, counts, snapshot, pass, working, joined, live,
                   doomed, contact, network, history, bounds>>

\* A round-robin choice of at most MaxPerPass re-drives: a peer gets one more than another
\* only when the other has no more.
RoundRobin(cut) ==
    LET waiting == {w \in Peers \X (1..MaxPerPass) : w[2] <= Len(lane[w[1]])}
        chosen  == {w \in waiting : w[2] <= cut[w[1]]}
    IN /\ \A p \in Peers : cut[p] <= Len(lane[p])
       /\ Cardinality(chosen) <= MaxPerPass
       /\ Cardinality(chosen) < MaxPerPass => chosen = waiting
       /\ \A p, q \in Peers : cut[p] > cut[q] + 1 => cut[q] = Len(lane[q])

StartDriving ==
    /\ pass = "planning" /\ todo = {}
    /\ \E cut \in [Peers -> 0..MaxPerPass] :
          /\ RoundRobin(cut)
          /\ lane' = [p \in Peers |-> SubSeq(lane[p], 1, cut[p])]
    /\ pass' = "driving"
    /\ UNCHANGED <<store, sender, ladder, counts, snapshot, todo, working, joined, live,
                   doomed, contact, network, history, bounds>>

\* A worker holds the lane of p, or is free to take it.
CanWork(p) ==
    /\ pass = "driving" /\ lane[p] # <<>> /\ p \notin joined
    /\ p \in working \/ Cardinality(working) < Workers

\* _redriveCandidate on the head of p's lane: not sent, and the lane goes on...
DriveSkip(p) ==
    /\ CanWork(p)
    /\ LET k == <<p, Head(lane[p])>> IN
       k \notin candidates \/ (~Occupied(p) /\ backoff[k] = "wait")
    /\ lane' = [lane EXCEPT ![p] = Tail(@)]
    /\ working' = IF Len(lane[p]) > 1 THEN working \cup {p} ELSE working \ {p}
    /\ UNCHANGED <<store, sender, ladder, counts, snapshot, pass, todo, joined, live,
                   doomed, contact, network, history, bounds>>

\* ... or sent.  The code leaves a lane whose peer an earlier leg still occupies; planning took
\* no such peer, and only this worker sends to it, so it never comes to that.
Drive(p) ==
    /\ CanWork(p) /\ ~Occupied(p)
    /\ LET k == <<p, Head(lane[p])>> IN
       /\ k \in candidates /\ backoff[k] # "wait"
       /\ backoff' = [backoff EXCEPT ![k] = "wait"]
       /\ net' = net \cup {k}
    /\ active' = active \cup {p} /\ legs' = [legs EXCEPT ![p] = @ + 1]
    /\ lane' = [lane EXCEPT ![p] = Tail(@)]
    /\ working' = working \cup {p} /\ joined' = joined \cup {p}
    /\ UNCHANGED <<store, sender, timer, firing, counts, snapshot, pass, todo, doomed,
                   contact, acks, history, bounds>>

\* Mutant: a leg nobody waits for any more leaves its peer occupied.
ReleaseIfAwaited(p) == active' = IF p \in joined THEN active \ {p} ELSE active

Release(p) == active' = active \ {p}

\* The transport future of a re-drive settles: the peer is free, and a worker that is still
\* waiting goes on with the lane.
Settle(p) ==
    /\ legs[p] > 0
    /\ legs' = [legs EXCEPT ![p] = @ - 1] /\ Release(p)
    /\ joined' = joined \ {p}
    /\ working' = IF p \in joined /\ lane[p] = <<>> THEN working \ {p} ELSE working
    /\ UNCHANGED <<store, sender, ladder, counts, snapshot, pass, todo, lane, doomed,
                   contact, network, history, bounds>>

\* Mutant: the worker waits for a re-drive until it settles.
NeverTimesOut(p) == FALSE

\* A worker waits for a leg to p, and its deadline has come.
TimesOut(p) == p \in joined

\* boundedLiveLeg times out: the worker leaves the lane, the leg stays out.
Deadline(p) ==
    /\ TimesOut(p)
    /\ joined' = joined \ {p} /\ working' = working \ {p}
    /\ lane' = [lane EXCEPT ![p] = <<>>]
    /\ UNCHANGED <<store, sender, ladder, counts, snapshot, pass, todo, live, doomed,
                   contact, network, history, bounds>>

EndPass ==
    /\ pass = "driving" /\ working = {} /\ \A p \in Peers : lane[p] = <<>>
    /\ pass' = "idle" /\ candidates' = {}
    /\ UNCHANGED <<store, sender, ladder, counts, calledOff, changed, todo, lane,
                   working, joined, live, doomed, contact, network, history, bounds>>

-----------------------------------------------------------------------------
(* The environment.                                                        *)

\* The recipient takes the frame in, again if it is a copy, and acknowledges it.
Deliver(k) ==
    /\ k \in net
    /\ acks' = acks \cup {k} /\ net' = IF Lossy THEN net \ {k} ELSE net
    /\ UNCHANGED <<store, sender, ladder, counts, snapshot, passes, live, doomed,
                   contact, history, bounds>>

LoseWire(k) ==
    /\ Lossy /\ k \in net /\ net' = net \ {k}
    /\ UNCHANGED <<store, sender, ladder, counts, snapshot, passes, live, doomed,
                   contact, acks, history, bounds>>

LoseAck(k) ==
    /\ Lossy /\ k \in acks /\ acks' = acks \ {k}
    /\ UNCHANGED <<store, sender, ladder, counts, snapshot, passes, live, doomed,
                   contact, net, history, bounds>>

\* A contact is blocked, unblocked or deleted.
ContactChanges(p) ==
    /\ p \in Fickle /\ contact[p] # "gone"
    /\ \E c \in {"accepted", "blocked", "gone"} \ {contact[p]} :
          contact' = [contact EXCEPT ![p] = c]
    /\ UNCHANGED <<store, sender, ladder, counts, snapshot, passes, live, doomed,
                   network, history, bounds>>

\* The process dies: RAM is lost, and the storage operation in flight happened or did not.
Crash ==
    /\ faults < MaxFaults /\ faults' = faults + 1
    /\ \/ UNCHANGED row
       \/ Head_("enqueue") /\ StoreRow(Head(ops).key)
       \/ Head_("ack") /\ RemoveRow(Head(ops).key)
    /\ ops' = <<>> /\ loaded' = FALSE
    /\ sending' = [k \in Keys |-> "idle"] /\ unpersisted' = {} /\ ackedEarly' = {}
    /\ backoff' = [k \in Keys |-> "none"]
    /\ timer' = [i \in Ids |-> NoLadder] /\ firing' = {}
    /\ pending' = {} /\ count' = [p \in Peers |-> 0] /\ seeded' = FALSE
    /\ calledOff' = FALSE /\ changed' = {} /\ candidates' = {}
    /\ pass' = "idle" /\ todo' = {} /\ lane' = [p \in Peers |-> <<>>]
    /\ working' = {} /\ joined' = {}
    /\ active' = {} /\ legs' = [p \in Peers |-> 0] /\ doomed' = {}
    /\ settled' = {} /\ moot' = {} /\ stuck' = {}
    /\ UNCHANGED <<contact, network, held, sends>>

-----------------------------------------------------------------------------
StorageStep ==
    \/ EnqueueDone \/ EnqueueDoneAcked \/ AckDone
    \/ DropRead(TRUE) \/ SeedDone(TRUE) \/ FlushRead(TRUE)
StorageFault ==
    EnqueueFails \/ AckFails \/ DropRead(FALSE) \/ SeedDone(FALSE) \/ FlushRead(FALSE)
PassStep ==
    \/ StartDriving \/ EndPass
    \/ \E k \in Keys : PlanSkip(k) \/ PlanRetire(k) \/ PlanRedrive(k)
    \/ \E p \in Peers : DriveSkip(p) \/ Drive(p)

Next ==
    \/ StorageStep \/ StorageFault \/ PassStep \/ StartFlush \/ StartSeed \/ Crash
    \/ \E k \in Sent : StartSend(k) \/ HeadStartOver(k) \/ Deliver(k)
                       \/ LoseWire(k) \/ LoseAck(k)
    \/ \E k \in Keys : AckArrives(k) \/ DropOne(k) \/ Due(k)
    \/ \E i \in Ids : FastFire(i)
    \/ \E f \in firing : FastSettle(f)
    \/ \E p \in Peers : Settle(p) \/ Deadline(p) \/ ContactChanges(p) \/ StartDrop(p)

Spec == Init /\ [][Next]_vars

-----------------------------------------------------------------------------
(* Invariants.                                                             *)

\* Every variable stays in its set, group by group.
StoreOK ==
    row \in [Ids -> Peers \cup {NoPeer}] /\ ops \in Seq(Op) /\ loaded \in BOOLEAN
SenderOK ==
    /\ sending \in [Keys -> {"idle", "head start", "storing"}]
    /\ unpersisted \subseteq Keys /\ ackedEarly \subseteq Keys
LadderOK ==
    /\ backoff \in [Keys -> {"none", "wait", "due"}]
    /\ timer \in [Ids -> Ladder] /\ firing \subseteq Ids \X (Ladder \ {NoLadder})
CountsOK == pending \subseteq Keys /\ count \in [Peers -> Int] /\ seeded \in BOOLEAN
SnapshotOK == calledOff \in BOOLEAN /\ changed \subseteq Keys /\ candidates \subseteq Keys
PassOK ==
    /\ pass \in {"idle", "reading", "planning", "driving"} /\ todo \subseteq Keys
    /\ lane \in [Peers -> Seq(Ids)] /\ working \subseteq Peers /\ joined \subseteq Peers
LiveOK == active \subseteq Peers /\ legs \in [Peers -> Nat]
HistoryOK ==
    held \subseteq Keys /\ settled \subseteq Keys /\ moot \subseteq Keys /\ stuck \subseteq Keys
RestOK ==
    /\ doomed \subseteq Keys /\ contact \in [Peers -> {"accepted", "blocked", "gone"}]
    /\ net \subseteq Keys /\ acks \subseteq Keys /\ sends \in Nat /\ faults \in Nat
TypeOK ==
    /\ StoreOK /\ SenderOK /\ LadderOK /\ CountsOK /\ SnapshotOK /\ PassOK /\ LiveOK
    /\ HistoryOK /\ RestOK

\* A frame that send reported as queued and that its recipient has neither acknowledged nor
\* lost as moot is in the store, whatever other contacts acknowledge, across failed commits
\* and restarts (_retirePersisted, ackOutboxFrame, enqueueOutboxFrame).
HeldIsStored == \A k \in held : row[k[2]] = k[1]

\* Once a frame is acknowledged, its send call is over and storage is done with it, no row is
\* left to be re-driven for good: an ACK that overtakes the row of its early live leg still
\* retires that row (_sendingUnpersisted, _ackedWhileUnpersisted).
SettledLeavesNoRow ==
    \A k \in settled \ stuck :
        /\ sending[k] = "idle"
        /\ \A j \in DOMAIN ops : ops[j].op \in {"enqueue", "ack"} => ops[j].key # k
        => row[k[2]] # k[1]

\* Re-drives to one peer never pile up behind a stalled transport: at most one is out, over
\* all passes (_activeLivePeers).
OneLegPerPeer == \A p \in Peers : legs[p] <= 1

\* The back-pressure counter never misses a stored row of a peer, other than one whose
\* retirement is under way or was refused (_pendingKeys, _pendingByPeer, _pendingSeeded).
Leaving == {k \in Keys : Queued([op |-> "ack", key |-> k]) # {}}
NoUndercount ==
    /\ seeded => Stored \subseteq pending \cup Leaving \cup stuck
    /\ \A p \in Peers : count[p] = Cardinality({k \in pending : k[1] = p})

-----------------------------------------------------------------------------
(* Action properties.                                                      *)

\* A pass owns a snapshot, not a lease: it never sends a frame that was acknowledged or judged
\* moot since it was last sent, unless storage refused to retire it (_OutboxFlushSnapshot,
\* _redriveCandidate).
NoRedriveOfRetired ==
    [][\A p \in Peers : legs'[p] > legs[p] =>
          <<p, Head(lane[p])>> \notin (settled \cup moot) \ stuck]_vars

\* The ACK of a call signal stops its fast ladder, whatever callback is in flight
\* (_scheduleFastCallRedrive).
LadderStopsAtAck ==
    [][\A f \in firing' \ firing : <<f[2].peer, f[1]>> \notin settled \ stuck]_vars

-----------------------------------------------------------------------------
(* Liveness.                                                               *)

\* The event loop runs what is ready, timers fire (the flush period, a backoff, the deadline
\* of a live leg, the head start), a wire or an acknowledgement that is offered again and
\* again gets through, and a transport future settles unless its peer is stalled.
Fairness ==
    /\ WF_vars(StorageStep) /\ WF_vars(PassStep) /\ WF_vars(StartFlush)
    /\ \A k \in Sent : /\ WF_vars(HeadStartOver(k)) /\ SF_vars(Deliver(k))
                       /\ SF_vars(AckArrives(k)) /\ WF_vars(Due(k))
    /\ \A p \in Peers : WF_vars(Deadline(p))
    /\ \A p \in Peers \ Stalled : WF_vars(Settle(p))

LiveSpec == Spec /\ Fairness

\* A flush pass ends though a transport future never settles: one stalled dial cannot hold up
\* the queue (boundedLiveLeg, the lanes of _flush).
PassEnds == pass # "idle" ~> pass = "idle"

\* Every frame durably owed to a contact whose transport is not stalled is acknowledged in the
\* end, through losses, crashes and refused commits, while another peer stalls.
HeldIsSettled == \A k \in Sent : k[1] \notin Stalled => (k \in held ~> k \notin held)
=============================================================================
