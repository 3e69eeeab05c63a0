# Verification of xVeil

xVeil is a messenger written in Dart on top of the Veil network. Each identity is
a node; two nodes exchange encrypted frames through a network that may lose,
copy, delay or reorder them, and each keeps its state in an encrypted hidden
volume. Beside the app the repository holds the Python programs that measure it on
loopback (the stands with their traffic shapers) and those that prepare a machine,
fetch native dependencies and build the five targets.

This directory holds TLA+ models of both halves, TLC configurations that check them
on small instances, and TLAPS proofs of the results that matter most: who may be
talked to and whether a frame is delivered; what a measurement may claim; what a
green build may ship.

Paths are relative to the repository; `lib/state/messaging_outbox.dart:503` is a line.

## 1. Inventory

### 1.1 The messenger (Dart)

The messaging service (`lib/state/messaging_service.dart` and its `part` files
`messaging_*.dart`) is the heart of the system. Everything runs in one isolate:
a function runs without interruption up to its next `await`, so all hazards lie
in what happens between two awaits, in the store, and on other nodes.

| Component | State it keeps | Operations | Correct when |
|---|---|---|---|
| Outbox (`messaging_outbox.dart`) | rows in the store; in RAM the back-off of each frame, pending counters, a flush snapshot, occupied peers, ladders of call signals, ids being persisted, seen frames | `send`, `enqueue`, `retire`, `flush`, `boundedLiveLeg`, fast ladder, `ensurePendingCounted` | a frame reported queued reaches its recipient or becomes moot; an acknowledged frame leaves no row and is not sent again; one dead peer stops nobody else |
| Store (`hidden_volume_storage.dart`) | the volume, an in-memory index of the outbox, a gate that serialises outbox operations | load, enqueue, ack, read | an operation applies whole or not at all |
| Contacts (`messaging_contacts.dart`) | a status per contact, held messages | request, resend, cancel, accept, block, unblock, mirrored decisions | nobody becomes a contact without the owner's wish; a handshake is not stranded |
| Inbound dispatch (`messaging_inbound_dispatch.dart`) | the serial lane, the dedup of seen frames | one handler per wire kind behind provenance, durable and consent gates | a frame takes effect once, and only for whom it may |
| Message delivery (`messaging_message_delivery.dart`) | status and retries of chat lines | send, ack, fail, reconnect | no line is lost or shown delivered when it is not |
| Gap fill and replication (`messaging_peer_sync.dart`, `messaging_replication.dart`) | watermarks, beacons | exchange, fill | logs of two devices converge |
| Mutations (`messaging_mutations.dart`) | edits, tombstones, clears | apply, retract | orders of arrival agree |
| Content (`messaging_content_*.dart`) | transfers, credits, resume records | pull, serve | a file completes and no stream overruns |
| Mailbox (`mailbox_orchestrator.dart` ...) | deposits, drains | deposit, drain | mail is neither lost nor stored twice |
| Calls (`call_service.dart`, `group_call_service.dart`) | call state | offer, answer, end | both ends agree who is in a call |
| Groups and spaces (`group_service*.dart`, `group_policy.dart`) | signed event log, epochs | fold, join, moderate, rekey | every member folds the same policy |
| Devices, ratchet, cloud, folder sync, API, node | see `PROJECT.json` | | |

How they interact: a service call (send, accept, unsend...) ends in
`_MessagingOutbox.send`, which sends a live copy through the transport, writes a
row through the store's gate, and leaves the rest to `flush`, run every three
seconds and on signs of life. The recipient's transport stream and its mailbox
drain feed one serial lane (`_inboundChain`); the dispatch answers a durable frame
with an ACK, which on the sender's side runs through the ack arm to
`retire` and the store. Decisions of the owner run beside the lane.

What is hard: rows read in one asynchronous load and worked through for seconds;
live copies sent before their row exists; deadlines that abandon a future and do
not cancel it; store writes that fail or are cut by a crash; acknowledgements and
acceptances that arrive late, twice, or for an earlier relationship; decisions
that interleave with the handling of a frame about the same contact.

### 1.2 The stands (Python)

| Component | State it keeps | Operations | Correct when |
|---|---|---|---|
| UDP shaper (`scripts/udp_fifo_shaper.py`) | a queue and a reservation clock per direction, counters, a ring of trace rows, a stop flag | `enqueue`, `run`, `run_guarded`, `stop`, `snapshot` | the capacity is not exceeded, the delay bounded, the order kept, every datagram counted; a row belongs to its datagram |
| TCP shaper (`scripts/tcp_fifo_shaper.py`) | an `asyncio.Lock`, a clock and a pending count per reservation group, tasks per connection | `_connection`, `_pump`, `_run`, `stop` | the same, and a cancelled pump leaves no lock, reservation or backlog |
| Shaper process (`scripts/process_tcp_shaper.py`, whose `_worker` runs under `--worker`) | a pipe, a queue of answers, a cached snapshot | `rate_bps`, `_snapshot`, `stop`, `_close_process` | a reported rate is the applied one; no worker goes on shaping after the stop, also when closing it fails |
| Group stand (`scripts/group-process-preflight.py`, `group_codec_sdk.py`, `group_process_files.py`) | a parent, a process per participant, a star of SDK nodes with reserved ports, a file per participant | configure, capture, freeze, judge, reap, close | the participants measure together; success is earned before the deadline; the cleanup asks everything to stop, and a green summary leaves nothing behind |
| Codec stand (`scripts/relay-codec-control.py`) | three nodes, two engines, a PCM clock, file writers, a policy helper, a shaper, frozen evidence | set up, measure, freeze, judge, tear down | the verdict rests on what had arrived; engines outlive a driver that calls them; the script comes to its verdict |

The stands own a shaper and never look into it: they set `rate_bps` from their own
thread and read a snapshot. What is hard: two threads and one attribute; awaits under
a lock with cancellation at each; SDK callbacks that go on while the verdict is
computed; a process that dies at any point of a protocol over pipes; a teardown of
many parts of which some hang.

### 1.3 The build (Python)

| Component | State it keeps | Operations | Correct when |
|---|---|---|---|
| Build support (`scripts/xveil_build_support.py`) | a plan of steps | parse, plan, run, skip, degrade | a required step that fails ends the run, an optional one never does |
| `prepare.py` | tools of the machine, the release signing key | one step per toolchain | the key, once created, can be opened and is never replaced |
| Native dependencies (`scripts/xveil_native_deps.py`) | submodules, staged call engines, checkouts, partial downloads, outcomes | fetch, verify, report | a report has all four items and claims nothing the machine lacks |
| `builder.py` | compiled libraries, staged inputs, artifacts | a plan per target, gates between the steps | a green build ships current code, all its parts, its signature, and one network |

What is hard: skips decided when the plan is made; a run killed anywhere and started
again; what an earlier build, profile or ABI left where the next one picks it up; one
choice (the network) made in Python, in shell scripts, in Rust and in Dart.

`PROJECT.json` lists every component with its sources and status, and under `hazards`
what is hard to test, line by line.

## 2. Modules

| Module | What it is | Runs and proofs about it |
|---|---|---|
| `Outbox` | the durable outbox of one node, its store, its network and its recipients | `outbox_*`, `OutboxTypeProofs`, `OutboxProofs` |
| `Contacts` | the consent handshake of all nodes at once | `contacts_*`, `ContactsProofs` |
| `GroupTransfer` | a group snapshot sent in slices: outbox of the sender, reassembly of the receiver | `group_transfer`, `group_orphan`, `GroupTransferProofs` |
| `OrderedLink` | what a shaped direction promises: the abstract specification | refined in `shaped_link` and `ShapedLinkProofs` |
| `ShaperClock` | the clock and the rate the shapers share | |
| `UdpShaper`, `TcpShaper`, `ShaperControl` | the three shapers | `ShapedLinkProofs` |
| `ShapedLink` | composes them: the stand picks one per run | `shaped_link`, `ShapedLinkProofs` |
| `FileLoad` | the competing files of the group stand | |
| `GroupStand` | extends it with parent, workers, star and pipes | `group_stand`, `GroupStandProofs` |
| `CodecStand` | the codec stand | `codec_stand`, `CodecStandProofs` |
| `BuildSupport` | plans and steps, shared by what follows | |
| `NativeDeps`, `Prepare`, `Builder` | the three programs | |
| `Toolchain` | composes them: one machine, many runs, edits between them | `toolchain`, `toolchain_network`, `ToolchainProofs` |
| `MC...` | model values for TLC, nothing else | |

The messaging models describe different frames of one outbox at different depth.
`Outbox` has every step of sending, acknowledging and re-driving a frame that
stands for itself. `Contacts` and `GroupTransfer` take from it what it shows, that
a row exists or not and is sent again while it does, and add the protocols whose
rows depend on each other. In every model:

- one action is the code between two points where something else may run: two awaits
  in an event loop, two accesses to shared state in a thread, two writes to the disk
  in a program that may be killed. The store's gate (`_outboxSerialized`) runs
  operations one at a time in the order of the calls; the continuation that awaits
  an operation runs as a microtask after it, so the head of the queue and its
  continuation are one action;
- a crash empties what the code keeps in RAM, and the storage operation at the head
  of the queue may or may not have reached the volume;
- definitions keep the source's names; a comment begins with the function it
  translates where the name differs. A definition marked `Mutant` is a plausible
  bug and is used by no specification: the definition after it, replaced by it,
  must break the property `PROJECT.json` names;
- variables marked "history" record what happened for a property and never guard a
  step, other than as a bound.

### 2.1 Outbox

`row` is the store, keyed by frame id alone as in `enqueueOutboxFrame`; every RAM
map of the code is keyed by peer and id, as `_key` makes it. `ops` is the gate.
Time is abstract: a back-off, a deadline and a period are either to come or due.
The network is two sets of wires and acknowledgements; with `Lossy` a delivery
takes the copy, without it a copy stays for good.

| Code | In the model |
|---|---|
| `send` | `StartSend`, `HeadStartOver`, `EnqueueDone`, `EnqueueDoneAcked`, `EnqueueFails` |
| ack arm, `_retirePersisted` | `AckArrives`, `Retire`, and the store's `ack` operation |
| `flush`, `_flush` | `StartFlush`, the load, the planning loop over the captured rows, the lanes and workers |
| `boundedLiveLeg` | a live leg, its `Deadline`, and `Settle` of the transport future, which may come much later |
| fast ladder of call signals | the timer, its firing and the live send it awaits |
| `ensurePendingCounted`, `_pendingByPeer` | `Recount`, `Count`, `Uncount` |
| `dropPendingFramesFor` | a read of the rows, then one retirement per row |

Limits of the store and the network (one destination for an id, loads that succeed) are constants
(`Dest`, `LoadMayFail`); section 5 shows what happens beyond them. The histories of what was
acknowledged begin anew with a restart, so `SettledLeavesNoRow` is about what one run of the
program acknowledged.

Abstracted: frame bodies; a call signal's ladder is armed when its row is written
(its senders do not wait for the live leg). One flush pass runs at a time, as the
code ensures. A frame id is sent again only when its last `send` has returned
(`StartSend`). The code does not exclude two calls of `send` for one early id at once
(`messaging_outbox.dart:401-489`), such as a call signal repeated within its head start: the
first to return would end the window in which ACKs are remembered for both. What is checked
and proved of early frames does not cover that. Left out: the silent-peer gate
(`messaging_outbox.dart:960-1193`), the mailbox deposit and its back-off, the media
pause, frames to oneself, to own devices and to strangers, a failing contact read
(the pass skips the row), and dispose.

### 2.2 Contacts

Every node is modelled, so a frame that crosses another one in the network is a
state of the model. `lane` is the inbound handler of a node: frames are handled one
at a time (`_inboundChain`), and a handler that awaits between a read of the
contact and a write of it is in a named step there. `tasks` are the calls of the
owner that await the store. They are not in the lane: they interleave with the
handler's steps, which is where a doorbell can overwrite a decision (section 5). The network keeps every wire and acknowledgement ever sent, so
each may arrive late, again or never.

`consent` is a history variable: the owner wants the contact. It is set by asking,
accepting or unblocking and taken back by blocking, cancelling or deleting,
with one exception. A decision taken while the accept arm is between its read of
the pending request and its write of `accepted` is overwritten by that write, as the
doorbell's is; `Unwanted` does not count such a decision, so that `ConsentGiven`
speaks of what the frames do and not of this window, whose twin section 5 describes. What
is decided in it is therefore not covered by any property.

Left out: greetings and introductions and their caps, messages held while blocked,
reconnect frames (handled as requests are), provenance, own-device senders, the
mailbox copies, the farewell of a deleted chat, and profiles.

### 2.3 GroupTransfer

`rows` are the slices stored at the sender, `gate` its storage queue, `progress` the
map `_groupSliceAcks`. The receiver has `reasm` (`_groupReasm`), `completed`
(`_completedGroupTransfers`) and `applied`, what it has made durable. A receiver
that acknowledges transfers as a whole answers once, when the joined snapshot is
applied; one that ignores the mode (`old`) follows the other branch of
`ingestGroupChunk` and acknowledges every slice, again only then. A restart may
upgrade it.

A slice acknowledgement whose slice is not known waits for a read of the store
(`Scan`); a complete count, or the acknowledgement of the whole, waits for a second
read (`Collect`) and a commit of all rows at once (`AckAll`). Frames too old and
backlogs let go of take the same path as an acknowledgement (`GiveUp`).

Left out: snapshots of one frame (they are frames of `Outbox`), strangers and own
devices, the epoch of the group handlers, transfers queued before the opt-in, the
queue of receipts (a lost receipt is an acknowledgement that never arrives), the
byte cap of a reassembly, two calls that send one snapshot at the same time, and
the eviction of the 129th completed transfer.

### 2.4 The shapers

`OrderedLink` says what a stand relies on: items leave in the order in which they
entered, each at most once; the link may forget an item, never reorder the others.
`UdpShaper` maps a direction to it (what waits, what entered, what was sent), `TcpShaper`
a reservation group (who holds or waits for the lock, or holds a reservation).

`UdpShaper` splits the admission of a datagram where it reads the rate: the check of
the backlog, the reservation and the trace row are separate steps, and `SetRate` and
`Tick` come between any two of them. The ring is a sequence of rows with a running
event number, as `WireTrace` keeps it; a datagram remembers its number, which after
the ring has wrapped names no row. `TcpShaper` has a place for a pump at every await
(the read, the lock, the sleep under it, the sleep on its reservation, the write with
its drain), cancellation at each, and a server that stops while connections open.
`ShaperControl` has both ends of the pipe: requests are answered in order, a request
that has timed out leaves its answer behind. Closing has a step for each means of
`_close_process`: the wait after a stop that was answered, terminate, kill, the join of
the reader thread, each of which may run out of its five seconds and the last two of which
may raise; a worker may be stuck where it neither answers nor obeys a signal in time.

Time is a tick and capacity units per tick; `SetRate` only raises the rate, which is
how the stands use it. A worker that was killed executes nothing more, as a signal the
program cannot catch has it; that the system has removed it is a later step. Left out: a second call of `stop`, the pipe closed with a
request still in its buffer, sizes of socket buffers, the content of a trace row
beyond whose it is, address translation of the UDP shaper, CPU affinity.

### 2.5 The stands

`FileLoad` is the file each participant sends to the next one of the ring. A callback
notes its time before it waits for the lock, so it is in `inside` between the two; the
network delays, repeats, drops and forges blocks; what a process has received goes with it
(`Forget`), its frozen snapshot is in its summary. `GroupStand` adds the parent
(reserve, start nodes, collect ready, configured and finished with a deadline each,
answer requests for source costs, reap, close, judge) and the workers (start, say
ready, configure, capture, freeze, prove, save an exception, finish). A message is a
kind and a payload in one of two pipes; a death closes them. A fault is an
exception in a step, the death of a process, a refused node, a shaper that ends with a
failure or a missed deadline.

The cleanup of the parent is a sequence of steps of which each may fail: a worker that
does not end by itself is sent a signal and may outlive it (`Terminate`), the exit
codes are read (`Reap`), the reserved ports are given back (`ReleasePorts`), the shaper stops,
stops with a failure, or raises after two seconds (`StopShaper`), every node is asked to stop
and some do not (`StopNodes`), and the summary is written (`Finish`) unless the exception of
the shaper leaves the `finally` block (`aborted`).

`CodecStand` is one process: the main thread (`phase`, `steps`), the PCM clock, two file
threads, the policy helper with its pipe, and the callbacks of the SDK. `open` holds
the resources the script has to close, `torn` the producers that ran while what they
call was closed. The helper may die, and then a command fails; or hang, and then the main
thread is `blocked`, because `command` reads its answer without a deadline
(`relay-codec-control.py:639`). A call of the SDK may not return either, in the try block or in
the teardown. The verdict (`exited`) is not the end of the process (`gone`): in between the
interpreter joins the threads that are no daemons, those of the files (823), the Python PCM
thread (713) and a shaper in the same process, which an exception in the `finally` block
leaves without its stop.

Left out: codecs, measured values and their statistics (a verdict is good or not),
the format of the report files, logs, and the content of video proofs; of the group stand also
what comes before its `try` (a compilation that may raise) and what comes after its summary,
where the interpreter of the parent waits for a worker or a shaper thread that is left. The media
stand and the analysis scripts are not modelled.

### 2.6 The toolchain

`BuildSupport` translates the plan: a list of steps, each required or optional, each
skipped or not as things were when the plan was made; a step fails, is refused, or the
run is killed in it. `NativeDeps`, `Prepare` and `Builder` give each step its effect on
the disk. The time of a library is the time of the sources it was compiled from, so
"current" is an equation between the artifact and the tree. `Toolchain` runs any of the
three programs with any command line, one after another, kills them and edits a Rust
tree between runs.

The shell scripts, cargo, gradle, CMake and Xcode are modelled as far as the Python
code relies on them. A network that answers badly, a missing account, an engine without
the symbols the app calls, a machine without bash or `nm` are states or choices.

A call engine is absent, stale (without a symbol the app calls), good, or cut short. The
release route names whatever it received (`_download_release_asset`,
`xveil_native_deps.py:565-571`: a connection that closes early raises nothing), and the symbol check
cannot read a file without its end and accepts it. `torn` is a file no loader takes, which
the APK gate of `builder.py` sees in the ELF header; `clipped` one whose loss only shows when it
is loaded. The symbols are read only where there are both bash and `nm`.

Cargo compiles to `third_party/*/target`, where `_copy` takes the library from: the model has
`CARGO_TARGET_DIR` unset. The scripts honour it (`build-mobile.sh:62-67`,
`build-native.sh:87-92`), `builder.py:1276` does not: on Windows, whose plan has no gate for
fresh libraries, a build with it set would ship what an earlier one left there.
Left out: versions of tools, the wording of hints and the tests of the scripts.

Hazards of these programs that no property covers: a source edited during its own
compilation; a `git init` of the whisper checkout killed before its fetch, whose `.git`
later runs take for a checkout; a kill between unpacking the command-line tools and
their `chmod`; rustup installed without touching PATH, which makes the first run abort;
the Windows whisper DLL, whose skip is decided at plan time; an engine older than the one
pinned (`builder.py` looks at what it exports, not at its age); `check_submodules`, which asks
whether a submodule is populated and not at which revision; a `bash` on Windows that is the launcher
of a subsystem without a distribution; a `keytool` that goes on alone after `prepare.py` was killed;
and a fetch on Apple
hosts, whose report always has a gap.

## 3. Runs

| Run | Bounds | Shows |
|---|---|---|
| `outbox_calls` | two peers, a call signal that is sent before it is stored and an ageing replication frame, one row per pass, one fault, two sends, one stray acknowledgement | no owed frame is lost (`HeldIsStored`); an acknowledged frame leaves no row (`SettledLeavesNoRow`) and is not sent again by a pass (`NoRedriveOfRetired`) or by the ladder (`LadderStopsAtAck`); one re-drive at a time to a peer (`OneLegPerPeer`); the counters never fall short of the store (`NoUndercount`) |
| `outbox_ageing` | one peer that may be blocked or deleted, two rows per pass, one change of the queue per read, an index that may not load | a pass does not re-drive what was retired under it |
| `outbox_live` | lossy network, one fault, a peer whose futures never settle | every pass ends (`PassEnds`); the other peer's frames are acknowledged (`HeldIsSettled`) |
| `contacts_consent` | two nodes, two request ids, any three decisions, a crash, a refused row | nobody unwanted is a contact (`ConsentGiven`); a remembered request is owed an answer (`AnswerIsOwed`) |
| `contacts_handshake` | any three decisions, no fault | a stored request to a node that accepts is answered (`SteadyHandshakeCompletes`) |
| `group_transfer` | one snapshot of two slices, one of each fault, both versions of the receiver | slices leave only when the snapshot is durable, or were given up (`RetiredIsApplied`); a snapshot stored whole is retired whole (`WholeIsRetired`) |
| `group_orphan` | one snapshot, one crash | violated: the slices of a half-stored snapshot never leave |
| `shaped_link` | three datagrams in two directions, rates 1 and 2, three ticks, a backlog of two ticks, a ring of two rows; two TCP connections to one target that read twice and once; four requests to a worker | counters add up (`Conservation`), reservations do not overlap (`CapacityKept`, `SharedCapacity`), the delay is bounded (`BoundedDelay`), rows stay with their datagrams (`RingKeepsItsRows`), a cancelled pump leaves nothing (`CancelLeavesNothing`), a reported rate is applied (`RateWasApplied`), no worker shapes on whichever step of its closing fails (`NoOrphanWorker`); both shapers implement `OrderedLink` |
| `group_stand` | two participants in a ring, two nodes, one block, one fault of a process or of the network, one worker, node or shaper that outlives its end, one request | the participants measure together (`CaptureIsTogether`); success is earned before the deadline (`GreenIsEarned`); every part is asked to stop although one of them fails, and the summary tells what is left (`CleanupIsComplete`); full contention has all its proofs (`QualifiedIsProven`) |
| `codec_stand` | two endpoints, two ticks, one chunk per file, four command lines, two faults (a loss, an exception, a helper that dies or hangs, a thread, a driver or a call that hangs) | success rests on frozen evidence (`CodecGreenIsEarned`); a driver in a callback keeps its engines (`DriverKeepsItsEngines`); the script comes to its verdict unless a call without a deadline blocks it, and the process ends unless a thread is left that the interpreter joins (`StandEnds`) |
| `toolchain` | five hosts, five machines to start from (one with libraries for one ABI and engines cut short), fourteen command lines, two ABIs, two runs, one edit | `ShipsCurrentCode`, `ReleaseIsWhole`, `DesktopHalvesAgree`, `KeyIsKept`, `FetchIsReported` |
| `toolchain_network` | two command lines for iOS on a Mac that has everything | violated: the two halves of the app belong to different networks |

Why these bounds are enough to be interesting. A lost or doubled row needs two
operations on one frame and a fault between them, so two sends, one fault and one
stray acknowledgement reach every pair; three decisions are the fewest in which a
relationship ends and begins again while frames of the first are under way. A ring of
two wraps with three datagrams; two datagrams of one direction with a rate that
changes between them show every order of check, reservation and change; two
connections contend for one lock while one of them is cancelled, and the
second read of the first finds the state a first one left. Two participants are the
fewest that can be out of step, and one block decides a file. Two runs with an edit
between them are the fewest in which something stale can be picked up, or a killed run
finished. Many transfers, participants or datagrams are what the theorems
are for: `RetiredOnlyApplied`, for one, covers the tables of the receiver when a
second snapshot evicts the first, which `group_transfer` with one snapshot does not.

The constants `Max...` appear only in guards and are listed with their meaning in
each module. Deadlock is checked for `Outbox`, which can always flush; everything else
may come to rest, because decisions, requests and runs are bounded and a stand ends.
`group_stand` uses symmetry: exchanging the participants of a ring of two, or the nodes,
changes nothing, and the run has no liveness property.

`SteadyHandshakeCompletes` leaves out pairs of which one removed the other, and pairs
whose acceptance was acknowledged before: every acceptance has the id
`accept:<hex>`, so a late acknowledgement of an earlier one retires the present one.
`WholeIsRetired` is checked with one send of a snapshot and tables that hold all
transfers. A repeated acknowledgement that arrives while the same
snapshot is queued again retires the slices queued so far and leaves a tail; and
with fewer places than transfers two of them can evict each other's progress for
ever (eight reassemblies and 128 counts in the code).

### Fairness

Messenger: weak fairness for what the event loop does unasked: storage operations and
their continuations, steps of a pass, timers (the flush period, back-offs, deadlines),
handlers of the lane, calls under way. Strong fairness for the delivery of a wire
whose row is stored, because every flush sends it again, and for an
acknowledgement that is offered again; none for a copy in the network whose row
is gone. A transport future settles unless its peer is in `Stalled`. The owner's
decisions, sends, faults and restarts are never fair.

`CodecStand`: weak fairness of the main thread and of the steps of a file writer, which loops
without waiting. The sleeps of the main thread, its joins and its wait for the first reports are
bounded; the answer of the helper, the calls of the SDK and the joins of the interpreter are
not, so `StandEnds` does not promise an end where one of them hangs: the main thread is then
`blocked`, or the verdict stands and a thread is left (`Lingering`). Nothing is assumed of the SDK, of the clock or of the
helper; a result may be good or not by choice. What the property says is that nothing else keeps the
script: no lost report, no helper that died, no exception in the setup or the `finally` block, and no writer
that outlives its join.

The shapers, the group stand and the toolchain state no fairness; what is said of them
is safety, and `BoundedDelay` bounds the reserved delay of what was admitted.

## 4. Proofs

Each theorem holds for every value of the constants that satisfies the named
assumptions of its module, which TLC evaluates in every run.

| Theorem | States | Inductive invariant |
|---|---|---|
| `OutboxTypeProofs!TypeCorrect` | `Spec => []TypeOK` | itself; one lemma per action |
| `OutboxTypeProofs!OneLeg` | `Spec => []OneLegPerPeer` | a peer is occupied exactly while its future is out, whatever the deadline did |
| `OutboxTypeProofs!WorkersFindPeersFree` | `Spec => [](CanWork(p) => ~Occupied(p))` for every peer: the occupancy test that `_redriveCandidate` repeats never ends a lane, so the model needs no step for it | `FreeLane`: a lane nobody waits on belongs to a peer with no re-drive out |
| `OutboxTypeProofs!CountsCover` | `~LoadMayFail => (Spec => []NoUndercount)` | `CountExact`: each count is the number of counted frames of its peer; `Covered`: once counted, what is stored is counted, is about to be retired, or was refused its retirement |
| `OutboxProofs!HeldStored` | `OneDest /\ Spec => []HeldIsStored` | `HeldInv` |
| `OutboxProofs!SettledGone` | `Spec => []SettledLeavesNoRow` | `SettleInv` |
| `OutboxProofs!RetiredStays` | `Spec => NoRedriveOfRetired`, an action property | `RedriveInv`: `SettleInv` with `SnapInv` |
| `OutboxProofs!LadderStops` | `Spec /\ [][SentAfresh]_vars => LadderStopsAtAck`, an action property | `RedriveInv` with `LadderInv` |
| `ContactsProofs!TypeCorrect` | `Spec => []TypeOK` | itself, with one conjunct about what a handler holds |
| `ContactsProofs!ConsentHolds` | `Spec => []ConsentGiven` | `ConsentInv` |
| `ContactsProofs!AnswerStands` | `Spec => []AnswerIsOwed` | `AnswerInv` |
| `GroupTransferProofs!RetiredOnlyApplied` | `Spec => []RetiredIsApplied` | `RetiredInv` |
| `GroupTransferProofs!TypesHold` | `Spec => []TypeOK` | `RetiredInv` with the types of the two tables and of what is counted in them |
| `ShapedLinkProofs!UdpTypes`, `RowsAreKept`, `CapacityIsKept`, `CountersAddUp` | `UdpSpec => []...` of `UdpTypeOK`, `RingKeepsItsRows`, `CapacityKept`, `Conservation` | `UdpInv`: types, `ClockIsLastSlot`, `CapacityInv`, `ConservationInv` |
| `ShapedLinkProofs!DelayIsBounded` | `UdpSpec => []BoundedDelay` | `UdpInv` has `DelayInv` |
| `ShapedLinkProofs!UdpLinks` | `UdpSpec => UdpIsOrderedLink`, a refinement | `UdpInv` has `UsedInv` |
| `ShapedLinkProofs!CancelIsClean`, `CapacityIsShared` | `TcpSpec => []...` of `CancelLeavesNothing`, `SharedCapacity` | `TcpInv`: types, `EarlyOff`, `LockInv`, `PendInv`, `TimeInv` |
| `ShapedLinkProofs!TcpLinks`, `TcpLink` | for every `g \in Groups`, `TcpSpec => GroupLink(g)!LinkSpec`, a refinement; so `TcpSpec => TcpIsOrderedLink` where `<<0, 0>> \in Groups` | `TcpInv` |
| `ShapedLinkProofs!RateIsApplied`, `WorkerIsReaped` | `ControlSpec => []...` of `RateWasApplied`, `NoOrphanWorker` | the k-th answer is for the k-th request, and what the worker has applied follows from what it has served; what each stage of the closing may rely on |
| `ShapedLinkProofs!EachShaper` | the composition's `Spec => UdpSpec /\ TcpSpec /\ ControlSpec` | none: a shaper that was not picked never moves |
| `GroupStandProofs!GreenSummary`, `StandIsCleared`, `Qualification`, `CommonStart` | `Spec => []...` of `GreenIsEarned`, `CleanupIsComplete`, `QualifiedIsProven`, `CaptureIsTogether` | `FileInv` with `GreenInv`; `EndInv` for the second and the third; `PipeInv` |
| `CodecStandProofs!GreenIsEarned`, `EnginesAreKept` | `CodecSpec => []...` of `CodecGreenIsEarned`, `DriverKeepsItsEngines` | `CodecInv` |
| `ToolchainProofs!KeyOutlivesRuns` | `Spec => []KeyIsKept` | `KeyInv` |
| `ToolchainProofs!ArtifactsAreCurrent`, `ReleasesAreWhole`, `DesktopNetworksAgree` | `Spec => []...` of `ShipsCurrentCode`, `ReleaseIsWhole`, `DesktopHalvesAgree` | `BuildInv` |
| `ToolchainProofs!FetchesAreReported` | `Spec => []FetchIsReported` | `FetchInv` |

`HeldIsStored` (a frame reported as queued stays stored until acknowledged or moot) is
not inductive: a retirement already queued could be about to delete it. `HeldInv`
adds that no queued retirement is for a held frame, that no held frame is
remembered as acknowledged before its row exists, that a retirement queued behind
the enqueue of its frame belongs to a frame that will not be owed, that one
enqueue at a time is under way for a frame, and that rows are addressed to a
destination of their id. `OneDest` (an id names one destination) is a hypothesis:
section 5 shows that the statement is false without it.

`SettledLeavesNoRow` speaks of a moment at which storage is done with a frame; `SettleInv`
says what holds before, of every retired frame, acknowledged or moot: an enqueue still
queued for it is followed by its retirement, or will find the ACK remembered
(`AckFollows`); a row it still has is about to be removed (`RowLeaves`); and during the
head start of a frame an ACK is always remembered (`HeadStarted`).

`NoRedriveOfRetired` needs to know what a pass may have captured. `SnapInv` says that one
read at most is queued, and only for the pass that waits for it; that a pass without its rows,
or called off, has captured none; that a retirement queued behind the read is among the
changes the pass will leave out, or called it off; and that nothing captured is retired or
about to be. The step that needs all of it, with `RowLeaves`, is the read: a row it
finds that is retired already has its retirement behind the read.

`LadderStopsAtAck` is about four things that can be under way when an acknowledgement
comes: a timer, a callback, a re-drive of a pass, and the write of the row, whose
continuation starts the ladder. `LadderInv` says that a call signal that is being
retired, or was, has no back-off entry (`AckQuiet`, `Quiet`), that its retirement was
remembered if its row is still to be written (`EarlyWindow`, `AckRemembered`), and that
only call signals have a ladder (`CallTimers`). The hypothesis `SentAfresh` is about signals
that are stored before they are sent, those of group calls: an id is used for nothing
that is still around (`OnceSent`), as the nonce in it makes certain
(`messaging_realtime_control.dart:474`). It is needed, because `_ackedWhileUnpersisted`
covers early frames alone: `OutboxCalls.cfg` with `Early = {}` sends an id twice, and the
acknowledgement of the first, come while the second is being stored, leaves the second
with a ladder. For early ids, those of direct calls, the theorem asks nothing.

`NoUndercount` is proved for loads of the store that succeed; with `LoadMayFail` it
is false (section 5).

`ConsentGiven` needs to know about a request still pending: `ConsentInv` adds that
whoever waits for an answer wants the contact, and so does every handler of an
acceptance that has read a pending request. `AnswerInv` says the same of every
remembered request, whatever its receiver decided since, and that its contact still has
a record: only so does a later acceptance find the answer already there.

`RetiredIsApplied` needs to know where a retirement comes from: `RetiredInv` adds
that every acknowledgement in the network is of an applied snapshot, that the
receiver remembers as completed only applied ones, and that every storage
operation that may take a row is for a transfer applied or given up.

`TypesHold` is not a matter of types alone: that a count belongs to a transfer there is
follows from where retirements come from (`RetiredInv`), and that a table keeps to its
size from the order in which an entry is dropped and one is added.

`CapacityKept` speaks of recorded reservations; `ClockIsLastSlot` ties them to the clock
variable the code keeps, `next_at`, and `CapacityInv` adds their order and that what
left did so after its own. `Conservation` is preserved although a step moves a datagram
in two halves, because `ConservationInv` says where the datagram in hand is counted.
`BoundedDelay` must survive a rate that is set between the look at the queue and the
reservation: `DelayInv` says that without a rate the clock of no direction is ahead of the
time, so that a rate that appears then finds no queue nobody looked at.

The refinements of `OrderedLink` map every step of a shaper to an entry, a departure, a
loss or nothing. For UDP the line is the queue, and a datagram enters with its reservation;
`UsedInv` says that it reserves once. For TCP the line is that of a group's lock, and a
read leaves it with its reservation; a pump that is cancelled before is a loss. TLC
checks one named group, because a property of TLC's has no parameter; `TcpLinks` is about
all of them, and `TcpLink` draws the conclusion for the named one.

`CancelLeavesNothing` is inductive once `LockInv` says that the line of the lock holds exactly the pumps at the awaits that
wait for it or hold it, in an order in which only the first can be asleep under it, and
`PendInv` that the pending count is the number of pumps with a reservation; a
cancellation takes a pump out of both wherever it stood. `SharedCapacity` adds `TimeInv`:
a pump that slept under the lock has waited for the backlog it saw, at the rate it saw.

`NoOrphanWorker` follows the closing of a worker from one means to the next: it is never given up
before it is gone or was sent the signal it cannot catch, and statistics are kept only of an exit that precedes
any signal. `CleanupIsComplete` does the same for the parent of a group stand: `EndInv` says for each
stage of its cleanup what has been asked to stop, and that a part which did not stop is noted where
the summary looks.

`CaptureIsTogether` rests on `PipeInv`: the values the parent holds and the messages still
in a pipe are all of the kind the phase of their worker allows, so no message can be
taken for a configuration.

`CodecInv` says which step the setup or the teardown is at and what is open there
(`PlaceInv`), that reports heard and reports under way never outnumber those sent, the
one of the priming included (`HealthInv`), and what the verdict of the judge means as long as it stands (`VerdictInv`).
Its assumption `CodecAssumption` is that the two sides are each other's peers and that files
have chunks.

`KeyIsKept` rests on `MachinesAssumption` (a machine starts without a release key or with
one that opens) and on `KeyInv`, which says at each stage of the key step which of
the three files can differ. The properties of a build rest on `BuildInv`: every plan takes
its steps in one order (`Rank`), those no artifact can do without are in it and neither
skipped nor optional (`PlanInv`), and behind each step that is past stands what it did: what
this run compiled (`MadeInv`), what the app carries (`AppInv`) and what a gate has
looked at (`GateInv`). Edits between runs and kills within one only take away from what
`BuildInv` says of a build under way. It rests on `MachinesAssumption`, which has the types of
what a machine starts with, its engines in any state, those cut short included, and on `LinesAssumption` (the values
`XVEIL_NETWORK` can have). So `ReleaseIsWhole` claims of an engine only what a gate looks
at: that it is there; in an APK, that its header is that of a whole file and, where symbols can be
read, that it has them. `FetchInv` says at which of the five steps a fetch is and that
what it has recorded so far is so on the disk, with the same reservation for an engine.

Only model-checked: all liveness (`PassEnds`, `HeldIsSettled`, `SteadyHandshakeCompletes`,
`WholeIsRetired`, `StandEnds`): fairness and `ENABLED` are beyond the prover. Every
invariant and every action property of a passing run is proved.

## 5. What the checks found

Two runs show the program doing what a comment of its own excludes; each is under
`findings` in `PROJECT.json` with the line it contradicts.

1. `group_orphan`: the rows of a half-stored snapshot can be neither acknowledged nor
   given up.
2. `toolchain_network`: a debug build for iOS without `XVEIL_NETWORK` compiles the
   production seeds into the native library and leaves the app to its build
   mode, which says testnet.

The models can show more; these have no run of their own. Each line names the property,
which its module defines, and what to change in a configuration to see it violated.

| Property | How to reproduce | What happens |
|---|---|---|
| `Outbox!HeldIsStored` | `OutboxCalls.cfg` with `Ids = {x}`, `Dest <- DestShared`, `Perishable = {}`, `Strays = {}` | rows are keyed by id alone: an id sent to two peers in one instant keeps one row (`hidden_volume_storage.dart:5023`) |
| `Outbox!NoUndercount` | `OutboxCalls.cfg` with `LoadMayFail = TRUE`, `MaxFaults = 2` | an index that does not load reads as an empty queue and is marked as counted (`hidden_volume_storage.dart:5135`) |
| `Contacts!DecisionStands` | `ContactsConsent.cfg` with `Decisions <- AskAndBlock` | a doorbell overwrites a decision taken since its read of the contact |
| `Contacts!HandshakeCompletes` | `ContactsHandshake.cfg` with `Decisions <- AskAndAccept`, `MaxRefusals = 1` | a request is remembered before its answer is stored; when that fails, copies are acknowledged and never answered |
| `ShaperControl!NoOldAnswer` | `ShapedLink.cfg` | the stop that follows a timeout takes the late answer of the request before it (`process_tcp_shaper.py:55-57`); `RateWasApplied` holds because nothing but a stop is asked after a timeout |
| `CodecStand!ProducersStopFirst` | `CodecStand.cfg` | a file thread that outlives its `join(timeout=5)` still calls a binding that is closed (`relay-codec-control.py:1088`, `1103`) |
| `Toolchain!HadIsWhole` | `Toolchain.cfg` | a download of a release asset that ends early gets the engine's name, no check can read it, and the report has it (`xveil_native_deps.py:659` says that an engine merely present is not to be had); a Linux or Windows release then ships it, because their gates ask whether it is there (`builder.py:847`, `1207`) |
| `Toolchain!EverythingIsThere` | `Toolchain.cfg` with `Lines <- AndroidFetch`, `Machines <- EmptySlots`, `Hosts <- DebianHosts` | the report says "Everything this host can have, it has." (`xveil_native_deps.py:1153`) although only one ABI has an engine |

## 6. Not modelled, and why

Every component is in `PROJECT.json` with its status. The order in which the rest of the
messenger is worth modelling:

1. `SilentProbe`: the probe gate of the outbox (`messaging_outbox.dart:960-1193`) and
   the pure ladders of delays; property: a peer that is back is not kept silent.
2. `DurablePromise`: the abstract outbox, a set of owed frames with the actions owe,
   settle and give up, and `Outbox` and `GroupTransfer` shown to implement it.
3. `GapFill` (`messaging_peer_sync.dart`): two logs, beacons and bounded fills;
   property: no watermark passes a hole, and the logs converge.
4. `MessageDelivery` and the mutations: the states of a line against the outbox and
   the order of edits and tombstones.
5. `CallState`: both ends of a call over frames that are late or doubled.
6. `GroupPolicy` as a recursive function over forked logs against a reference
   definition; then epochs and rekeying.
7. The key-value log store under crashes, the mailbox orchestrator, the reservation
   of ratchet keys.

Of the Python programs the media stand, the analysis of measurements, the opaque frame
capture, the checks of documents and bundles and the crypto helpers are left out:
sequential code over files, without state that outlives a call.

Hazards of the modelled Dart files that no property covers, beyond those in
`PROJECT.json`:

- 256 acknowledgements during one read call a flush pass off
  (`messaging_outbox.dart:48`);
- queueing a frame again under an existing id keeps the old row
  (`messaging_outbox.dart:375`);
- a contact blocked between the planning of a pass and the re-drive still gets
  the planned frame (`messaging_outbox.dart:874`);
- the probe of a silent peer (`messaging_outbox.dart:960`);
- one unreadable row is dropped from the index for good
  (`hidden_volume_storage.dart:4936`);
- a repeated acknowledgement of a transfer that is queued again
  (`messaging_replication.dart:650`).

Out of reach: codecs and wording, media rates, platform channels, the user interface,
and the Veil node itself, which is not in this repository.
