----------------------------- MODULE FileLoad ------------------------------
(***************************************************************************)
(* The competing files of the group stand (scripts/group_process_files.py) *)
(* One thread of each participant writes a file, block by block, to the    *)
(* next participant of the ring; SDK callbacks receive the blocks of the   *)
(* previous one.  A callback notes its time before it waits for the lock.  *)
(* The network delays, reorders, repeats and drops blocks.                 *)
(***************************************************************************)
EXTENDS Integers, FiniteSets

CONSTANTS Members,      \* the participants
          After,        \* the ring: whom each participant sends to
          Blocks,       \* blocks of one file
          MaxNoise      \* bound on repeated, dropped and forged blocks

ASSUME FileAssumption ==
    /\ After \in [Members -> Members]
    /\ Blocks \in Nat \ {0}
    /\ MaxNoise \in Nat

VARIABLES over,         \* the deadline of the capture has passed
          writer,       \* "none", "writing", "written", "broken", "stuck"
          handed,       \* blocks each writer has handed to the SDK
          queued,       \* self.queued, in blocks
          wire,         \* blocks on their way, as <<receiver, block>>
          inside,       \* callbacks before the lock: <<receiver, block, time>>
          received,     \* self.received
          repeats,      \* self.duplicates
          bad,          \* self.bad
          failures,     \* self.failures of each sender
          noise,        \* history: what the network has done wrong so far
          on_time,      \* history: blocks that arrived before the deadline
          armed,        \* participants whose deadline is set
          frozen        \* the snapshot freeze() returned, or Unfrozen

fileVars == <<writer, handed, queued, wire, inside, received, repeats, bad,
              failures, noise, on_time, armed, frozen>>

BlockIds == 1..Blocks
Unfrozen == [queued |-> -1]

FileInit ==
    /\ over = FALSE
    /\ writer = [m \in Members |-> "none"]
    /\ handed = [m \in Members |-> 0]
    /\ queued = [m \in Members |-> 0]
    /\ wire = {}
    /\ inside = {}
    /\ received = [m \in Members |-> {}]
    /\ repeats = [m \in Members |-> 0]
    /\ bad = [m \in Members |-> 0]
    /\ failures = [m \in Members |-> 0]
    /\ noise = 0
    /\ on_time = [m \in Members |-> {}]
    /\ armed = {}
    /\ frozen = [m \in Members |-> Unfrozen]

(* arm(): the origin and the deadline.                                     *)
Arm(m) ==
    /\ armed' = armed \cup {m}
    /\ UNCHANGED <<writer, handed, queued, wire, inside, received, repeats, bad,
                   failures, noise, on_time, frozen>>

Bump(f, m) == [f EXCEPT ![m] = @ + 1]

(* start(): the writer thread.                                             *)
StartWriter(m) ==
    /\ writer[m] = "none"
    /\ writer' = [writer EXCEPT ![m] = "writing"]
    /\ UNCHANGED <<handed, queued, wire, inside, received, repeats, bad, failures,
                   noise, on_time, armed, frozen>>

(* The SDK accepts the next block; the count follows under the lock.       *)
HandOver(m) ==
    /\ writer[m] = "writing"
    /\ handed[m] = queued[m]
    /\ handed[m] < Blocks
    /\ handed' = Bump(handed, m)
    /\ wire' = wire \cup {<<After[m], handed[m] + 1>>}
    /\ UNCHANGED <<writer, queued, inside, received, repeats, bad, failures,
                   noise, on_time, armed, frozen>>

CountQueued(m) ==
    /\ writer[m] = "writing"
    /\ queued[m] < handed[m]
    /\ queued' = Bump(queued, m)
    /\ writer' = [writer EXCEPT ![m] = IF queued'[m] = Blocks THEN "written" ELSE @]
    /\ UNCHANGED <<handed, wire, inside, received, repeats, bad, failures,
                   noise, on_time, armed, frozen>>

(* The SDK refuses a block or does not return from the call.               *)
WriterFails(m) ==
    /\ writer[m] = "writing"
    /\ handed[m] = queued[m]
    /\ noise < MaxNoise
    /\ noise' = noise + 1
    /\ \E how \in {"broken", "stuck"} : writer' = [writer EXCEPT ![m] = how]
    /\ UNCHANGED <<handed, queued, wire, inside, received, repeats, bad, failures,
                   on_time, armed, frozen>>

(* A block reaches the callback, which notes the time.                     *)
Arrive(m, b) ==
    /\ <<m, b>> \in wire
    /\ wire' = wire \ {<<m, b>>}
    /\ inside' = inside \cup {<<m, b, over>>}
    /\ on_time' = IF over THEN on_time ELSE [on_time EXCEPT ![m] = @ \cup {b}]
    /\ UNCHANGED <<writer, handed, queued, received, repeats, bad, failures, noise, armed, frozen>>

(* The network delivers a block twice.                                     *)
ArriveTwice(m, b) ==
    /\ noise < MaxNoise
    /\ noise' = noise + 1
    /\ <<m, b>> \in wire
    /\ inside' = inside \cup {<<m, b, over>>}
    /\ on_time' = IF over THEN on_time ELSE [on_time EXCEPT ![m] = @ \cup {b}]
    /\ UNCHANGED <<writer, handed, queued, wire, received, repeats, bad, failures, armed, frozen>>

(* The SDK gives a block up and reports the failure to its sender.         *)
AsyncFailure(m, b) ==
    /\ noise < MaxNoise
    /\ noise' = noise + 1
    /\ <<After[m], b>> \in wire
    /\ wire' = wire \ {<<After[m], b>>}
    /\ failures' = Bump(failures, m)
    /\ UNCHANGED <<writer, handed, queued, inside, received, repeats, bad, on_time, armed, frozen>>

(* A fragment that is foreign, malformed or does not decrypt.              *)
Forged(m) ==
    /\ noise < MaxNoise
    /\ noise' = noise + 1
    /\ bad' = Bump(bad, m)
    /\ UNCHANGED <<writer, handed, queued, wire, inside, received, repeats, failures,
                   on_time, armed, frozen>>

(* Mutant: a fragment that arrived late still counts.                      *)
AcceptLate(m, b, overdue) ==
    /\ <<m, b, overdue>> \in inside
    /\ inside' = inside \ {<<m, b, overdue>>}
    /\ received' = [received EXCEPT ![m] = @ \cup {b}]
    /\ repeats' = IF b \notin received[m] THEN repeats ELSE Bump(repeats, m)
    /\ UNCHANGED <<writer, handed, queued, wire, bad, failures, noise, on_time, armed, frozen>>

(* The callback holds the lock: a fragment is only counted as late when it *)
(* arrived after the deadline or when there is no deadline yet.            *)
Accept(m, b, overdue) ==
    LET late == overdue \/ m \notin armed IN
    /\ <<m, b, overdue>> \in inside
    /\ inside' = inside \ {<<m, b, overdue>>}
    /\ received' = IF late THEN received ELSE [received EXCEPT ![m] = @ \cup {b}]
    /\ repeats' = IF late \/ b \notin received[m] THEN repeats ELSE Bump(repeats, m)
    /\ UNCHANGED <<writer, handed, queued, wire, bad, failures, noise, on_time, armed, frozen>>

Snapshot(m) ==
    [queued    |-> queued[m],
     matches   |-> received[m] = BlockIds,
     clean     |-> bad[m] = 0 /\ repeats[m] = 0 /\ failures[m] = 0 /\ writer[m] # "broken"]

Freeze(m) ==
    /\ over
    /\ frozen' = [frozen EXCEPT ![m] = Snapshot(m)]
    /\ UNCHANGED <<writer, handed, queued, wire, inside, received, repeats, bad,
                   failures, noise, on_time, armed>>

(* The worker's own verdict on its files.                                  *)
FilesOk(m) ==
    /\ frozen[m].queued = Blocks
    /\ frozen[m].matches
    /\ frozen[m].clean

(* stop(): whether the thread ended within five seconds.                   *)
WriterExits(m) == writer[m] # "stuck"

(* The process of m ends or is stuck: its callbacks, and what it has       *)
(* received and counted, are gone.                                         *)
Forget(m) ==
    /\ inside' = {c \in inside : c[1] # m}
    /\ received' = [received EXCEPT ![m] = {}]
    /\ repeats' = [repeats EXCEPT ![m] = 0]
    /\ bad' = [bad EXCEPT ![m] = 0]
    /\ failures' = [failures EXCEPT ![m] = 0]
    /\ UNCHANGED <<writer, handed, queued, wire, noise, on_time, armed, frozen>>

FileStep(m) ==
    \/ HandOver(m)
    \/ CountQueued(m)
    \/ WriterFails(m)
    \/ Forged(m)
    \/ \E b \in BlockIds :
          \/ Arrive(m, b)
          \/ ArriveTwice(m, b)
          \/ AsyncFailure(m, b)
          \/ \E overdue \in BOOLEAN : Accept(m, b, overdue)
=============================================================================
