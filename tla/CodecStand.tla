---------------------------- MODULE CodecStand -----------------------------
(***************************************************************************)
(* The codec stand (scripts/relay-codec-control.py): one process that owns *)
(* three SDK nodes, two endpoints with an engine each, a shaper, the       *)
(* policy helper and its producers: a PCM clock (a native driver or a      *)
(* Python thread) and two file writers.  SDK callbacks deliver files and   *)
(* health reports while the main thread measures, freezes the evidence,    *)
(* judges it and tears everything down.                                    *)
(***************************************************************************)
EXTENDS Integers, Sequences, FiniteSets

CONSTANTS Sides,        \* the two endpoints
          Peer,         \* the other endpoint
          Requests,     \* command lines
          Ticks,        \* length of the measured workload, in poll ticks
          FileTick,     \* the tick at which video and files start
          Chunks,       \* chunks of one file
          MaxFaults     \* bound on losses, exceptions, deaths and hangs

ASSUME CodecAssumption ==
    /\ Peer \in [Sides -> Sides] /\ \A i \in Sides : Peer[Peer[i]] = i
    /\ Ticks \in Nat /\ FileTick \in 0..Ticks
    /\ Chunks \in Nat \ {0} /\ MaxFaults \in Nat

VARIABLES args,         \* the accepted command line
          phase,        \* where the main thread is; "blocked" in a call without a
                        \* deadline, "exited" (the verdict is out), "gone"
          steps,        \* steps of the phase still to do
          open,         \* what the lists and variables of the script hold
          tick,         \* the measured tick
          clock,        \* the PCM clock: "none", "running", "stuck", "stopped"
          writer,       \* each file thread: "none", "writing", "done", "broken", "stuck"
          queued,       \* chunks each writer has handed to the SDK
          net,          \* what the SDK carries: files and health reports
          chunks,       \* chunks each side holds
          polled,       \* compact reports that wait for poll_compact_health
          healthsent, healthrecv,
          policy,       \* the Dart helper: "none", "alive", "hung" or "dead"
          unsent,       \* a command is still in the buffer of its closed pipe
          checkpoint,   \* file evidence of the checkpoint, or None
          frozen,       \* file evidence of the measured workload, or None
          shaping,      \* "none", "up", "stopped" or "hung"
          ok,           \* result['ok']
          exit,         \* "none", "green", "red" or "aborted"
          torn,         \* history: producers that ran when their engine or
                        \* binding was closed
          faults        \* history

vars == <<args, phase, steps, open, tick, clock, writer, queued, net, chunks,
          polled, healthsent, healthrecv, policy, unsent, checkpoint, frozen,
          shaping, ok, exit, torn, faults>>
evidence == <<checkpoint, frozen>>
health == <<polled, healthsent, healthrecv>>
files == <<writer, queued, chunks>>

None == [complete |-> {}, taken |-> FALSE]
ChunkIds == 1..Chunks
Fault == faults < MaxFaults /\ faults' = faults + 1
NoFault == UNCHANGED faults

(* The command lines that the argument checks let through.                 *)
Accepted(a) ==
    /\ a.checkpoint # 0 => a.files /\ a.checkpoint < Ticks
    /\ a.isolated => a.shaped /\ a.ordered
    /\ a.compact => ~a.shared_ipc

SetupSteps ==
    <<"library", "identities", "shaper", "nodes", "sessions", "apps", "media",
      "controls", "files", "channels", "engines", "policy", "prime", "bootstrap",
      "rate", "clock">>

(* What each step of the setup leaves in a list for the teardown.          *)
Kept(step) ==
    CASE step = "shaper" -> IF args.shaped THEN {"shaper"} ELSE {}
      [] step \in {"nodes", "apps", "controls", "channels", "engines", "policy"} -> {step}
      [] step = "files" -> IF args.files THEN {"files"} ELSE {}
      [] OTHER -> {}

Cleanup ==
    <<"clock", "files", "policy", "video", "engines", "shaper", "channels",
      "file_bindings", "controls", "apps", "nodes">>

Init ==
    /\ args \in {a \in Requests : Accepted(a)}
    /\ phase = "setup" /\ steps = SetupSteps
    /\ open = {}
    /\ tick = 0
    /\ clock = "none"
    /\ writer = [i \in Sides |-> "none"]
    /\ queued = [i \in Sides |-> 0]
    /\ net = {}
    /\ chunks = [i \in Sides |-> {}]
    /\ polled = {}
    /\ healthsent = [i \in Sides |-> 0]
    /\ healthrecv = [i \in Sides |-> 0]
    /\ policy = "none" /\ unsent = FALSE
    /\ checkpoint = None /\ frozen = None
    /\ shaping = "none"
    /\ ok = FALSE
    /\ exit = "none"
    /\ torn = {}
    /\ faults = 0

Report(i, n) == [kind |-> "health", to |-> Peer[i], id |-> n]
Chunk(i, n) == [kind |-> "chunk", to |-> Peer[i], id |-> n]

(* The first report of each side is on its way.                            *)
Primed == net \cup {Report(i, 0) : i \in Sides}

(* An exception anywhere in the try block.                                 *)
Caught ==
    /\ phase' = "finally" /\ steps' = Cleanup
    /\ ok' = FALSE

-----------------------------------------------------------------------------
(* Setup.                                                                  *)

SetupStep ==
    /\ phase = "setup"
    /\ LET step == Head(steps) IN
       /\ step = "bootstrap" => \A i \in Sides : healthrecv[i] = 1
       /\ step = "prime" => policy = "alive"
       /\ open' = open \cup Kept(step)
       /\ shaping' = IF step = "shaper" /\ args.shaped THEN "up" ELSE shaping
       /\ policy' = IF step = "policy" THEN "alive" ELSE policy
       /\ net' = IF step = "prime" THEN Primed ELSE net
       /\ clock' = IF step = "clock" THEN "running" ELSE clock
    /\ steps' = Tail(steps)
    /\ phase' = IF Tail(steps) = <<>> THEN "measure" ELSE phase
    /\ NoFault
    /\ UNCHANGED <<args, tick, files, health, unsent, evidence, ok, exit, torn>>

(* The first reports have thirty seconds.                                  *)
BootstrapTimesOut ==
    /\ phase = "setup"
    /\ Head(steps) = "bootstrap"
    /\ \E i \in Sides : healthrecv[i] # 1
    /\ Caught
    /\ NoFault
    /\ UNCHANGED <<args, open, tick, clock, files, net, health, policy, unsent, evidence,
                   shaping, exit, torn>>

(* A step raises; of what it makes one by one, some may exist already.     *)
SetupRaises ==
    /\ phase = "setup"
    /\ open' \in {open, open \cup (Kept(Head(steps)) \ {"shaper", "policy"})}
    /\ Caught
    /\ Fault
    /\ UNCHANGED <<args, tick, clock, files, net, health, policy, unsent, evidence,
                   shaping, exit, torn>>

-----------------------------------------------------------------------------
(* SDK callbacks and the network, which may lose a report or a chunk.      *)

(* While the application bindings exist, the callbacks run.                *)
Listening(m) == IF m.kind = "chunk" THEN "files" \in open ELSE "controls" \in open

ReceiveFile(m) ==
    /\ m \in net /\ m.kind = "chunk"
    /\ Listening(m)
    /\ net' = net \ {m}
    /\ chunks' = [chunks EXCEPT ![m.to] = @ \cup {m.id}]
    /\ NoFault
    /\ UNCHANGED <<args, phase, steps, open, tick, clock, writer, queued, health,
                   policy, unsent, evidence, shaping, ok, exit, torn>>

(* The first report takes the ordinary path; a compact one waits for a poll. *)
ReceiveHealth(m) ==
    /\ m \in net /\ m.kind = "health"
    /\ Listening(m)
    /\ net' = net \ {m}
    /\ IF args.compact /\ m.id > 0
         THEN polled' = polled \cup {m} /\ UNCHANGED healthrecv
         ELSE healthrecv' = [healthrecv EXCEPT ![m.to] = @ + 1] /\ UNCHANGED polled
    /\ NoFault
    /\ UNCHANGED <<args, phase, steps, open, tick, clock, files, healthsent,
                   policy, unsent, evidence, shaping, ok, exit, torn>>

Lose(m) ==
    /\ m \in net
    /\ net' = net \ {m}
    /\ Fault
    /\ UNCHANGED <<args, phase, steps, open, tick, clock, files, health,
                   policy, unsent, evidence, shaping, ok, exit, torn>>

(* A file thread hands over its next chunk and ends after the last, even   *)
(* when the main thread has left without telling it to stop.               *)
WriteFile(i) ==
    /\ writer[i] = "writing"
    /\ phase # "gone"
    /\ queued' = [queued EXCEPT ![i] = @ + 1]
    /\ net' = net \cup {Chunk(i, queued'[i])}
    /\ writer' = [writer EXCEPT ![i] = IF queued'[i] = Chunks THEN "done" ELSE @]
    /\ NoFault
    /\ UNCHANGED <<args, phase, steps, open, tick, clock, chunks, health, policy,
                   unsent, evidence, shaping, ok, exit, torn>>

(* The SDK refuses a chunk, or the call does not return.                   *)
WriterFails(i) ==
    /\ writer[i] = "writing"
    /\ \E how \in {"broken", "stuck"} : writer' = [writer EXCEPT ![i] = how]
    /\ Fault
    /\ UNCHANGED <<args, phase, steps, open, tick, clock, queued, net, chunks, health,
                   policy, unsent, evidence, shaping, ok, exit, torn>>

(* A capture or playout call of the PCM clock does not return.             *)
ClockHangs ==
    /\ clock = "running"
    /\ clock' = "stuck"
    /\ Fault
    /\ UNCHANGED <<args, phase, steps, open, tick, files, net, health, policy, unsent,
                   evidence, shaping, ok, exit, torn>>

PolicyDies ==
    /\ policy = "alive"
    /\ policy' = "dead"
    /\ Fault
    /\ UNCHANGED <<args, phase, steps, open, tick, clock, files, net, health, unsent,
                   evidence, shaping, ok, exit, torn>>

(* The helper stops answering for good.                                    *)
PolicyHangs ==
    /\ policy = "alive"
    /\ policy' = "hung"
    /\ Fault
    /\ UNCHANGED <<args, phase, steps, open, tick, clock, files, net, health, unsent,
                   evidence, shaping, ok, exit, torn>>

-----------------------------------------------------------------------------
(* The measured workload.                                                  *)

(* snapshot_transfers: which sides hold a whole file, copied under the lock. *)
Snapshot == [complete |-> {i \in Sides : chunks[i] = ChunkIds}, taken |-> TRUE]

TakeCheckpoint ==
    IF args.checkpoint # 0 /\ tick >= args.checkpoint /\ ~checkpoint.taken
      THEN checkpoint' = Snapshot
      ELSE UNCHANGED checkpoint

(* poll_compact_health takes what is there.                                *)
PollCompact ==
    /\ healthrecv' = [i \in Sides |->
                        healthrecv[i] + Cardinality({m \in polled : m.to = i})]
    /\ polled' = {}

(* A whole tick: checkpoint, poll, statistics through the policy, start of *)
(* video and files, and the health report of the sides that owe one.       *)
Tick ==
    /\ phase = "measure"
    /\ tick < Ticks
    /\ policy = "alive"
    /\ TakeCheckpoint
    /\ PollCompact
    /\ writer' = IF tick = FileTick /\ args.files
                   THEN [i \in Sides |-> "writing"] ELSE writer
    /\ \E owing \in {{}, Sides} :
          /\ net' = net \cup {Report(i, healthsent[i] + 1) : i \in owing}
          /\ healthsent' = [i \in Sides |-> IF i \in owing THEN healthsent[i] + 1
                                                           ELSE healthsent[i]]
    /\ tick' = tick + 1
    /\ NoFault
    /\ UNCHANGED <<args, phase, steps, open, clock, queued, chunks, policy, unsent,
                   frozen, shaping, ok, exit, torn>>

(* What comes before a command to the helper: in a tick the checkpoint and *)
(* the poll, in the setup perhaps the first reports.                       *)
UpToCommand ==
    \/ /\ phase = "measure" /\ tick < Ticks
       /\ TakeCheckpoint /\ PollCompact
       /\ UNCHANGED net
    \/ /\ phase = "setup" /\ Head(steps) = "prime"
       /\ net' \in {net, Primed}
       /\ UNCHANGED <<checkpoint, polled, healthrecv>>

(* A command to a dead helper fails: when the pipe breaks, its text stays  *)
(* in the buffer; otherwise the answer is missing.                         *)
CommandFails ==
    /\ policy = "dead"
    /\ UpToCommand
    /\ unsent' \in BOOLEAN
    /\ Caught
    /\ NoFault
    /\ UNCHANGED <<args, open, tick, clock, files, healthsent, policy, frozen,
                   shaping, exit, torn>>

(* The answer of a helper that hangs is read without a deadline.           *)
CommandBlocks ==
    /\ policy = "hung"
    /\ UpToCommand
    /\ phase' = "blocked"
    /\ NoFault
    /\ UNCHANGED <<args, steps, open, tick, clock, files, healthsent, policy, unsent,
                   frozen, shaping, ok, exit, torn>>

(* The steps of the teardown that call the SDK without a timeout.          *)
SdkCloses == {"video", "engines", "channels", "file_bindings", "controls", "apps"}

(* A call of the SDK, in the try block or in the teardown, does not return. *)
SdkHangs ==
    /\ \/ phase \in {"setup", "measure"}
       \/ phase = "finally" /\ steps # <<>> /\ Head(steps) \in SdkCloses
    /\ phase' = "blocked"
    /\ Fault
    /\ UNCHANGED <<args, steps, open, tick, clock, files, net, health, policy, unsent,
                   evidence, shaping, ok, exit, torn>>

(* Any other exception of the workload.                                    *)
MeasureRaises ==
    /\ phase \in {"measure", "frozen"}
    /\ Caught
    /\ Fault
    /\ UNCHANGED <<args, open, tick, clock, files, net, health, policy, unsent, evidence,
                   shaping, exit, torn>>

(* The last poll, and the evidence of the files under their lock.          *)
Freeze ==
    /\ phase = "measure"
    /\ tick = Ticks
    /\ PollCompact
    /\ frozen' = Snapshot
    /\ phase' = "frozen"
    /\ NoFault
    /\ UNCHANGED <<args, steps, open, tick, clock, files, net, healthsent, policy,
                   unsent, checkpoint, shaping, ok, exit, torn>>

(* The clock must stop before anything is judged.                          *)
StopClock ==
    /\ phase = "frozen"
    /\ IF clock = "stuck"
         THEN Caught /\ UNCHANGED clock
         ELSE clock' = "stopped" /\ phase' = "judged" /\ UNCHANGED <<steps, ok>>
    /\ NoFault
    /\ UNCHANGED <<args, open, tick, files, net, health, policy, unsent, evidence,
                   shaping, exit, torn>>

(* Mutant: the files are judged by what has arrived by now.                *)
JudgedLive == Snapshot

(* The file evidence that counts.                                          *)
Judged == frozen

FilesOk == Judged.complete = Sides /\ \A i \in Sides : queued[i] = Chunks

(* A side has heard every report of the other, and the first.              *)
Heard(i) == healthrecv[i] = healthsent[Peer[i]] + 1

(* The verdict: the media (quality), the health reports and the files.     *)
Judge(quality) ==
    /\ phase = "judged"
    /\ ok' = (quality /\ (\A i \in Sides : Heard(i)) /\ (args.files => FilesOk))
    /\ phase' = "finally" /\ steps' = Cleanup
    /\ NoFault
    /\ UNCHANGED <<args, open, tick, clock, files, net, health, policy, unsent, evidence,
                   shaping, exit, torn>>

-----------------------------------------------------------------------------
(* The finally block: one step after the other; an exception of a step     *)
(* that is not guarded ends the process there.                             *)

Ending(step) == phase = "finally" /\ steps # <<>> /\ Head(steps) = step
Done == steps' = Tail(steps) /\ UNCHANGED <<phase, exit>>
Aborts == phase' = "exited" /\ exit' = "aborted" /\ UNCHANGED steps
Running == IF clock \in {"running", "stuck"} THEN {"clock"} ELSE {}
Writing == {i \in Sides : writer[i] \in {"writing", "stuck"}}

(* Mutant: a driver that does not stop does not hold up the cleanup.       *)
EndClockGuarded ==
    /\ Ending("clock")
    /\ clock' = IF clock = "running" THEN "stopped" ELSE clock
    /\ ok' = (ok /\ clock # "stuck")
    /\ Done
    /\ NoFault
    /\ UNCHANGED <<args, open, tick, files, net, health, policy, unsent, evidence,
                   shaping, torn>>

(* A native driver that does not stop raises; a Python thread that does    *)
(* not end within five seconds is only noted.                              *)
EndClock ==
    /\ Ending("clock")
    /\ clock' = IF clock = "running" THEN "stopped" ELSE clock
    /\ IF clock = "stuck" /\ args.native THEN Aborts ELSE Done
    /\ NoFault
    /\ UNCHANGED <<args, open, tick, files, net, health, policy, unsent, evidence,
                   shaping, ok, torn>>

(* Mutant: the writers are joined without a timeout.                       *)
EndFilesWaiting ==
    /\ Ending("files")
    /\ \A i \in Sides : writer[i] # "stuck"
    /\ writer' = [i \in Sides |-> IF writer[i] = "writing" THEN "done" ELSE writer[i]]
    /\ Done
    /\ NoFault
    /\ UNCHANGED <<args, open, tick, clock, queued, net, chunks, health, policy, unsent,
                   evidence, shaping, ok, torn>>

(* The writers are told to stop and joined for five seconds each.          *)
EndFiles ==
    /\ Ending("files")
    /\ writer' = [i \in Sides |-> IF writer[i] = "writing" THEN "done" ELSE writer[i]]
    /\ ok' = (ok /\ \A i \in Sides : writer[i] # "stuck")
    /\ Done
    /\ NoFault
    /\ UNCHANGED <<args, open, tick, clock, queued, net, chunks, health, policy, unsent,
                   evidence, shaping, torn>>

(* Closing the pipe flushes what a broken write has left in its buffer; a  *)
(* helper that does not end within five seconds is killed.                 *)
EndPolicy ==
    /\ Ending("policy")
    /\ IF unsent
         THEN Aborts /\ UNCHANGED <<policy, open>>
         ELSE /\ Done
              /\ open' = open \ {"policy"}
              /\ policy' = IF policy = "none" THEN policy ELSE "dead"
    /\ NoFault
    /\ UNCHANGED <<args, tick, clock, files, net, health, unsent, evidence, shaping,
                   ok, torn>>

EndVideo(stopped) ==
    /\ Ending("video")
    /\ ok' = (ok /\ ("engines" \in open => stopped))
    /\ Done
    /\ NoFault
    /\ UNCHANGED <<args, open, tick, clock, files, net, health, policy, unsent, evidence,
                   shaping, torn>>

EndEngines ==
    /\ Ending("engines")
    /\ open' = open \ {"engines"}
    /\ torn' = IF "engines" \in open THEN torn \cup Running ELSE torn
    /\ Done
    /\ NoFault
    /\ UNCHANGED <<args, tick, clock, files, net, health, policy, unsent, evidence,
                   shaping, ok>>

(* A shaper that does not stop is noted; the cleanup goes on.              *)
EndShaper ==
    /\ Ending("shaper")
    /\ IF "shaper" \in open
         THEN \/ shaping' = "stopped" /\ NoFault /\ UNCHANGED ok
              \/ shaping' = "hung" /\ Fault /\ ok' = FALSE
         ELSE UNCHANGED <<shaping, ok>> /\ NoFault
    /\ open' = open \ {"shaper"}
    /\ Done
    /\ UNCHANGED <<args, tick, clock, files, net, health, policy, unsent, evidence, torn>>

(* Channels, bindings and clients, in the reverse order of their making.   *)
EndBinding ==
    /\ phase = "finally" /\ steps # <<>>
    /\ LET binding == IF Head(steps) = "file_bindings" THEN "files" ELSE Head(steps) IN
       /\ Head(steps) \in {"channels", "file_bindings", "controls", "apps"}
       /\ open' = open \ {binding}
       /\ torn' = IF binding = "files" /\ "files" \in open
                    THEN torn \cup (IF Writing = {} THEN {} ELSE {"files"}) ELSE torn
    /\ Done
    /\ NoFault
    /\ UNCHANGED <<args, tick, clock, files, net, health, policy, unsent, evidence,
                   shaping, ok>>

(* The nodes are stopped, the summary is written, the script exits.        *)
EndNodes(stopped) ==
    /\ Ending("nodes")
    /\ open' = open \ {"nodes"}
    /\ ok' = (ok /\ stopped)
    /\ exit' = IF ok' THEN "green" ELSE "red"
    /\ phase' = "exited" /\ steps' = <<>>
    /\ NoFault
    /\ UNCHANGED <<args, tick, clock, files, net, health, policy, unsent, evidence,
                   shaping, torn>>

(* A thread that has not returned, or was never told to stop: of the file  *)
(* writers, the Python PCM thread and a shaper in this process.            *)
Lingering ==
    \/ \E i \in Sides : writer[i] = "stuck"
    \/ clock = "stuck" /\ ~args.native
    \/ shaping \in {"up", "hung"} /\ ~args.isolated

(* The interpreter joins these threads before the process ends.            *)
InterpreterExit ==
    /\ phase = "exited"
    /\ ~Lingering /\ \A i \in Sides : writer[i] # "writing"
    /\ phase' = "gone"
    /\ NoFault
    /\ UNCHANGED <<args, steps, open, tick, clock, files, net, health, policy, unsent,
                   evidence, shaping, ok, exit, torn>>

Next ==
    \/ SetupStep \/ BootstrapTimesOut \/ SetupRaises
    \/ \E m \in net : ReceiveFile(m) \/ ReceiveHealth(m) \/ Lose(m)
    \/ \E i \in Sides : WriteFile(i) \/ WriterFails(i)
    \/ ClockHangs \/ PolicyDies \/ PolicyHangs \/ SdkHangs
    \/ Tick \/ CommandFails \/ CommandBlocks \/ MeasureRaises \/ Freeze \/ StopClock
    \/ \E good \in BOOLEAN : Judge(good) \/ EndVideo(good) \/ EndNodes(good)
    \/ EndClock \/ EndFiles \/ EndPolicy \/ EndEngines \/ EndShaper \/ EndBinding
    \/ InterpreterExit

CodecSpec == Init /\ [][Next]_vars

(* The main thread runs on while it is not blocked: its sleeps, its joins  *)
(* and its wait for the first reports are bounded.                         *)
MainThread ==
    \/ SetupStep \/ BootstrapTimesOut \/ Tick \/ CommandFails \/ CommandBlocks \/ Freeze \/ StopClock
    \/ \E good \in BOOLEAN : Judge(good) \/ EndVideo(good) \/ EndNodes(good)
    \/ EndClock \/ EndFiles \/ EndPolicy \/ EndEngines \/ EndShaper \/ EndBinding
    \/ InterpreterExit

(* A file writer loops without waiting; WriterFails is its call that does  *)
(* not return.                                                             *)
CodecFairSpec == CodecSpec /\ WF_vars(MainThread) /\ WF_vars(\E i \in Sides : WriteFile(i))

-----------------------------------------------------------------------------
(* Properties.                                                             *)

(* A green exit is earned: all of every file had arrived when the workload *)
(* ended, no report was lost on the way, and no producer was alive when    *)
(* what it calls was closed.                                               *)
CodecGreenIsEarned ==
    exit = "green" =>
        /\ args.files => frozen.complete = Sides
        /\ \A m \in net \cup polled : m.kind # "health"
        /\ torn = {} /\ open = {}

(* native_pcm_driver.py, line 117: an in-flight callback owns the engines, *)
(* so they are not destroyed while the native driver is stuck in one.      *)
DriverKeepsItsEngines == args.native => "clock" \notin torn

(* The stand comes to its verdict, whatever is lost, raises, dies or       *)
(* hangs, and then the process ends unless a thread is left that the       *)
(* interpreter joins; only a call without a deadline that does not return  *)
(* keeps the main thread from it.                                          *)
StandEnds == <>(phase \in {"gone", "blocked"} \/ (phase = "exited" /\ Lingering))

(* relay-codec-control.py, line 1088: the producers are joined before the  *)
(* bindings they use are closed; line 1103: and before any destructor.     *)
ProducersStopFirst == torn = {}
=============================================================================
