---------------------------- MODULE GroupStand -----------------------------
(***************************************************************************)
(* The group stand: a parent that owns the SDK nodes of a star and one     *)
(* worker process per participant (scripts/group-process-preflight.py,     *)
(* scripts/group_codec_sdk.py).  They talk over a pipe each: the parent    *)
(* waits for all workers to be ready, configured and finished, against a   *)
(* deadline, and serves their requests for source costs in between.        *)
(* Anything may raise; a process may die; the parent reaps, closes the     *)
(* star and writes the verdict.  The cleanup may fail as well: a worker    *)
(* may outlive its signal, a node and the shaper may not stop.             *)
(***************************************************************************)
EXTENDS FileLoad, Sequences

CONSTANTS Nodes,        \* the nodes of the star
          MaxFaults,    \* bound on exceptions, deaths, missed deadlines, noise
          MaxLeft,      \* bound on workers, nodes and shapers that outlive their end
          MaxRequests   \* bound on requests for source costs

ASSUME StandAssumption ==
    IsFiniteSet(Nodes) /\ MaxFaults \in Nat /\ MaxLeft \in Nat /\ MaxRequests \in Nat

VARIABLES parent,       \* where main() is
          reserved,     \* nodes whose listener port is still reserved
          shaper,       \* "none", "up", "stopped", "failed" (stopped with a
                        \* failure noted) or "hung"
          nodes,        \* nodes that run
          unstopped,    \* nodes whose node_stop did not return 0
          awaited,      \* workers whose value the parent still waits for
          values,       \* what the others have answered
          summary_ok,   \* result['ok'] of the parent
          raised,       \* its own failure was saved privately
          qualified,    \* result['contention_qualification']
          wphase,       \* where each worker is
          worker_ok,    \* result['ok'] of each worker
          failed,       \* workers whose exception was saved privately
          proofs,       \* workers with a complete list of video paths
          exitcode,     \* "unborn", "alive", "signalled", "clean", "error", "killed"
          up, down,     \* the two directions of each pipe
          asked,        \* workers whose source cost is outstanding
          configured,   \* history: workers that reported their configuration
          faults        \* history: faults so far

standVars == <<parent, reserved, shaper, nodes, unstopped, awaited, values, summary_ok, raised, qualified>>
workerVars == <<wphase, worker_ok, failed, proofs, exitcode, up, down, asked, configured>>
vars == <<standVars, workerVars, fileVars, over, faults>>

Alive(w) == exitcode[w] = "alive"

Init ==
    /\ FileInit
    /\ parent = "reserve"
    /\ reserved = {}
    /\ shaper = "none"
    /\ nodes = {}
    /\ unstopped = {}
    /\ awaited = {}
    /\ values = [w \in Members |-> "none"]
    /\ summary_ok = FALSE
    /\ raised = FALSE
    /\ qualified = FALSE
    /\ wphase = [w \in Members |-> "unborn"]
    /\ worker_ok = [w \in Members |-> FALSE]
    /\ failed = {}
    /\ proofs = {}
    /\ exitcode = [w \in Members |-> "unborn"]
    /\ up = [w \in Members |-> <<>>]
    /\ down = [w \in Members |-> <<>>]
    /\ asked = {}
    /\ configured = {}
    /\ faults = 0

Fault == faults + noise < MaxFaults /\ faults' = faults + 1
NoFault == UNCHANGED faults
Quiet == UNCHANGED <<fileVars, over>>

-----------------------------------------------------------------------------
(* GroupSdk.start: reserve every listener, start the shaper, then swap one *)
(* reservation after the other for a node.                                 *)

Reserve(n) ==
    /\ parent = "reserve"
    /\ n \notin reserved
    /\ reserved' = reserved \cup {n}
    /\ parent' = IF reserved' = Nodes THEN "shaper" ELSE parent
    /\ NoFault /\ Quiet
    /\ UNCHANGED <<shaper, nodes, unstopped, awaited, values, summary_ok, raised, qualified, workerVars>>

StartShaper ==
    /\ parent = "shaper"
    /\ shaper' = "up"
    /\ parent' = "nodes"
    /\ NoFault /\ Quiet
    /\ UNCHANGED <<reserved, nodes, unstopped, awaited, values, summary_ok, raised, qualified, workerVars>>

StartNode(n) ==
    /\ parent = "nodes"
    /\ n \in reserved
    /\ reserved' = reserved \ {n}
    /\ nodes' = nodes \cup {n}
    /\ parent' = IF reserved' = {} THEN "spawn" ELSE parent
    /\ NoFault /\ Quiet
    /\ UNCHANGED <<shaper, unstopped, awaited, values, summary_ok, raised, qualified, workerVars>>

(* The SDK refuses a node whose reservation was just closed.               *)
NodeRefused(n) ==
    /\ parent = "nodes"
    /\ n \in reserved
    /\ reserved' = reserved \ {n}
    /\ parent' = "reap"
    /\ raised' = TRUE
    /\ Fault /\ Quiet
    /\ UNCHANGED <<shaper, nodes, unstopped, awaited, values, summary_ok, qualified, workerVars>>

-----------------------------------------------------------------------------
(* The parent.                                                             *)

Await(next) ==
    /\ parent' = next
    /\ awaited' = Members
    /\ values' = [w \in Members |-> "none"]

(* The workers are spawned and asked for their identities.                 *)
Spawn ==
    /\ parent = "spawn"
    /\ Await("ready")
    /\ wphase' = [w \in Members |-> "binding"]
    /\ exitcode' = [w \in Members |-> "alive"]
    /\ NoFault /\ Quiet
    /\ UNCHANGED <<reserved, shaper, nodes, unstopped, summary_ok, raised, qualified, worker_ok, failed, proofs,
                   up, down, asked, configured>>

Waiting == parent \in {"ready", "configured", "finished"}

(* receive_participant_values: a value of one worker.                      *)
TakeValue(w) ==
    /\ Waiting
    /\ w \in awaited
    /\ up[w] # <<>>
    /\ Head(up[w]) # "cost"
    /\ values' = [values EXCEPT ![w] = Head(up[w])]
    /\ awaited' = awaited \ {w}
    /\ up' = [up EXCEPT ![w] = Tail(@)]
    /\ NoFault /\ Quiet
    /\ UNCHANGED <<parent, reserved, shaper, nodes, unstopped, summary_ok, raised, qualified, wphase, worker_ok,
                   failed, proofs, exitcode, down, asked, configured>>

(* A request for source costs is answered at once; it answers nothing the  *)
(* parent waits for.  The pipe of a worker that is gone is broken.         *)
ServeCost(w) ==
    /\ Waiting
    /\ w \in awaited
    /\ up[w] # <<>>
    /\ Head(up[w]) = "cost"
    /\ up' = [up EXCEPT ![w] = Tail(@)]
    /\ IF Alive(w)
         THEN down' = [down EXCEPT ![w] = Append(@, "cost")] /\ UNCHANGED <<parent, raised>>
         ELSE parent' = "reap" /\ raised' = TRUE /\ UNCHANGED down
    /\ NoFault /\ Quiet
    /\ UNCHANGED <<reserved, shaper, nodes, unstopped, awaited, values, summary_ok, qualified, wphase, worker_ok,
                   failed, proofs, exitcode, asked, configured>>

(* The block is left, and with it what the parent waited for.              *)
Raise ==
    /\ parent' = "reap"
    /\ summary_ok' = FALSE
    /\ raised' = TRUE
    /\ awaited' = {}
    /\ values' = [w \in Members |-> "none"]
    /\ UNCHANGED <<reserved, shaper, nodes, unstopped, qualified, workerVars>>

(* The end of the pipe of a worker that died before it answered.           *)
PipeEnds(w) ==
    /\ Waiting
    /\ w \in awaited
    /\ up[w] = <<>>
    /\ ~Alive(w)
    /\ Raise
    /\ NoFault /\ Quiet

Deadline ==
    /\ Waiting
    /\ awaited # {}
    /\ Raise
    /\ Fault /\ Quiet

(* Any other exception before the verdict: sessions, keys, a file.         *)
ParentRaises ==
    /\ parent \in {"reserve", "shaper", "nodes", "spawn", "judge"}
    /\ Raise
    /\ Fault /\ Quiet

SendAll(message) == down' = [w \in Members |-> Append(down[w], message)]

(* Mutant: the setup is answered as soon as one worker is configured.      *)
CompleteAny == \E w \in Members : w \notin awaited
Complete == awaited = {}

(* All are ready: the setup goes out; or one of them has failed.           *)
SendSetup ==
    /\ parent = "ready"
    /\ Complete
    /\ \A w \in Members : values[w] = "ready" /\ Alive(w)
    /\ SendAll("setup")
    /\ Await("configured")
    /\ NoFault /\ Quiet
    /\ UNCHANGED <<reserved, shaper, nodes, unstopped, summary_ok, raised, qualified, wphase, worker_ok,
                   failed, proofs, exitcode, up, asked, configured>>

(* All are configured: the rate is set and the common origin goes out.     *)
SendRun ==
    /\ parent = "configured"
    /\ Complete
    /\ \A w \in Members : values[w] # "finished" /\ Alive(w)
    /\ SendAll("run")
    /\ Await("finished")
    /\ NoFault /\ Quiet
    /\ UNCHANGED <<reserved, shaper, nodes, unstopped, summary_ok, raised, qualified, wphase, worker_ok,
                   failed, proofs, exitcode, up, asked, configured>>

(* A worker answered that it had failed, or its pipe is broken.            *)
SetupFails ==
    /\ parent \in {"ready", "configured"}
    /\ Complete
    /\ \E w \in Members : values[w] # parent \/ ~Alive(w)
    /\ Raise
    /\ NoFault /\ Quiet

Collect ==
    /\ parent = "finished"
    /\ Complete
    /\ parent' = "judge"
    /\ values' = [w \in Members |-> "none"]
    /\ NoFault /\ Quiet
    /\ UNCHANGED <<reserved, shaper, nodes, unstopped, awaited, summary_ok, raised, qualified, workerVars>>

(* The verdict: the workers' own, the joined voice paths, the route and    *)
(* the topology.                                                           *)
Judge(voice) ==
    /\ parent = "judge"
    /\ summary_ok' = (voice /\ \A w \in Members : worker_ok[w])
    /\ parent' = "reap"
    /\ NoFault /\ Quiet
    /\ UNCHANGED <<reserved, shaper, nodes, unstopped, awaited, values, raised, qualified, workerVars>>

-----------------------------------------------------------------------------
(* The finally block: the workers, the star, the summary.                  *)

Outliving == {w \in Members : exitcode[w] = "signalled"}

(* A worker that does not exit within five seconds is sent SIGTERM, and    *)
(* ends, or is stuck where no signal reaches it.                           *)
Terminate(w, ends) ==
    /\ parent = "reap"
    /\ Alive(w)
    /\ ~ends => Cardinality(Outliving) < MaxLeft
    /\ exitcode' = [exitcode EXCEPT ![w] = IF ends THEN "killed" ELSE "signalled"]
    /\ NoFault /\ Forget(w) /\ UNCHANGED over
    /\ UNCHANGED <<standVars, wphase, worker_ok, failed, proofs, up, down, asked, configured>>

(* The exit codes are read, that of a worker which outlives its signal by  *)
(* five seconds as None, and the pipes are closed with whatever is         *)
(* outstanding; the verdict will ask for three zeros.                      *)
Reap ==
    /\ parent = "reap"
    /\ \A w \in Members : ~Alive(w)
    /\ summary_ok' = (summary_ok /\ \A w \in Members : exitcode[w] = "clean")
    /\ parent' = "release"
    /\ NoFault /\ Quiet
    /\ up' = [w \in Members |-> <<>>]
    /\ down' = [w \in Members |-> <<>>]
    /\ asked' = {}
    /\ UNCHANGED <<reserved, shaper, nodes, unstopped, awaited, values, raised, qualified, wphase, worker_ok,
                   failed, proofs, exitcode, configured>>

(* GroupSdk.close: first the listeners that are still reserved.            *)
ReleasePorts ==
    /\ parent = "release"
    /\ reserved' = {}
    /\ parent' = IF shaper = "up" THEN "shaperstop" ELSE "nodestop"
    /\ NoFault /\ Quiet
    /\ UNCHANGED <<shaper, nodes, unstopped, awaited, values, summary_ok, raised, qualified, workerVars>>

(* Mutant: a shaper that does not stop leaves the nodes running.           *)
StopShaperInOrder(outcome) ==
    /\ parent = "shaperstop"
    /\ outcome = "hung" => Cardinality(Outliving) < MaxLeft
    /\ shaper' = outcome
    /\ parent' = IF outcome = "hung" THEN "aborted" ELSE "nodestop"
    /\ IF outcome = "failed" THEN Fault ELSE NoFault
    /\ Quiet
    /\ UNCHANGED <<reserved, nodes, unstopped, awaited, values, summary_ok, raised, qualified, workerVars>>

(* The shaper ends, perhaps with a failure noted in the run, or its stop   *)
(* raises after two seconds; the nodes are stopped in a finally.           *)
StopShaper(outcome) ==
    /\ parent = "shaperstop"
    /\ outcome = "hung" => Cardinality(Outliving) < MaxLeft
    /\ shaper' = outcome
    /\ parent' = "nodestop"
    /\ IF outcome = "failed" THEN Fault ELSE NoFault
    /\ Quiet
    /\ UNCHANGED <<reserved, nodes, unstopped, awaited, values, summary_ok, raised, qualified, workerVars>>

(* Every node is asked to stop, and those in left do not within their five *)
(* seconds.  An exception of the shaper's stop goes on from here: it       *)
(* leaves the finally block of main, and no summary is written.            *)
StopNodes(left) ==
    /\ parent = "nodestop"
    /\ Cardinality(left) + Cardinality(Outliving) + (IF shaper = "hung" THEN 1 ELSE 0) <= MaxLeft
    /\ nodes' = left
    /\ unstopped' = left
    /\ parent' = IF shaper = "hung" THEN "aborted" ELSE "summary"
    /\ NoFault /\ Quiet
    /\ UNCHANGED <<reserved, shaper, awaited, values, summary_ok, raised, qualified, workerVars>>

(* Mutant: the qualification asks for the verdict alone.                   *)
FilmedAssumed == TRUE

(* Six paths of decoded video, two of each worker.                         *)
Filmed == proofs = Members

(* The summary, and whether the run counts as full contention.             *)
Finish ==
    /\ parent = "summary"
    /\ summary_ok' = (summary_ok /\ unstopped = {} /\ shaper # "failed")
    /\ qualified' = (summary_ok' /\ ~raised /\ Filmed)
    /\ parent' = "exited"
    /\ NoFault /\ Quiet
    /\ UNCHANGED <<reserved, shaper, nodes, unstopped, awaited, values, raised, workerVars>>

-----------------------------------------------------------------------------
(* One worker.                                                             *)

Working(w, phase) == Alive(w) /\ wphase[w] = phase
Step(w, phase) == wphase' = [wphase EXCEPT ![w] = phase]
Tell(w, message) == up' = [up EXCEPT ![w] = Append(@, message)]

BindApps(w) ==
    /\ Working(w, "binding")
    /\ Tell(w, "ready")
    /\ Step(w, "bound")
    /\ NoFault /\ Quiet
    /\ UNCHANGED <<standVars, worker_ok, failed, proofs, exitcode, down, asked, configured>>

TakeSetup(w) ==
    /\ Working(w, "bound")
    /\ down[w] # <<>>
    /\ down' = [down EXCEPT ![w] = Tail(@)]
    /\ Tell(w, "configured")
    /\ configured' = configured \cup {w}
    /\ Step(w, "configured")
    /\ NoFault /\ Quiet
    /\ UNCHANGED <<standVars, worker_ok, failed, proofs, exitcode, asked>>

TakeRun(w) ==
    /\ Working(w, "configured")
    /\ down[w] # <<>>
    /\ down' = [down EXCEPT ![w] = Tail(@)]
    /\ Step(w, "running")
    /\ Arm(w)
    /\ NoFault
    /\ UNCHANGED <<over, standVars, worker_ok, failed, proofs, exitcode, up, asked, configured>>

(* One request at a time; its answer is read at a later sample.            *)
AskCost(w) ==
    /\ Working(w, "running")
    /\ ~over
    /\ w \notin asked
    /\ Cardinality(asked) < MaxRequests
    /\ asked' = asked \cup {w}
    /\ Tell(w, "cost")
    /\ NoFault /\ Quiet
    /\ UNCHANGED <<standVars, wphase, worker_ok, failed, proofs, exitcode, down, configured>>

(* Twenty seconds into the capture the file starts.                        *)
StartFile(w) ==
    /\ Working(w, "running")
    /\ ~over
    /\ StartWriter(w)
    /\ NoFault
    /\ UNCHANGED <<over, standVars, workerVars>>

(* The capture ends for all workers at the same instant.                   *)
CaptureEnds ==
    /\ ~over
    /\ \E w \in Members : wphase[w] = "running"
    /\ over' = TRUE
    /\ NoFault
    /\ UNCHANGED <<fileVars, standVars, workerVars>>

Measured(w) ==
    /\ Working(w, "running")
    /\ Freeze(w)
    /\ Step(w, "measured")
    /\ NoFault
    /\ UNCHANGED <<over, standVars, worker_ok, failed, proofs, exitcode, up, down, asked, configured>>

(* The verdict on the capture, before the proofs that follow it.           *)
ClockVerdict(w, clock) ==
    /\ Working(w, "measured")
    /\ worker_ok' = [worker_ok EXCEPT ![w] = clock /\ FilesOk(w)]
    /\ Step(w, "proving")
    /\ NoFault /\ Quiet
    /\ UNCHANGED <<standVars, failed, proofs, exitcode, up, down, asked, configured>>

(* Every source's pictures must have changed at the end of the capture.    *)
Prove(w, changed) ==
    /\ Working(w, "proving")
    /\ proofs' = proofs \cup {w}
    /\ worker_ok' = [worker_ok EXCEPT ![w] = @ /\ changed]
    /\ Step(w, "teardown")
    /\ NoFault /\ Quiet
    /\ UNCHANGED <<standVars, failed, exitcode, up, down, asked, configured>>

(* An exception anywhere before the teardown is saved, and no more.        *)
WorkerRaises(w) ==
    /\ Alive(w)
    /\ wphase[w] \in {"binding", "bound", "configured", "running", "measured", "proving"}
    /\ failed' = failed \cup {w}
    /\ Step(w, "teardown")
    /\ Fault /\ Quiet
    /\ UNCHANGED <<standVars, worker_ok, proofs, exitcode, up, down, asked, configured>>

(* The finally block reaches its end: the summary is on disk.              *)
TearDown(w, closed) ==
    /\ Working(w, "teardown")
    /\ worker_ok' = [worker_ok EXCEPT ![w] = @ /\ closed /\ WriterExits(w)]
    /\ Tell(w, "finished")
    /\ Step(w, "done")
    /\ NoFault /\ Quiet
    /\ UNCHANGED <<standVars, failed, proofs, exitcode, down, asked, configured>>

(* The interpreter of the worker comes to its end, in time or not.         *)
WorkerExits(w) ==
    /\ Working(w, "done")
    /\ exitcode' = [exitcode EXCEPT ![w] = "clean"]
    /\ NoFault /\ Forget(w) /\ UNCHANGED over
    /\ UNCHANGED <<standVars, wphase, worker_ok, failed, proofs, up, down, asked, configured>>

(* The driver does not stop, or the process dies.                          *)
WorkerDies(w) ==
    /\ Alive(w)
    /\ exitcode' = [exitcode EXCEPT ![w] = "error"]
    /\ Fault /\ Forget(w) /\ UNCHANGED over
    /\ UNCHANGED <<standVars, wphase, worker_ok, failed, proofs, up, down, asked, configured>>

Files ==
    /\ \E m \in Members : Alive(m) /\ FileStep(m)
    /\ noise' + faults <= MaxFaults
    /\ NoFault
    /\ UNCHANGED <<over, standVars, workerVars>>

Next ==
    \/ \E n \in Nodes : Reserve(n) \/ StartNode(n) \/ NodeRefused(n)
    \/ StartShaper
    \/ Spawn \/ Deadline \/ ParentRaises \/ SendSetup \/ SendRun \/ SetupFails \/ Collect
    \/ \E ok \in BOOLEAN : Judge(ok)
    \/ Reap \/ ReleasePorts \/ Finish
    \/ \E outcome \in {"stopped", "failed", "hung"} : StopShaper(outcome)
    \/ \E left \in SUBSET nodes : StopNodes(left)
    \/ CaptureEnds
    \/ \E w \in Members :
          \/ TakeValue(w) \/ ServeCost(w) \/ PipeEnds(w)
          \/ BindApps(w) \/ TakeSetup(w) \/ TakeRun(w) \/ AskCost(w) \/ StartFile(w)
          \/ Measured(w) \/ WorkerRaises(w) \/ WorkerExits(w) \/ WorkerDies(w)
          \/ \E ok \in BOOLEAN :
                \/ ClockVerdict(w, ok) \/ Prove(w, ok) \/ TearDown(w, ok) \/ Terminate(w, ok)
    \/ Files

Spec == Init /\ [][Next]_vars

-----------------------------------------------------------------------------
(* Properties.                                                             *)

(* The participants measure the same interval: nobody starts its capture   *)
(* before every participant has reported its configuration.                *)
CaptureIsTogether ==
    (\E w \in Members : wphase[w] = "running") => configured = Members

(* A stand that reports success has earned it: every worker ended by       *)
(* itself, and every block of every file had been queued by its sender and *)
(* had arrived at its receiver before the deadline, whatever the callbacks *)
(* and the teardown did later.                                             *)
GreenIsEarned ==
    (parent = "exited" /\ summary_ok) =>
        \A w \in Members : /\ exitcode[w] = "clean"
                           /\ on_time[w] = BlockIds
                           /\ writer[w] = "written"

(* The cleanup is complete and told truly.  However the run ended, and     *)
(* although a step of the cleanup failed, no port is reserved and every    *)
(* node that still runs was asked to stop; the run ends without a summary  *)
(* only if the shaper would not stop; and a green summary says that        *)
(* nothing is left: no worker, no node, no shaper.                         *)
CleanupIsComplete ==
    /\ parent \in {"exited", "aborted"} => reserved = {} /\ nodes \subseteq unstopped
    /\ parent = "aborted" => shaper = "hung"
    /\ parent = "exited" /\ summary_ok =>
          /\ \A w \in Members : ~Alive(w)
          /\ Outliving = {}
          /\ nodes = {}
          /\ shaper \in {"none", "stopped"}

(* A run that counts as full contention has no participant whose           *)
(* measurement or proofs raised, although the exception is only saved and  *)
(* the verdict on the capture may already stand.                           *)
QualifiedIsProven == qualified => failed = {} /\ ~raised
=============================================================================
