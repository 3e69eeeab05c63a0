-------------------------- MODULE GroupStandProofs --------------------------
(***************************************************************************)
(* The group stand for any number of participants, nodes, blocks and       *)
(* faults: a green summary is earned, a qualified run is proven, nothing   *)
(* is left behind, and the participants capture together.                  *)
(***************************************************************************)
EXTENDS GroupStand, TLAPS

Frozen == [queued : 0..Blocks, matches : BOOLEAN, clean : BOOLEAN]

(* The whole file of the predecessor came in time; the own one is written. *)
Good(m) == on_time[m] = BlockIds /\ writer[m] = "written"

FileTypes ==
    /\ over \in BOOLEAN
    /\ writer \in [Members -> {"none", "writing", "written", "broken", "stuck"}]
    /\ handed \in [Members -> 0..Blocks] /\ queued \in [Members -> 0..Blocks]
    /\ received \in [Members -> SUBSET BlockIds] /\ on_time \in [Members -> SUBSET BlockIds]
    /\ wire \subseteq Members \X BlockIds
    /\ inside \subseteq Members \X BlockIds \X BOOLEAN
    /\ frozen \in [Members -> Frozen \cup {Unfrozen}]

FileInv ==
    /\ FileTypes
    /\ \A m \in Members :
          /\ received[m] \subseteq on_time[m]
          /\ \A b \in BlockIds : <<m, b, FALSE>> \in inside => b \in on_time[m]
          /\ writer[m] = "none" => queued[m] = 0
          /\ queued[m] = Blocks => writer[m] = "written"
          /\ (frozen[m] # Unfrozen /\ frozen[m].queued = Blocks /\ frozen[m].matches) => Good(m)

GoodStays == \A m \in Members : Good(m) => Good(m)'

-----------------------------------------------------------------------------
(* The files.                                                              *)

LEMMA FileInitInv == FileInit => FileInv
<1> SUFFICES ASSUME FileInit PROVE FileInv
  OBVIOUS
<1>1. FileTypes
  <2>1. /\ handed \in [Members -> 0..Blocks] /\ queued \in [Members -> 0..Blocks]
        /\ wire \subseteq Members \X BlockIds /\ inside \subseteq Members \X BlockIds \X BOOLEAN
    BY FileAssumption DEF FileInit
  <2>2. /\ writer \in [Members -> {"none", "writing", "written", "broken", "stuck"}]
        /\ received \in [Members -> SUBSET BlockIds] /\ on_time \in [Members -> SUBSET BlockIds]
    BY DEF FileInit
  <2>3. over \in BOOLEAN /\ frozen \in [Members -> Frozen \cup {Unfrozen}]
    BY DEF FileInit
  <2>. QED  BY <2>1, <2>2, <2>3 DEF FileTypes
<1>. QED  BY <1>1, FileAssumption DEF FileInit, FileInv

(* The writer's side.                                                      *)
LEMMA WriterInv ==
    ASSUME FileInv, NEW m \in Members, UNCHANGED over,
           HandOver(m) \/ CountQueued(m) \/ WriterFails(m) \/ StartWriter(m)
    PROVE  FileInv' /\ GoodStays
<1> USE DEF FileInv
<1>0. /\ FileTypes /\ Blocks \in Nat \ {0} /\ After[m] \in Members
      /\ handed[m] \in 0..Blocks /\ queued[m] \in 0..Blocks
  BY FileAssumption DEF FileTypes
<1>1. UNCHANGED <<over, inside, received, on_time, frozen>>
  BY DEF HandOver, CountQueued, WriterFails, StartWriter
<1>2. CASE HandOver(m)
  <2>1. /\ handed' = [handed EXCEPT ![m] = handed[m] + 1] /\ handed[m] + 1 \in BlockIds
        /\ wire' = wire \cup {<<After[m], handed[m] + 1>>} /\ UNCHANGED <<writer, queued>>
    BY <1>0, <1>2 DEF HandOver, Bump, BlockIds
  <2>2. FileTypes'
    BY <1>0, <1>1, <2>1 DEF FileTypes, BlockIds
  <2>. QED  BY <1>1, <2>1, <2>2 DEF Good, GoodStays
<1>3. CASE CountQueued(m)
  <2>1. /\ queued' = [queued EXCEPT ![m] = queued[m] + 1] /\ queued[m] + 1 \in 0..Blocks
        /\ writer[m] = "writing" /\ UNCHANGED <<handed, wire>>
        /\ writer' = [writer EXCEPT ![m] = IF queued[m] + 1 = Blocks THEN "written" ELSE "writing"]
    BY <1>0, <1>3 DEF CountQueued, Bump, FileTypes
  <2>2. FileTypes'
    BY <1>0, <1>1, <2>1 DEF FileTypes
  <2>3. \A n \in Members : n # m => writer'[n] = writer[n] /\ queued'[n] = queued[n]
    BY <1>0, <2>1 DEF FileTypes
  <2>4. /\ writer'[m] # "none" /\ queued'[m] = queued[m] + 1
        /\ queued'[m] = Blocks => writer'[m] = "written"
    BY <1>0, <2>1 DEF FileTypes
  <2>5. GoodStays
    BY <1>1, <2>1, <2>3 DEF Good, GoodStays
  <2>. QED  BY <1>1, <2>2, <2>3, <2>4, <2>5 DEF GoodStays, Good
<1>4. CASE WriterFails(m) \/ StartWriter(m)
  <2>1. /\ writer[m] \in {"writing", "none"} /\ UNCHANGED <<handed, queued, wire>>
        /\ \E how \in {"broken", "stuck", "writing"} : writer' = [writer EXCEPT ![m] = how]
    BY <1>4 DEF WriterFails, StartWriter
  <2>2. FileTypes'
    BY <1>0, <1>1, <2>1 DEF FileTypes
  <2>3. \A n \in Members : n # m => writer'[n] = writer[n]
    BY <2>1
  <2>4. writer'[m] # "none" /\ writer[m] # "written"
    BY <1>0, <2>1 DEF FileTypes
  <2>. QED  BY <1>1, <2>1, <2>2, <2>3, <2>4 DEF Good, GoodStays
<1>. QED  BY <1>2, <1>3, <1>4

(* The network and the callbacks.                                          *)
LEMMA CallbackInv ==
    ASSUME FileInv, NEW m \in Members, NEW b \in BlockIds, NEW overdue \in BOOLEAN, UNCHANGED over,
           \/ Arrive(m, b) \/ ArriveTwice(m, b) \/ AsyncFailure(m, b)
           \/ Forged(m) \/ Accept(m, b, overdue)
    PROVE  FileInv' /\ GoodStays
<1> USE DEF FileInv
<1>0. FileTypes /\ on_time[m] \subseteq BlockIds /\ received[m] \subseteq BlockIds
  BY DEF FileTypes
<1>1. UNCHANGED <<over, writer, handed, queued, frozen>> /\ wire' \subseteq wire
  BY DEF Arrive, ArriveTwice, AsyncFailure, Forged, Accept
<1>2. CASE Arrive(m, b) \/ ArriveTwice(m, b)
  <2>1. /\ received' = received /\ inside' = inside \cup {<<m, b, over>>}
        /\ on_time' = IF over THEN on_time ELSE [on_time EXCEPT ![m] = on_time[m] \cup {b}]
    BY <1>2 DEF Arrive, ArriveTwice
  <2>2. FileTypes'
    BY <1>0, <1>1, <2>1 DEF FileTypes
  <2>3. \A n \in Members : on_time[n] \subseteq on_time'[n] /\ on_time'[n] \subseteq BlockIds
    BY <1>0, <2>1 DEF FileTypes
  <2>4. \A n \in Members, c \in BlockIds : <<n, c, FALSE>> \in inside' => c \in on_time'[n]
    BY <1>0, <2>1, <2>3 DEF FileTypes
  <2>5. GoodStays
    BY <1>1, <2>3 DEF Good, GoodStays
  <2>. QED  BY <1>1, <2>1, <2>2, <2>3, <2>4, <2>5 DEF GoodStays
<1>3. CASE AsyncFailure(m, b) \/ Forged(m)
  <2>1. UNCHANGED <<inside, received, on_time>>
    BY <1>3 DEF AsyncFailure, Forged
  <2>2. FileTypes'
    BY <1>0, <1>1, <2>1 DEF FileTypes
  <2>. QED  BY <1>1, <2>1, <2>2 DEF Good, GoodStays
<1>4. CASE Accept(m, b, overdue)
  <2>1. /\ on_time' = on_time /\ inside' \subseteq inside /\ <<m, b, overdue>> \in inside
        /\ \/ received' = received
           \/ overdue = FALSE /\ received' = [received EXCEPT ![m] = received[m] \cup {b}]
    BY <1>4 DEF Accept
  <2>2. FileTypes'
    BY <1>0, <1>1, <2>1 DEF FileTypes
  <2>3. overdue = FALSE => b \in on_time[m]
    BY <2>1
  <2>4. ASSUME NEW n \in Members PROVE received'[n] \subseteq on_time[n]
    <3>1. received'[n] = received[n] \/ (n = m /\ overdue = FALSE /\ received'[n] = received[n] \cup {b})
      BY <1>0, <2>1 DEF FileTypes
    <3>. QED  BY <2>3, <3>1
  <2>. QED  BY <1>1, <2>1, <2>2, <2>4 DEF Good, GoodStays
<1>. QED  BY <1>2, <1>3, <1>4

LEMMA FileStepInv ==
    ASSUME FileInv, NEW m \in Members, UNCHANGED over, FileStep(m) \/ StartWriter(m) \/ Arm(m)
    PROVE  FileInv' /\ GoodStays
<1>1. CASE Arm(m)
  BY <1>1 DEF Arm, FileInv, FileTypes, Good, GoodStays
<1>2. TRUE \in BOOLEAN /\ 1 \in BlockIds
  BY FileAssumption DEF BlockIds
<1>. QED  BY <1>1, <1>2, WriterInv, CallbackInv DEF FileStep

(* The snapshot of a complete file is taken after the file has come.       *)
LEMMA FreezeInv ==
    ASSUME FileInv, NEW m \in Members, UNCHANGED over, Freeze(m)
    PROVE  FileInv' /\ GoodStays
<1> USE DEF FileInv
<1>1. /\ frozen' = [frozen EXCEPT ![m] = Snapshot(m)]
      /\ UNCHANGED <<over, writer, handed, queued, wire, inside, received, on_time>>
  BY DEF Freeze
<1>2. Snapshot(m) \in Frozen
  BY DEF Snapshot, Frozen, FileTypes
<1>3. FileTypes'
  BY <1>1, <1>2 DEF FileTypes
<1>4. Snapshot(m).queued = queued[m] /\ (Snapshot(m).matches <=> received[m] = BlockIds)
  BY DEF Snapshot
<1>5. Snapshot(m).queued = Blocks /\ Snapshot(m).matches => Good(m)
  BY <1>4 DEF Good, FileTypes
<1>6. \A n \in Members : Good(n)' <=> Good(n)
  BY <1>1 DEF Good
<1>7. \A n \in Members : frozen'[n] = IF n = m THEN Snapshot(m) ELSE frozen[n]
  BY <1>1 DEF FileTypes
<1>. QED  BY <1>1, <1>3, <1>5, <1>6, <1>7 DEF GoodStays

(* What a process that ends takes with it is no evidence.                  *)
LEMMA ForgetInv ==
    ASSUME FileInv, NEW m \in Members, UNCHANGED over, Forget(m)
    PROVE  FileInv' /\ GoodStays
<1> USE DEF FileInv
<1>1. /\ inside' \subseteq inside /\ received' = [received EXCEPT ![m] = {}]
      /\ UNCHANGED <<over, writer, handed, queued, wire, on_time, frozen>>
  BY DEF Forget
<1>2. FileTypes'
  BY <1>1 DEF FileTypes
<1>3. \A n \in Members : received'[n] \subseteq received[n]
  BY <1>1 DEF FileTypes
<1>. QED  BY <1>1, <1>2, <1>3 DEF Good, GoodStays

-----------------------------------------------------------------------------
(* A green summary.                                                        *)

(* The parent has read the exit codes.                                     *)
Past == {"release", "shaperstop", "nodestop", "summary", "aborted", "exited"}

GreenInv ==
    /\ FileInv
    /\ worker_ok \in [Members -> BOOLEAN]
    /\ \A w \in Members : worker_ok[w] => Good(w)
    /\ summary_ok => \A w \in Members : Good(w)
    /\ summary_ok /\ parent \in Past => \A w \in Members : exitcode[w] = "clean"

(* A step of the files, of the clock or of nobody keeps every good file.   *)
LEMMA FilesStay ==
    ASSUME FileInv, Next
    PROVE  FileInv' /\ GoodStays
<1>1. CASE Files \/ \E w \in Members : StartFile(w) \/ TakeRun(w)
  <2>1. \E m \in Members : UNCHANGED over /\ (FileStep(m) \/ StartWriter(m) \/ Arm(m))
    BY <1>1 DEF Files, StartFile, TakeRun
  <2>. QED  BY <2>1, FileStepInv
<1>2. CASE \E w \in Members : Measured(w)
  BY <1>2, FreezeInv DEF Measured
<1>3. CASE CaptureEnds
  BY <1>3 DEF CaptureEnds, FileInv, FileTypes, fileVars, Good, GoodStays
<1>4. CASE Quiet
  BY <1>4 DEF Quiet, FileInv, FileTypes, fileVars, Good, GoodStays
<1>5. CASE \E w \in Members : Forget(w) /\ UNCHANGED over
  BY <1>5, ForgetInv
<1>6. Next => \/ Quiet \/ CaptureEnds \/ Files
              \/ \E w \in Members :
                    StartFile(w) \/ TakeRun(w) \/ Measured(w) \/ (Forget(w) /\ UNCHANGED over)
  BY DEF Next, Reserve, StartShaper, StartNode, NodeRefused, Spawn, TakeValue, ServeCost, PipeEnds,
         Deadline, ParentRaises, SendSetup, SendRun, SetupFails, Collect, Judge, Terminate, Reap, ReleasePorts, StopShaper, StopNodes, WorkerExits,
         Finish, BindApps, TakeSetup, AskCost, ClockVerdict, Prove, WorkerRaises, TearDown, WorkerDies
<1>. QED  BY <1>1, <1>2, <1>3, <1>4, <1>5, <1>6

(* GroupSdk.close, as far as it gets.                                      *)
Closes ==
    \/ ReleasePorts
    \/ \E outcome \in {"stopped", "failed", "hung"} : StopShaper(outcome)
    \/ \E left \in SUBSET nodes : StopNodes(left)

(* The steps that leave the verdicts and the end of the run alone.         *)
LEMMA GreenStep ==
    ASSUME GreenInv, Next
    PROVE  GreenInv'
<1> USE DEF GreenInv
<1>1. FileInv' /\ GoodStays
  BY FilesStay
<1>2. worker_ok' \in [Members -> BOOLEAN] /\ \A w \in Members : worker_ok'[w] => Good(w)'
  <2>1. CASE UNCHANGED worker_ok
    BY <1>1, <2>1 DEF GoodStays
  <2>2. ASSUME NEW w \in Members, NEW ok \in BOOLEAN, ClockVerdict(w, ok)
        PROVE  worker_ok' \in [Members -> BOOLEAN] /\ \A m \in Members : worker_ok'[m] => Good(m)'
    <3>1. /\ worker_ok' = [worker_ok EXCEPT ![w] = ok /\ FilesOk(w)]
      BY <2>2 DEF ClockVerdict
    <3>2. FilesOk(w) => Good(w)
      <4>1. Unfrozen.queued # Blocks
        BY FileAssumption DEF Unfrozen
      <4>. QED  BY <4>1 DEF FilesOk, FileInv
    <3>3. FilesOk(w) \in BOOLEAN
      BY DEF FilesOk
    <3>. QED  BY <1>1, <3>1, <3>2, <3>3 DEF GoodStays
  <2>3. ASSUME NEW w \in Members, NEW ok \in BOOLEAN, Prove(w, ok) \/ TearDown(w, ok)
        PROVE  worker_ok' \in [Members -> BOOLEAN] /\ \A m \in Members : worker_ok'[m] => Good(m)'
    <3>1. \E rest \in BOOLEAN : worker_ok' = [worker_ok EXCEPT ![w] = worker_ok[w] /\ rest]
      BY <2>3 DEF Prove, TearDown, WriterExits
    <3>. QED  BY <1>1, <3>1 DEF GoodStays
  <2>4. \/ UNCHANGED worker_ok
        \/ \E w \in Members, ok \in BOOLEAN : ClockVerdict(w, ok) \/ Prove(w, ok) \/ TearDown(w, ok)
    BY DEF Next, Reserve, StartShaper, StartNode, NodeRefused, Spawn, TakeValue, ServeCost, PipeEnds,
           Deadline, ParentRaises, Raise, SendSetup, SendRun, SetupFails, Collect, Judge, Terminate,
           Reap, ReleasePorts, StopShaper, StopNodes, WorkerExits, Finish, BindApps, TakeSetup, AskCost, WorkerRaises, WorkerDies, TakeRun,
           StartFile, Measured, CaptureEnds, Files, workerVars, standVars
  <2>. QED  BY <2>1, <2>2, <2>3, <2>4
<1>3. summary_ok' => \A w \in Members : Good(w)'
  <2>1. summary_ok' => summary_ok \/ \A w \in Members : worker_ok[w]
    BY DEF Next, Reserve, StartShaper, StartNode, NodeRefused, Spawn, TakeValue, ServeCost, PipeEnds,
           Deadline, ParentRaises, Raise, SendSetup, SendRun, SetupFails, Collect, Judge, Terminate,
           Reap, ReleasePorts, StopShaper, StopNodes, WorkerExits, Finish, BindApps, TakeSetup, AskCost, ClockVerdict, Prove, WorkerRaises, TearDown,
           WorkerDies, TakeRun, StartFile, Measured, CaptureEnds, Files, standVars
  <2>. QED  BY <1>1, <2>1 DEF GoodStays
<1>4. summary_ok' /\ parent' \in Past => \A w \in Members : exitcode'[w] = "clean"
  <2>1. CASE Reap
    BY <2>1 DEF Reap
  <2>2. CASE Closes \/ Finish
    BY <2>2 DEF Closes, ReleasePorts, StopShaper, StopNodes, Finish, workerVars, Past
  <2>3. CASE ~(Reap \/ Closes \/ Finish)
    <3>1. parent' \in Past => UNCHANGED <<parent, summary_ok>>
      BY <2>3 DEF Next, Closes, Past, Reserve, StartShaper, StartNode, NodeRefused, Spawn, Await, TakeValue,
           ServeCost, PipeEnds, Deadline, ParentRaises, Raise, SendSetup, SendRun, SetupFails, Collect, Judge,
           Terminate, WorkerExits, BindApps, TakeSetup, AskCost, ClockVerdict, Prove, WorkerRaises,
           TearDown, WorkerDies, TakeRun, StartFile, Measured, CaptureEnds, Files, standVars
    <3>2. parent \in Past => UNCHANGED exitcode \/ \E w \in Members : Alive(w)
      BY <2>3 DEF Next, Closes, Past, Reserve, StartShaper, StartNode, NodeRefused, Spawn, TakeValue, ServeCost,
           PipeEnds, Deadline, ParentRaises, Raise, SendSetup, SendRun, SetupFails, Collect, Judge,
           Terminate, WorkerExits, BindApps, TakeSetup, AskCost, ClockVerdict, Prove, WorkerRaises,
           TearDown, WorkerDies, TakeRun, StartFile, Measured, CaptureEnds, Files, Working, workerVars
    <3>. QED  BY <3>1, <3>2 DEF Alive
  <2>. QED  BY <2>1, <2>2, <2>3
<1>. QED  BY <1>1, <1>2, <1>3, <1>4

(* A stand that reports success has every file complete in time and every  *)
(* worker ended by itself (GroupFileLoad, worker_main, main).              *)
THEOREM GreenSummary == Spec => []GreenIsEarned
<1>1. Init => GreenInv
  BY FileInitInv DEF Init, GreenInv
<1>2. GreenInv /\ [Next]_vars => GreenInv'
  <2>1. CASE UNCHANGED vars
    BY <2>1 DEF vars, standVars, workerVars, fileVars, GreenInv, FileInv, FileTypes, Good
  <2>. QED  BY <2>1, GreenStep
<1>3. GreenInv => GreenIsEarned
  BY DEF GreenInv, GreenIsEarned, Good, Past
<1>. QED  BY <1>1, <1>2, <1>3, PTL DEF Spec

-----------------------------------------------------------------------------
(* What is left, and what a qualified run has proven.                      *)

Early == {"reserve", "shaper", "nodes", "spawn"}
Nobody == \A w \in Members : ~Alive(w)

ShaperStates == {"none", "up", "stopped", "failed", "hung"}

EndInv ==
    /\ DOMAIN wphase = Members /\ DOMAIN exitcode = Members /\ shaper \in ShaperStates
    /\ parent \in Early => proofs \cup failed = {} /\ Nobody
    /\ parent \in Past => Nobody /\ (summary_ok => \A w \in Members : exitcode[w] = "clean")
    /\ parent \in Past \ {"release"} => reserved = {}
    /\ parent \in Past \ {"release", "shaperstop"} => shaper # "up"
    /\ parent \in {"summary", "aborted", "exited"} =>
          nodes \subseteq unstopped /\ (shaper = "hung" <=> parent = "aborted")
    /\ parent = "exited" /\ summary_ok => unstopped = {} /\ shaper # "failed"
    /\ failed \subseteq Members /\ proofs \cap failed = {}
    /\ \A w \in proofs \cup failed : wphase[w] \in {"teardown", "done"}
    /\ qualified => parent = "exited" /\ proofs = Members /\ ~raised

ParentWorks ==
    \/ \E n \in Nodes : Reserve(n) \/ StartNode(n) \/ NodeRefused(n)
    \/ StartShaper \/ Deadline \/ ParentRaises \/ SendSetup \/ SendRun \/ SetupFails \/ Collect
    \/ \E ok \in BOOLEAN : Judge(ok)
    \/ \E w \in Members : TakeValue(w) \/ ServeCost(w) \/ PipeEnds(w)

(* What the parent does before its summary touches no worker's progress.   *)
LEMMA ParentFacts ==
    ASSUME ParentWorks
    PROVE  /\ UNCHANGED <<wphase, exitcode, proofs, failed, qualified>>
           /\ parent \notin Past /\ parent' \notin Past
           /\ (shaper' = shaper \/ shaper' = "up")
           /\ parent' \in Early => parent \in Early
BY DEF ParentWorks, Reserve, StartNode, NodeRefused, StartShaper, Deadline, ParentRaises, Raise, SendSetup,
       SendRun, Await, SetupFails, Collect, Judge, TakeValue, ServeCost, PipeEnds, Waiting, Early, Past,
       workerVars

(* A step of one living worker, or its end.                                *)
WorkerWorks(w) ==
    \/ BindApps(w) \/ TakeSetup(w) \/ TakeRun(w) \/ AskCost(w) \/ StartFile(w)
    \/ Measured(w) \/ WorkerRaises(w) \/ WorkerExits(w) \/ WorkerDies(w)
    \/ \E ok \in BOOLEAN : ClockVerdict(w, ok) \/ Prove(w, ok) \/ TearDown(w, ok) \/ Terminate(w, ok)

LEMMA WorkerFacts ==
    ASSUME NEW w \in Members, WorkerWorks(w)
    PROVE  /\ Alive(w)
           /\ UNCHANGED standVars
           /\ \/ UNCHANGED exitcode
              \/ \E code \in {"killed", "signalled", "clean", "error"} : exitcode' = [exitcode EXCEPT ![w] = code]
           /\ \/ UNCHANGED <<wphase, proofs, failed>>
              \/ /\ wphase[w] \notin {"teardown", "done"} /\ UNCHANGED <<proofs, failed>>
                 /\ \E phase \in {"bound", "configured", "running", "measured", "proving"} :
                       wphase' = [wphase EXCEPT ![w] = phase]
              \/ /\ wphase[w] \notin {"teardown", "done"} /\ wphase' = [wphase EXCEPT ![w] = "teardown"]
                 /\ \/ proofs' = proofs \cup {w} /\ failed' = failed
                    \/ failed' = failed \cup {w} /\ proofs' = proofs
              \/ wphase' = [wphase EXCEPT ![w] = "done"] /\ UNCHANGED <<proofs, failed>>
<1>1. CASE \/ AskCost(w) \/ StartFile(w) \/ WorkerExits(w) \/ WorkerDies(w)
           \/ \E ok \in BOOLEAN : TearDown(w, ok) \/ Terminate(w, ok)
  BY <1>1 DEF Terminate, AskCost, StartFile, WorkerExits, WorkerDies, TearDown, Working, Step, standVars, workerVars
<1>2. CASE \/ BindApps(w) \/ TakeSetup(w) \/ TakeRun(w) \/ Measured(w)
           \/ \E ok \in BOOLEAN : ClockVerdict(w, ok)
  BY <1>2 DEF BindApps, TakeSetup, TakeRun, Measured, ClockVerdict, Working, Step, standVars
<1>3. CASE WorkerRaises(w) \/ \E ok \in BOOLEAN : Prove(w, ok)
  BY <1>3 DEF WorkerRaises, Prove, Working, Step, standVars
<1>. QED  BY <1>1, <1>2, <1>3 DEF WorkerWorks

LEMMA NextCases ==
    ASSUME Next
    PROVE  \/ ParentWorks \/ Spawn \/ Finish \/ Reap \/ Closes
           \/ (\E w \in Members : WorkerWorks(w))
           \/ CaptureEnds \/ Files
BY DEF Next, ParentWorks, WorkerWorks, Closes

LEMMA EndStep ==
    ASSUME EndInv, Next
    PROVE  EndInv'
<1> USE DEF EndInv
<1>1. CASE ParentWorks
  <2>1. shaper' \in ShaperStates
    BY <1>1, ParentFacts DEF ShaperStates
  <2>. QED  BY <1>1, <2>1, ParentFacts DEF Nobody, Alive, Past
<1>2. CASE Spawn
  BY <1>2 DEF Spawn, Await, Early, Past
<1>3. CASE Finish
  <2>1. /\ parent = "summary" /\ parent' = "exited"
        /\ summary_ok' = (summary_ok /\ unstopped = {} /\ shaper # "failed")
        /\ qualified' => ~raised /\ proofs = Members
        /\ UNCHANGED <<reserved, shaper, nodes, unstopped, raised, workerVars>>
    BY <1>3 DEF Finish, Filmed
  <2>. QED  BY <2>1 DEF Early, Past, Nobody, Alive, workerVars
<1>4. CASE Reap
  BY <1>4 DEF Reap, Early, Past, Nobody, Alive
<1>5. CASE Closes
  <2>1. CASE ReleasePorts
    BY <2>1 DEF ReleasePorts, Early, Past, Nobody, Alive, workerVars
  <2>2. ASSUME NEW outcome \in {"stopped", "failed", "hung"}, StopShaper(outcome) PROVE EndInv'
    BY <2>2 DEF StopShaper, Early, Past, Nobody, Alive, workerVars, ShaperStates
  <2>3. ASSUME NEW left \in SUBSET nodes, StopNodes(left) PROVE EndInv'
    BY <2>3 DEF StopNodes, Early, Past, Nobody, Alive, workerVars
  <2>. QED  BY <1>5, <2>1, <2>2, <2>3 DEF Closes
<1>6. ASSUME NEW w \in Members, WorkerWorks(w) PROVE EndInv'
  <2>1. parent \notin Early \cup Past /\ ~qualified /\ UNCHANGED standVars
    BY <1>6, WorkerFacts DEF Nobody, Past
  <2>2. DOMAIN exitcode' = Members
    BY <1>6, WorkerFacts
  <2>3. /\ DOMAIN wphase' = Members /\ failed' \subseteq Members /\ proofs' \cap failed' = {}
        /\ \A m \in proofs' \cup failed' : wphase'[m] \in {"teardown", "done"}
    <3>1. CASE UNCHANGED <<wphase, proofs, failed>>
      BY <3>1
    <3>2. CASE /\ wphase[w] \notin {"teardown", "done"} /\ UNCHANGED <<proofs, failed>>
               /\ \E phase \in {"bound", "configured", "running", "measured", "proving"} :
                     wphase' = [wphase EXCEPT ![w] = phase]
      BY <3>2
    <3>3. CASE /\ wphase[w] \notin {"teardown", "done"} /\ wphase' = [wphase EXCEPT ![w] = "teardown"]
               /\ \/ proofs' = proofs \cup {w} /\ failed' = failed
                  \/ failed' = failed \cup {w} /\ proofs' = proofs
      <4>1. w \notin proofs \cup failed
        BY <3>3
      <4>. QED  BY <3>3, <4>1
    <3>4. CASE wphase' = [wphase EXCEPT ![w] = "done"] /\ UNCHANGED <<proofs, failed>>
      BY <3>4
    <3>. QED  BY <1>6, <3>1, <3>2, <3>3, <3>4, WorkerFacts
  <2>. QED  BY <2>1, <2>2, <2>3 DEF standVars, Past
<1>7. CASE CaptureEnds \/ Files
  BY <1>7 DEF CaptureEnds, Files, standVars, workerVars, Nobody, Alive
<1>. QED  BY <1>1, <1>2, <1>3, <1>4, <1>5, <1>6, <1>7, NextCases

LEMMA EndInvariant == Spec => []EndInv
<1>1. Init => EndInv
  BY DEF Init, EndInv, Early, Past, Nobody, Alive, ShaperStates
<1>2. EndInv /\ [Next]_vars => EndInv'
  <2>1. CASE UNCHANGED vars
    BY <2>1 DEF vars, standVars, workerVars, EndInv, Nobody, Alive
  <2>. QED  BY <2>1, EndStep
<1>. QED  BY <1>1, <1>2, PTL DEF Spec

(* However the run ends and whichever step of the cleanup fails, no port   *)
(* stays reserved and every node was asked to stop, and a green summary    *)
(* means that nothing is left (main's finally, GroupSdk.close).            *)
THEOREM StandIsCleared == Spec => []CleanupIsComplete
<1>1. EndInv => CleanupIsComplete
  BY DEF EndInv, CleanupIsComplete, Past, Nobody, Outliving, ShaperStates
<1>. QED  BY EndInvariant, <1>1, PTL

(* A run that counts as full contention has no saved exception (main).     *)
THEOREM Qualification == Spec => []QualifiedIsProven
<1>1. EndInv => QualifiedIsProven
  BY DEF EndInv, QualifiedIsProven
<1>. QED  BY EndInvariant, <1>1, PTL

-----------------------------------------------------------------------------
(* The common start: what can be in a pipe while the parent waits.         *)

Upward == {"ready", "configured", "cost", "finished"}
Downward == {"setup", "run", "cost"}
Full == configured = Members

NoReady(w) == \A i \in 1..Len(up[w]) : up[w][i] # "ready"
UpOk(w) == \A i \in 1..Len(up[w]) :
              /\ up[w][i] = "cost" => Full
              /\ up[w][i] = "configured" => w \in configured
              /\ up[w][i] = "ready" => i = 1

Channel(w) ==
    /\ wphase[w] = "running" => Full
    /\ wphase[w] = "configured" => down[w] = <<>> \/ Full
    /\ wphase[w] \in {"unborn", "binding", "bound"} => Len(down[w]) <= 1 \/ Full
    /\ wphase[w] \in {"unborn", "binding"} => up[w] = <<>>
    /\ UpOk(w)

BeforeSpawn(w) == wphase[w] = "unborn" /\ down[w] = <<>>
WhileReady(w) ==
    /\ down[w] = <<>> /\ wphase[w] \in {"binding", "bound", "teardown", "done"}
    /\ w \notin awaited => wphase[w] # "binding" /\ NoReady(w)
WhileConfigured(w) ==
    /\ NoReady(w) /\ wphase[w] \notin {"unborn", "binding"}
    /\ w \notin awaited => \/ values[w] = "finished"
                           \/ values[w] = "configured" /\ w \in configured

PipeTypes ==
    /\ DOMAIN wphase = Members /\ DOMAIN values = Members /\ configured \subseteq Members
    /\ up \in [Members -> Seq(Upward)] /\ down \in [Members -> Seq(Downward)]

PipeInv ==
    /\ PipeTypes
    /\ parent \in Early \cup {"ready"} => configured = {}
    /\ \A w \in Members :
          /\ Channel(w)
          /\ parent \in Early => BeforeSpawn(w)
          /\ parent = "ready" => WhileReady(w)
          /\ parent = "configured" => WhileConfigured(w)

LEMMA AppendFacts ==
    ASSUME NEW S, NEW s \in Seq(S), NEW x \in S
    PROVE  /\ Append(s, x) \in Seq(S) /\ Len(Append(s, x)) = Len(s) + 1 /\ Len(s) \in Nat
           /\ \A i \in 1..Len(s) : Append(s, x)[i] = s[i]
           /\ Append(s, x)[Len(s) + 1] = x
OBVIOUS

LEMMA TailFacts ==
    ASSUME NEW S, NEW s \in Seq(S), s # <<>>
    PROVE  /\ Tail(s) \in Seq(S) /\ Len(Tail(s)) = Len(s) - 1 /\ Len(s) \in Nat /\ Len(s) >= 1
           /\ Head(s) \in S /\ Head(s) = s[1]
           /\ \A i \in 1..(Len(s) - 1) : Tail(s)[i] = s[i + 1]
OBVIOUS

(* What one more message leaves of the reader's expectations.              *)
LEMMA Told ==
    ASSUME PipeTypes, NEW w \in Members, NEW message \in Upward, UpOk(w),
           Tell(w, message), configured \subseteq configured', configured' \subseteq Members,
           message = "cost" => Full', message = "configured" => w \in configured',
           message = "ready" => up[w] = <<>>
    PROVE  /\ up' \in [Members -> Seq(Upward)]
           /\ UpOk(w)' /\ (NoReady(w) /\ message # "ready" => NoReady(w)')
           /\ \A m \in Members : m # w => up'[m] = up[m]
<1>1. up[w] \in Seq(Upward) /\ up' = [up EXCEPT ![w] = Append(up[w], message)]
  BY DEF PipeTypes, Tell
<1>2. /\ up'[w] = Append(up[w], message) /\ up' \in [Members -> Seq(Upward)]
      /\ \A m \in Members : m # w => up'[m] = up[m]
  BY <1>1, AppendFacts DEF PipeTypes
<1>3. /\ Len(up'[w]) = Len(up[w]) + 1 /\ Len(up[w]) \in Nat
      /\ \A i \in 1..Len(up[w]) : up'[w][i] = up[w][i]
      /\ up'[w][Len(up[w]) + 1] = message
  BY <1>1, <1>2, AppendFacts
<1>4. Full => Full'
  BY DEF Full, PipeTypes
<1>5. ASSUME NEW i \in 1..Len(up'[w])
      PROVE  \/ i \in 1..Len(up[w]) /\ up'[w][i] = up[w][i]
             \/ i = Len(up[w]) + 1 /\ up'[w][i] = message
  BY <1>3
<1>6. UpOk(w)'
  <2>1. message = "ready" => Len(up[w]) = 0
    BY <1>1
  <2> SUFFICES ASSUME NEW i \in 1..Len(up'[w])
               PROVE  /\ up'[w][i] = "cost" => Full'
                      /\ up'[w][i] = "configured" => w \in configured'
                      /\ up'[w][i] = "ready" => i = 1
    BY DEF UpOk
  <2>2. CASE i \in 1..Len(up[w]) /\ up'[w][i] = up[w][i]
    BY <1>4, <2>2 DEF UpOk
  <2>3. CASE i = Len(up[w]) + 1 /\ up'[w][i] = message
    BY <2>1, <2>3
  <2>. QED  BY <1>5, <2>2, <2>3
<1>7. NoReady(w) /\ message # "ready" => NoReady(w)'
  BY <1>5 DEF NoReady
<1>. QED  BY <1>2, <1>6, <1>7

(* What the reading of a message leaves.                                   *)
LEMMA Taken ==
    ASSUME PipeTypes, NEW w \in Members, UpOk(w), up[w] # <<>>, UNCHANGED configured,
           up' = [up EXCEPT ![w] = Tail(up[w])]
    PROVE  /\ up' \in [Members -> Seq(Upward)]
           /\ UpOk(w)' /\ NoReady(w)'
           /\ Head(up[w]) \in Upward /\ (Head(up[w]) = "cost" => Full)
           /\ (Head(up[w]) = "configured" => w \in configured)
           /\ (NoReady(w) => Head(up[w]) # "ready")
           /\ \A m \in Members : m # w => up'[m] = up[m]
<1>1. up[w] \in Seq(Upward)
  BY DEF PipeTypes
<1>2. /\ Tail(up[w]) \in Seq(Upward) /\ Len(Tail(up[w])) = Len(up[w]) - 1 /\ Len(up[w]) \in Nat
      /\ Len(up[w]) >= 1 /\ Head(up[w]) \in Upward /\ Head(up[w]) = up[w][1]
      /\ \A i \in 1..(Len(up[w]) - 1) : Tail(up[w])[i] = up[w][i + 1]
  BY <1>1, TailFacts
<1>3. /\ up'[w] = Tail(up[w]) /\ up' \in [Members -> Seq(Upward)]
      /\ \A m \in Members : m # w => up'[m] = up[m]
  BY <1>2 DEF PipeTypes
<1>4. ASSUME NEW i \in 1..Len(up'[w])
      PROVE  up'[w][i] = up[w][i + 1] /\ i + 1 \in 1..Len(up[w]) /\ i + 1 # 1
  BY <1>2, <1>3
<1>5. UpOk(w)' /\ NoReady(w)'
  BY <1>4 DEF UpOk, NoReady, Full
<1>6. 1 \in 1..Len(up[w])
  BY <1>2
<1>. QED  BY <1>2, <1>3, <1>5, <1>6 DEF UpOk, NoReady

(* A step that leaves the pipes alone and wakes nobody.                    *)
LEMMA PipesStay ==
    ASSUME PipeInv, UNCHANGED <<up, down, configured>>, DOMAIN wphase' = Members, DOMAIN values' = Members,
           \A w \in Members : \/ wphase'[w] = wphase[w]
                             \/ /\ wphase[w] # "unborn"
                                /\ wphase'[w] \in {"measured", "proving", "teardown", "done"}
                                /\ wphase'[w] \in {"teardown", "done"} \/ wphase[w] \in {"running", "measured"},
           parent' \in Early => parent \in Early,
           parent' \in {"ready", "configured"} => UNCHANGED <<parent, awaited, values>>
    PROVE  PipeInv'
<1> USE DEF PipeInv
<1>1. PipeTypes'
  BY DEF PipeTypes
<1>2. parent' \in Early \cup {"ready"} => configured' = {}
  OBVIOUS
<1>3. ASSUME NEW w \in Members PROVE Channel(w)'
  <2>1. UpOk(w)' /\ (Full' <=> Full)
    BY DEF Channel, UpOk, Full
  <2>. QED  BY <2>1 DEF Channel
<1>4. ASSUME NEW w \in Members, parent' \in Early PROVE BeforeSpawn(w)'
  BY <1>4 DEF BeforeSpawn
<1>5. ASSUME NEW w \in Members, parent' = "ready" PROVE WhileReady(w)'
  BY <1>5 DEF WhileReady, NoReady
<1>6. ASSUME NEW w \in Members, parent' = "configured" PROVE WhileConfigured(w)'
  BY <1>6 DEF WhileConfigured, NoReady
<1>. QED  BY <1>1, <1>2, <1>3, <1>4, <1>5, <1>6

LEMMA QuietParent ==
    ASSUME PipeInv,
           \/ \E n \in Nodes : Reserve(n) \/ StartNode(n) \/ NodeRefused(n)
           \/ StartShaper \/ Deadline \/ ParentRaises \/ SetupFails \/ Collect \/ Closes \/ Finish
           \/ \E ok \in BOOLEAN : Judge(ok)
           \/ \E w \in Members : PipeEnds(w)
    PROVE  PipeInv'
<1>1. /\ UNCHANGED <<up, down, configured, wphase>> /\ DOMAIN values' = Members
      /\ parent' \in Early => parent \in Early
      /\ parent' \notin {"ready", "configured"}
  BY DEF PipeInv, PipeTypes, Reserve, StartNode, NodeRefused, StartShaper, Deadline, ParentRaises, SetupFails,
         Raise, Collect, Finish, Judge, Closes, ReleasePorts, StopShaper, StopNodes, PipeEnds, Waiting, Early, workerVars
<1>. QED  BY <1>1, PipesStay DEF PipeInv, PipeTypes

(* The pipes are closed when the workers are gone.                         *)
LEMMA ReapPipes ==
    ASSUME PipeInv, Reap
    PROVE  PipeInv'
<1>1. /\ parent' = "release" /\ UNCHANGED <<values, wphase, configured>>
      /\ up' = [w \in Members |-> <<>>] /\ down' = [w \in Members |-> <<>>]
  BY DEF Reap
<1>2. PipeTypes'
  BY <1>1 DEF PipeInv, PipeTypes
<1>3. ASSUME NEW w \in Members PROVE Channel(w)'
  <2>1. up'[w] = <<>> /\ down'[w] = <<>> /\ UNCHANGED <<wphase, configured>> /\ Channel(w)
    BY <1>1 DEF PipeInv
  <2>. QED  BY <2>1 DEF Channel, UpOk, Full
<1>. QED  BY <1>1, <1>2, <1>3 DEF PipeInv, Early

LEMMA SpawnPipes ==
    ASSUME PipeInv, Spawn
    PROVE  PipeInv'
<1> USE DEF PipeInv
<1>1. /\ parent = "spawn" /\ parent' = "ready" /\ UNCHANGED <<up, down, configured>>
      /\ wphase' = [w \in Members |-> "binding"] /\ awaited' = Members /\ DOMAIN values' = Members
  BY DEF Spawn, Await
<1>2. PipeTypes'
  BY <1>1 DEF PipeTypes
<1>3. ASSUME NEW w \in Members PROVE Channel(w)' /\ WhileReady(w)'
  <2>1. down[w] = <<>> /\ wphase[w] = "unborn" /\ up[w] = <<>> /\ Len(down[w]) = 0
    BY <1>1 DEF BeforeSpawn, Early, Channel
  <2>2. UpOk(w)'
    BY <1>1 DEF UpOk, Channel, Full
  <2>. QED  BY <1>1, <2>1, <2>2 DEF Channel, WhileReady
<1>. QED  BY <1>1, <1>2, <1>3 DEF Early

LEMMA TakeValuePipes ==
    ASSUME PipeInv, NEW w \in Members, TakeValue(w)
    PROVE  PipeInv'
<1> USE DEF PipeInv
<1>1. /\ up[w] # <<>> /\ Head(up[w]) # "cost" /\ values' = [values EXCEPT ![w] = Head(up[w])]
      /\ awaited' = awaited \ {w} /\ up' = [up EXCEPT ![w] = Tail(up[w])]
      /\ UNCHANGED <<parent, down, configured, wphase>> /\ parent \in {"ready", "configured", "finished"}
  BY DEF TakeValue, Waiting
<1>2. /\ up' \in [Members -> Seq(Upward)] /\ UpOk(w)' /\ NoReady(w)' /\ Head(up[w]) \in Upward
      /\ (Head(up[w]) = "configured" => w \in configured) /\ (NoReady(w) => Head(up[w]) # "ready")
      /\ \A m \in Members : m # w => up'[m] = up[m]
  BY <1>1, Taken DEF Channel
<1>3. PipeTypes' /\ parent' \notin Early
  BY <1>1, <1>2 DEF PipeTypes, Early
<1>4. Full' <=> Full
  BY <1>1 DEF Full
<1>5. ASSUME NEW m \in Members, m # w
      PROVE  /\ Channel(m)' /\ (parent' = "ready" => WhileReady(m)')
             /\ (parent' = "configured" => WhileConfigured(m)')
  <2>1. up'[m] = up[m] /\ values'[m] = values[m] /\ (m \in awaited' <=> m \in awaited)
    BY <1>1, <1>2, <1>5 DEF PipeTypes
  <2>2. Channel(m)'
    BY <1>1, <1>4, <2>1 DEF Channel, UpOk
  <2>. QED  BY <1>1, <2>1, <2>2 DEF WhileReady, WhileConfigured, NoReady
<1>6. /\ Channel(w)' /\ (parent' = "ready" => WhileReady(w)')
      /\ (parent' = "configured" => WhileConfigured(w)')
  <2>1. wphase[w] \notin {"unborn", "binding"} /\ Channel(w)'
    BY <1>1, <1>2, <1>4 DEF Channel
  <2>2. values'[w] = Head(up[w]) /\ w \notin awaited'
    BY <1>1 DEF PipeTypes
  <2>. QED  BY <1>1, <1>2, <2>1, <2>2 DEF WhileReady, WhileConfigured, Upward
<1>. QED  BY <1>1, <1>3, <1>5, <1>6

LEMMA ServeCostPipes ==
    ASSUME PipeInv, NEW w \in Members, ServeCost(w)
    PROVE  PipeInv'
<1> USE DEF PipeInv
<1>1. /\ up[w] # <<>> /\ Head(up[w]) = "cost" /\ up' = [up EXCEPT ![w] = Tail(up[w])]
      /\ UNCHANGED <<configured, wphase, values, awaited>>
      /\ \/ parent' = parent /\ down' = [down EXCEPT ![w] = Append(down[w], "cost")]
         \/ parent' = "reap" /\ down' = down
      /\ parent \in {"ready", "configured", "finished"}
  BY DEF ServeCost, Waiting
<1>2. /\ up' \in [Members -> Seq(Upward)] /\ UpOk(w)' /\ NoReady(w)' /\ Full
      /\ \A m \in Members : m # w => up'[m] = up[m]
  BY <1>1, Taken DEF Channel
<1>3. /\ down' \in [Members -> Seq(Downward)] /\ \A m \in Members : m # w => down'[m] = down[m]
  <2>1. Append(down[w], "cost") \in Seq(Downward)
    BY AppendFacts DEF PipeTypes, Downward
  <2>. QED  BY <1>1, <2>1 DEF PipeTypes
<1>4. PipeTypes' /\ parent' \notin Early /\ parent' # "ready" /\ Full'
  BY <1>1, <1>2, <1>3 DEF PipeTypes, Early, Full
<1>5. ASSUME NEW m \in Members PROVE Channel(m)'
  <2>1. UpOk(m)'
    BY <1>1, <1>2, <1>4 DEF Channel, UpOk
  <2>2. wphase'[m] \in {"unborn", "binding"} => up'[m] = <<>>
    BY <1>1, <1>2 DEF Channel
  <2>. QED  BY <1>4, <2>1, <2>2 DEF Channel
<1>6. ASSUME NEW m \in Members, parent' = "configured" PROVE WhileConfigured(m)'
  BY <1>1, <1>2, <1>6 DEF WhileConfigured, NoReady
<1>. QED  BY <1>4, <1>5, <1>6

LEMMA SendPipes ==
    ASSUME PipeInv, SendSetup \/ SendRun
    PROVE  PipeInv'
<1> USE DEF PipeInv
<1>1. /\ awaited = {} /\ awaited' = Members /\ DOMAIN values' = Members
      /\ UNCHANGED <<up, configured, wphase>>
      /\ \E message \in Downward : down' = [w \in Members |-> Append(down[w], message)]
  BY DEF SendSetup, SendRun, Await, Complete, SendAll, Downward
<1>2. /\ down' \in [Members -> Seq(Downward)]
      /\ \A w \in Members : Len(down'[w]) = Len(down[w]) + 1 /\ Len(down[w]) \in Nat
  BY <1>1, AppendFacts DEF PipeTypes
<1>3. PipeTypes' /\ (Full' <=> Full) /\ \A w \in Members : UpOk(w)'
  BY <1>1, <1>2 DEF PipeTypes, Full, Channel, UpOk
<1>4. CASE SendSetup
  <2>1. parent = "ready" /\ parent' = "configured"
    BY <1>4 DEF SendSetup, Await
  <2>2. ASSUME NEW w \in Members PROVE Channel(w)' /\ WhileConfigured(w)'
    <3>1. down[w] = <<>> /\ wphase[w] \in {"bound", "teardown", "done"} /\ NoReady(w)
      BY <1>1, <2>1 DEF WhileReady
    <3>2. Len(down'[w]) <= 1
      BY <1>2, <3>1
    <3>3. NoReady(w)'
      BY <1>1, <3>1 DEF NoReady
    <3>. QED  BY <1>1, <1>3, <3>1, <3>2, <3>3 DEF Channel, WhileConfigured
  <2>. QED  BY <1>3, <2>1, <2>2 DEF Early
<1>5. CASE SendRun
  <2>1. parent = "configured" /\ parent' = "finished" /\ \A w \in Members : values[w] # "finished"
    BY <1>5 DEF SendRun, Await
  <2>2. Full
    BY <1>1, <2>1 DEF WhileConfigured, Full, PipeTypes
  <2>. QED  BY <1>1, <1>3, <2>1, <2>2 DEF Early, Channel
<1>. QED  BY <1>4, <1>5

LEMMA QuietWorker ==
    ASSUME PipeInv, NEW w \in Members,
           \/ StartFile(w) \/ WorkerExits(w) \/ WorkerDies(w) \/ Measured(w) \/ WorkerRaises(w)
           \/ \E ok \in BOOLEAN : Terminate(w, ok) \/ ClockVerdict(w, ok) \/ Prove(w, ok)
    PROVE  PipeInv'
<1>1. CASE StartFile(w) \/ WorkerExits(w) \/ WorkerDies(w) \/ \E ok \in BOOLEAN : Terminate(w, ok)
  <2>1. UNCHANGED <<standVars, up, down, configured, wphase>>
    BY <1>1 DEF Terminate, StartFile, WorkerExits, WorkerDies, workerVars
  <2>. QED  BY <2>1, PipesStay DEF PipeInv, PipeTypes, standVars
<1>2. CASE Measured(w) \/ WorkerRaises(w) \/ \E ok \in BOOLEAN : ClockVerdict(w, ok) \/ Prove(w, ok)
  <2>1. /\ UNCHANGED <<standVars, up, down, configured>> /\ wphase[w] # "unborn"
        /\ \E phase \in {"measured", "proving", "teardown"} :
              /\ wphase' = [wphase EXCEPT ![w] = phase]
              /\ phase = "teardown" \/ wphase[w] \in {"running", "measured"}
    BY <1>2 DEF Measured, WorkerRaises, ClockVerdict, Prove, Working, Step
  <2>2. /\ UNCHANGED <<up, down, configured, parent, awaited, values>> /\ DOMAIN wphase' = Members
        /\ DOMAIN values' = Members
    BY <2>1 DEF PipeInv, PipeTypes, standVars
  <2>3. \A m \in Members : \/ wphase'[m] = wphase[m]
                           \/ /\ wphase[m] # "unborn"
                              /\ wphase'[m] \in {"measured", "proving", "teardown"}
                              /\ wphase'[m] = "teardown" \/ wphase[m] \in {"running", "measured"}
    BY <2>1 DEF PipeInv, PipeTypes
  <2>. QED  BY <2>2, <2>3, PipesStay
<1>. QED  BY <1>1, <1>2

(* A worker that tells the parent something, or reads what it was told.    *)
LEMMA TalkingWorker ==
    ASSUME PipeInv, NEW w \in Members,
           \/ BindApps(w) \/ TakeSetup(w) \/ TakeRun(w) \/ AskCost(w)
           \/ \E ok \in BOOLEAN : TearDown(w, ok)
    PROVE  PipeInv'
<1> USE DEF PipeInv
<1>0. PipeTypes /\ Channel(w) /\ UpOk(w) /\ DOMAIN wphase = Members /\ UNCHANGED standVars
  BY DEF Channel, PipeTypes, BindApps, TakeSetup, TakeRun, AskCost, TearDown
<1>1. UNCHANGED <<parent, awaited, values>>
  BY <1>0 DEF standVars
<1>2. CASE BindApps(w)
  <2>1. /\ wphase[w] = "binding" /\ wphase' = [wphase EXCEPT ![w] = "bound"] /\ Tell(w, "ready")
        /\ UNCHANGED <<down, configured>> /\ "ready" \in Upward
    BY <1>2 DEF BindApps, Working, Step, Upward
  <2>2. up[w] = <<>> /\ configured \subseteq configured' /\ configured' \subseteq Members
    BY <1>0, <2>1 DEF Channel, PipeTypes
  <2>3. /\ up' \in [Members -> Seq(Upward)] /\ UpOk(w)' /\ \A m \in Members : m # w => up'[m] = up[m]
    BY <1>0, <2>1, <2>2, Told
  <2>4. PipeTypes' /\ (Full' <=> Full)
    BY <1>0, <1>1, <2>1, <2>3 DEF PipeTypes, Full
  <2>5. wphase'[w] = "bound" /\ \A m \in Members : m # w => wphase'[m] = wphase[m]
    BY <1>0, <2>1
  <2>6. parent \notin Early /\ parent # "configured" /\ (parent = "ready" => w \in awaited)
    BY <2>1 DEF BeforeSpawn, WhileConfigured, WhileReady
  <2>7. ASSUME NEW m \in Members PROVE Channel(m)' /\ (parent = "ready" => WhileReady(m)')
    <3>1. CASE m = w
      BY <1>0, <1>1, <2>1, <2>3, <2>4, <2>5, <2>6, <3>1 DEF Channel, WhileReady
    <3>2. CASE m # w
      <4>1. /\ wphase'[m] = wphase[m] /\ up'[m] = up[m] /\ down' = down /\ configured' = configured
            /\ (Full' <=> Full) /\ Channel(m)
        BY <2>1, <2>3, <2>4, <2>5, <3>2
      <4>2. UpOk(m)'
        BY <4>1 DEF Channel, UpOk
      <4>3. Channel(m)'
        BY <4>1, <4>2 DEF Channel
      <4>. QED  BY <1>1, <3>2, <4>1, <4>3 DEF WhileReady, NoReady
    <3>. QED  BY <3>1, <3>2
  <2>. QED  BY <1>1, <2>1, <2>4, <2>6, <2>7
<1>3. CASE TakeSetup(w)
  <2>1. /\ wphase[w] = "bound" /\ wphase' = [wphase EXCEPT ![w] = "configured"] /\ Tell(w, "configured")
        /\ down[w] # <<>> /\ down' = [down EXCEPT ![w] = Tail(down[w])]
        /\ configured' = configured \cup {w} /\ "configured" \in Upward
    BY <1>3 DEF TakeSetup, Working, Step, Upward
  <2>2. configured \subseteq configured' /\ configured' \subseteq Members /\ w \in configured'
    BY <1>0, <2>1 DEF PipeTypes
  <2>3. /\ up' \in [Members -> Seq(Upward)] /\ UpOk(w)' /\ (NoReady(w) => NoReady(w)')
        /\ \A m \in Members : m # w => up'[m] = up[m]
    BY <1>0, <2>1, <2>2, Told
  <2>4. /\ down' \in [Members -> Seq(Downward)] /\ \A m \in Members : m # w => down'[m] = down[m]
        /\ down'[w] = Tail(down[w]) /\ Tail(down[w]) \in Seq(Downward)
        /\ Len(Tail(down[w])) = Len(down[w]) - 1 /\ Len(down[w]) \in Nat /\ Len(down[w]) >= 1
    BY <1>0, <2>1, TailFacts DEF PipeTypes
  <2>5. PipeTypes' /\ (Full => Full')
    BY <1>0, <1>1, <2>1, <2>2, <2>3, <2>4 DEF PipeTypes, Full
  <2>6. wphase'[w] = "configured" /\ \A m \in Members : m # w => wphase'[m] = wphase[m]
    BY <1>0, <2>1
  <2>7. parent \notin Early /\ parent # "ready"
    BY <2>1 DEF BeforeSpawn, WhileReady
  <2>8. down'[w] = <<>> \/ Full'
    BY <1>0, <2>1, <2>4, <2>5 DEF Channel
  <2>9. ASSUME NEW m \in Members PROVE Channel(m)' /\ (parent = "configured" => WhileConfigured(m)')
    <3>1. CASE m = w
      BY <1>1, <2>2, <2>3, <2>6, <2>8, <3>1 DEF Channel, WhileConfigured
    <3>2. CASE m # w
      <4>0. Channel(m) /\ UpOk(m) /\ up'[m] = up[m] /\ down'[m] = down[m] /\ wphase'[m] = wphase[m]
        BY <2>3, <2>4, <2>6, <3>2 DEF Channel
      <4>1. Channel(m)'
        <5>1. UpOk(m)'
          BY <2>2, <2>5, <4>0 DEF UpOk
        <5>. QED  BY <2>5, <4>0, <5>1 DEF Channel
      <4>. QED  BY <1>1, <2>2, <2>3, <2>6, <3>2, <4>1 DEF WhileConfigured, NoReady
    <3>. QED  BY <3>1, <3>2
  <2>. QED  BY <1>1, <2>5, <2>7, <2>9
<1>4. CASE TakeRun(w)
  <2>1. /\ wphase[w] = "configured" /\ wphase' = [wphase EXCEPT ![w] = "running"]
        /\ down[w] # <<>> /\ down' = [down EXCEPT ![w] = Tail(down[w])]
        /\ UNCHANGED <<up, configured>>
    BY <1>4 DEF TakeRun, Working, Step
  <2>2. Full /\ Full'
    BY <1>0, <2>1 DEF Channel, Full
  <2>3. /\ down' \in [Members -> Seq(Downward)] /\ \A m \in Members : m # w => down'[m] = down[m]
    BY <1>0, <2>1, TailFacts DEF PipeTypes
  <2>4. PipeTypes' /\ parent \notin Early /\ parent # "ready"
    BY <1>0, <1>1, <2>1, <2>3 DEF PipeTypes, BeforeSpawn, WhileReady
  <2>5. \A m \in Members : wphase'[m] = IF m = w THEN "running" ELSE wphase[m]
    BY <1>0, <2>1
  <2>6. ASSUME NEW m \in Members PROVE Channel(m)' /\ (parent = "configured" => WhileConfigured(m)')
    <3>1. UpOk(m)'
      BY <2>1, <2>2 DEF Channel, UpOk
    <3>. QED  BY <1>1, <2>1, <2>2, <2>5, <3>1 DEF Channel, WhileConfigured, NoReady
  <2>. QED  BY <1>1, <2>4, <2>6
<1>5. CASE AskCost(w) \/ \E ok \in BOOLEAN : TearDown(w, ok)
  <2>0. /\ DOMAIN wphase' = Members /\ \A m \in Members : m # w => wphase'[m] = wphase[m]
        /\ \/ wphase'[w] = wphase[w]
           \/ wphase[w] = "teardown" /\ wphase'[w] = "done"
    BY <1>0, <1>5 DEF AskCost, TearDown, Working, Step
  <2>1. /\ wphase[w] \in {"running", "teardown"} /\ UNCHANGED <<down, configured>>
        /\ \E message \in {"cost", "finished"} :
              Tell(w, message) /\ (message = "cost" => wphase[w] = "running")
    BY <1>5 DEF AskCost, TearDown, Working
  <2>2. PICK message \in {"cost", "finished"} :
              Tell(w, message) /\ (message = "cost" => wphase[w] = "running")
    BY <2>1
  <2>3. (Full' <=> Full) /\ (message = "cost" => Full') /\ message \in Upward
    BY <1>0, <2>1, <2>2 DEF Channel, Full, Upward
  <2>4. /\ up' \in [Members -> Seq(Upward)] /\ UpOk(w)' /\ (NoReady(w) => NoReady(w)')
        /\ \A m \in Members : m # w => up'[m] = up[m]
    <3>1. configured \subseteq configured' /\ configured' \subseteq Members
      BY <1>0, <2>1 DEF PipeTypes
    <3>. QED  BY <1>0, <2>2, <2>3, <3>1, Told
  <2>5. PipeTypes'
    BY <1>0, <1>1, <2>0, <2>1, <2>4 DEF PipeTypes
  <2>6. ASSUME NEW m \in Members
        PROVE  Channel(m)' /\ (NoReady(m) => NoReady(m)')
    <3>1. CASE m = w
      BY <1>0, <2>0, <2>1, <2>3, <2>4, <3>1 DEF Channel
    <3>2. CASE m # w
      BY <2>0, <2>1, <2>3, <2>4, <3>2 DEF Channel, UpOk, NoReady
    <3>. QED  BY <3>1, <3>2
  <2>7. ASSUME NEW m \in Members
        PROVE  /\ parent' \in Early => BeforeSpawn(m)'
               /\ parent' = "ready" => WhileReady(m)'
               /\ parent' = "configured" => WhileConfigured(m)'
    BY <1>1, <2>0, <2>1, <2>6 DEF BeforeSpawn, WhileReady, WhileConfigured
  <2>. QED  BY <1>1, <2>1, <2>5, <2>6, <2>7
<1>. QED  BY <1>2, <1>3, <1>4, <1>5

LEMMA PipeStep ==
    ASSUME PipeInv, Next
    PROVE  PipeInv'
<1>1. CASE Files \/ CaptureEnds
  <2>1. UNCHANGED <<standVars, up, down, configured, wphase>>
    BY <1>1 DEF CaptureEnds, Files, workerVars
  <2>. QED  BY <2>1, PipesStay DEF PipeInv, PipeTypes, standVars
<1>2. CASE \E w \in Members : WorkerWorks(w)
  BY <1>2, QuietWorker, TalkingWorker DEF WorkerWorks
<1>3. CASE ParentWorks
  BY <1>3, QuietParent, TakeValuePipes, ServeCostPipes, SendPipes DEF ParentWorks
<1>4. CASE Finish \/ Closes
  BY <1>4, QuietParent
<1>6. CASE Reap
  BY <1>6, ReapPipes
<1>5. CASE Spawn
  BY <1>5, SpawnPipes
<1>. QED  BY <1>1, <1>2, <1>3, <1>4, <1>5, <1>6, NextCases

(* Nobody starts its capture before every participant has reported its     *)
(* configuration (main, worker_main): by then every value the parent has   *)
(* taken is a configuration, and no other message could stand for one.     *)
THEOREM CommonStart == Spec => []CaptureIsTogether
<1>1. Init => PipeInv
  <2> SUFFICES ASSUME Init PROVE PipeInv
    OBVIOUS
  <2>1. PipeTypes
    BY DEF Init, PipeTypes
  <2>2. ASSUME NEW w \in Members PROVE Channel(w) /\ BeforeSpawn(w)
    BY DEF Init, Channel, BeforeSpawn, UpOk
  <2>. QED  BY <2>1, <2>2 DEF Init, PipeInv
<1>2. PipeInv /\ [Next]_vars => PipeInv'
  <2>1. CASE UNCHANGED vars
    BY <2>1, PipesStay DEF vars, standVars, workerVars, PipeInv, PipeTypes
  <2>. QED  BY <2>1, PipeStep
<1>3. PipeInv => CaptureIsTogether
  BY DEF PipeInv, Channel, CaptureIsTogether, Full
<1>. QED  BY <1>1, <1>2, <1>3, PTL DEF Spec
=============================================================================
