----------------------------- MODULE Toolchain ------------------------------
(***************************************************************************)
(* One machine on which prepare.py, fetch-deps.py and builder.py are run   *)
(* again and again, each to its end or killed, while the developer edits   *)
(* the sources between two runs.                                           *)
(***************************************************************************)
EXTENDS Prepare, Builder

CONSTANTS Machines,     \* what a machine may look like before the first run
          MaxEdits      \* bound on the edits

ASSUME ToolchainAssumption == MaxEdits \in Nat

(* A machine starts without a release key, or with one whose store opens   *)
(* with the password beside it, named in key.properties or not yet.        *)
KeyStands(k) ==
    IF k.store = NoPassword THEN k.properties = NoPassword
    ELSE k.password = k.store /\ k.properties \in {NoPassword, Torn, Mistyped, k.store}

ASSUME MachinesAssumption ==
    \A m \in Machines :
        /\ m.key \in [store : Int, password : Int, properties : Int] /\ KeyStands(m.key)
        /\ m.engine \in [EngineSlots -> Engines]
        /\ DOMAIN m.submodules = Required

(* "typo" stands for every other value of XVEIL_NETWORK.                   *)
ASSUME LinesAssumption ==
    \A line \in Lines :
        line.release \in BOOLEAN /\ line.network \in {"unset", "prod", "testnet", "typo"}

VARIABLE edits

vars == <<run, disk, deps, sdk, built, edits>>

Init ==
    /\ host \in Hosts
    /\ \E m \in Machines :
         /\ tools = m.tools
         /\ submodules = m.submodules
         /\ engine = m.engine
         /\ whisper = m.whisper
         /\ key = m.key
         /\ lib = [l \in Required |-> [s \in Slots |-> m.lib[l][s]]]
         /\ stray = m.stray
    /\ job = [program |-> "none"] /\ todo = <<>> /\ stage = "" /\ exit = "idle" /\ runs = 0
    /\ home = {}
    /\ DepsInit
    /\ sdk = "none"
    /\ wrapper = {}
    /\ bundle = [s \in Slots |-> NothingIn]
    /\ marks = [define |-> "unset", signature |-> "none"]
    /\ edits = 0

(* main(): prepare.py takes a profile and ignores it, fetch-deps.py only   *)
(* fetches, builder.py wants flutter before anything else.                 *)
Start(line) ==
    /\ StartRun(line,
                CASE line.program = "prepare" -> PreparePlan(Target(line))
                  [] line.program = "fetch" -> FetchPlan
                  [] line.program = "build" -> BuildPlan(Target(line), line.release),
                line.program = "build" /\ PlanRefused(line))
    /\ outcomes' = {} /\ report' = "none"
    /\ UNCHANGED <<zip, partial, translate, sdk, built, edits>>

(* The developer changes a Rust tree.                                      *)
Edit(l) ==
    /\ exit # "running" /\ edits < MaxEdits
    /\ submodules[l].is # "empty"
    /\ submodules' = [submodules EXCEPT ![l] = [is |-> "other", time |-> @.time + 1]]
    /\ edits' = edits + 1
    /\ exit' = "idle"
    /\ UNCHANGED <<host, job, todo, stage, runs, tools, home, engine, whisper, key,
                   deps, sdk, built>>

Next ==
    \/ \E line \in Lines : Start(line)
    \/ (Skip \/ Killed \/ PrintNote \/ NewShell) /\ UNCHANGED <<deps, sdk, built, edits>>
    \/ PrepareNext /\ UNCHANGED <<built, edits>>
    \/ BuilderNext /\ UNCHANGED <<deps, sdk, edits>>
    \/ \E l \in Required : Edit(l)

Spec == Init /\ [][Next]_vars

-----------------------------------------------------------------------------
(* Properties.                                                             *)

(* What a build that ended well has just left.                             *)
Green == exit = "done" /\ job.program = "build" /\ ~job.dry

(* What a debug APK may lack: the library of an ABI, not of every ABI.     *)
LeftOut(l, s) == target = "android" /\ ~job.release /\ bundle[s][l] = NoLib

(* No artifact carries a library that is older than its sources, and none  *)
(* does without: not after a compilation that broke off half-way, was      *)
(* killed, was left out for want of a bash or was told to skip cargo       *)
(* (builder.py, line 367).                                                 *)
ShipsCurrentCode ==
    Green => \A l \in Required :
                /\ \A s \in Outputs : LeftOut(l, s) \/ bundle[s][l].time = submodules[l].time
                /\ \E s \in Outputs : ~LeftOut(l, s)

(* A release for others has a call engine in every ABI.  In an APK it is   *)
(* one that a loader can load and, where a host can read it, one that      *)
(* exports what the app calls; the APKs are signed with the key of the app *)
(* and nothing unpublished lies beside them (builder.py, line 622).        *)
ReleaseIsWhole ==
    Green /\ job.release /\ target # "macos" =>
        /\ \A s \in Outputs : bundle[s].engine # "absent"
        /\ target = "android" =>
             /\ \A s \in Outputs : /\ bundle[s].engine # "torn"
                                   /\ host.bash /\ host.nm => bundle[s].engine # "stale"
             /\ marks.signature = "release" /\ ~stray

Agreed == \A s \in Outputs : bundle[s].veil.network = DartNetwork(marks.define, job.release)

(* The compiled-in seeds and the app belong to the same network, whatever  *)
(* XVEIL_NETWORK and the profile say (builder.py, line 45).                *)
DesktopHalvesAgree == Green /\ target \in {"linux", "windows"} => Agreed

(* network_flavor.dart, line 13: the same choice in all three places, or   *)
(* it is worthless.  builder.py, line 48: one rule, four build paths.      *)
HalvesAgree == Green /\ target # "android" => Agreed

(* Once there is a keystore, the file beside it holds its password, and    *)
(* key.properties never names another of prepare.py's passwords, however   *)
(* often prepare.py is killed and run again.                               *)
KeyIsKept ==
    key.store # NoPassword =>
        /\ key.password = key.store
        /\ key.properties \in {NoPassword, Torn, Mistyped, key.store}

(* Whatever is missing and whatever GitHub answers, a fetch that is not    *)
(* killed ends in a report on all four items, and what the report has, the *)
(* machine has: an engine that no symbol check has found stale, the pinned *)
(* whisper.cpp, every checkout.                                            *)
FetchIsReported ==
    /\ exit \in {"done", "aborted"} /\ job.program = "fetch" /\ ~Refused(job) /\ ~job.dry =>
         exit = "done" /\ {o.item : o \in outcomes} = Items
    /\ report # "none" => \A o \in outcomes : o.got =>
         CASE o.item = "engine" -> engine[Staged] # "absent" /\ (host.nm => engine[Staged] # "stale")
           [] o.item = "whisper" -> whisper = "pinned"
           [] o.item = "translate" -> translate = Checkouts
           [] OTHER -> \A m \in DOMAIN submodules : submodules[m].is # "empty"

(* xveil_native_deps.py, line 659: an engine that is merely present is not *)
(* what the report should call "have".                                     *)
HadIsWhole ==
    \A o \in outcomes : o.item = "engine" /\ o.got => engine[Staged] \notin {"clipped", "torn"}

(* xveil_native_deps.py, line 1153: "Everything this host can have, it     *)
(* has." - then a release build finds the engines that builder.py wants.   *)
EverythingIsThere ==
    report = "all" /\ exit = "done" /\ target = "android" =>
        \A s \in Out("android", TRUE) : engine[s] # "absent"
=============================================================================
