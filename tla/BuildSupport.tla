---------------------------- MODULE BuildSupport ----------------------------
(***************************************************************************)
(* What prepare.py, fetch-deps.py and builder.py share                     *)
(* (scripts/xveil_build_support.py): the command line, the plan of steps,  *)
(* what ends a run, and the part of the disk that more than one of them    *)
(* uses.  Skips are decided when the plan is made, not when the step is    *)
(* reached.  A run may be killed between any two writes.                   *)
(***************************************************************************)
EXTENDS Integers, Sequences, FiniteSets

CONSTANTS Hosts,        \* the machines considered
          Lines,        \* the command lines considered
          Abis,         \* the ABIs of a release APK
          MainAbi,      \* arm64-v8a, the ABI that fetch_engine stages
          MaxRuns       \* bound on the runs on one machine

ASSUME SupportAssumption == MainAbi \in Abis /\ MaxRuns \in Nat

VARIABLES host,         \* this machine: system, architecture, account, ...
          job,          \* the command line of the current or last run
          todo,         \* steps of the plan still to do
          stage,        \* how far the current step has come
          exit,         \* "idle", "running", "done", "aborted" or "killed"
          runs,         \* number of runs so far
          tools,        \* what is on PATH
          home,         \* what is installed but not on PATH yet
          submodules,   \* veil, hv: "empty", "other" or "pinned", and the time
                        \* of the last change of its sources
          engine,       \* staged call engines
          whisper,      \* the whisper.cpp checkout
          key           \* release key: keystore, password file, key.properties

run == <<host, job, todo, stage, exit, runs>>
disk == <<tools, home, submodules, engine, whisper, key>>

Targets == {"android", "linux", "windows", "macos", "ios"}

(* Which host can build which target.                                      *)
Builds(os) ==
    [Darwin |-> {"android", "macos", "ios"},
     Linux |-> {"android", "linux"},
     Windows |-> {"android", "windows"}][os]

DefaultTarget(os) == [Darwin |-> "macos", Linux |-> "linux", Windows |-> "windows"][os]

(* The target of a command line.                                           *)
Target(line) == IF line.target = "" THEN DefaultTarget(host.os) ELSE line.target
target == Target(job)

(* Where the parts of a build lie: one place per ABI, or per profile.      *)
Profile(release) == IF release THEN "release" ELSE "debug"
Out(t, release) ==
    IF t = "android" THEN {<<t, abi>> : abi \in Abis}
    ELSE IF t = "ios" THEN {<<t, "release">>}
    ELSE {<<t, Profile(release)>>}
Slots == UNION {Out(t, release) : t \in Targets, release \in BOOLEAN}

(* The staged call engine that goes with an output.                        *)
EngineSlots == {<<"android", abi>> : abi \in Abis} \cup {<<t, "any">> : t \in Targets \ {"android"}}
EngineOf(s) == IF s[1] = "android" THEN s ELSE <<s[1], "any">>

(* Of an engine that is cut short, a loader misses a part ("torn") or only *)
(* its section headers are gone ("clipped").                               *)
Engines == {"absent", "stale", "good", "clipped", "torn"}

-----------------------------------------------------------------------------
(* Plans.                                                                  *)

Step(name) == [name |-> name, optional |-> FALSE, skip |-> FALSE]
Optional(step) == [step EXCEPT !.optional = TRUE]
SkipIf(step, satisfied) == [step EXCEPT !.skip = satisfied]
If(condition, steps) == IF condition THEN steps ELSE <<>>

(* resolve_target and the option loop of main.                             *)
Refused(line) ==
    \/ line.unknown
    \/ Target(line) \notin Targets
    \/ ~line.dry /\ Target(line) \notin Builds(host.os)

(* A new process: it plans at once, and a dry run does nothing more.       *)
StartRun(line, plan, refused) ==
    /\ exit # "running" /\ runs < MaxRuns
    /\ runs' = runs + 1
    /\ job' = line
    /\ stage' = ""
    /\ IF Refused(line) \/ refused
         THEN exit' = "aborted" /\ todo' = <<>>
         ELSE IF line.dry
           THEN exit' = "done" /\ todo' = <<>>
           ELSE exit' = "running" /\ todo' = plan
    /\ UNCHANGED <<host, disk>>

At(name) == exit = "running" /\ Head(todo).name = name /\ ~Head(todo).skip /\ stage = ""
Within(name, s) == exit = "running" /\ Head(todo).name = name /\ stage = s

Advance ==
    /\ todo' = Tail(todo)
    /\ stage' = ""
    /\ exit' = IF Tail(todo) = <<>> THEN "done" ELSE exit
    /\ UNCHANGED <<host, job, runs>>

Stop ==
    /\ todo' = <<>> /\ stage' = "" /\ exit' = "aborted"
    /\ UNCHANGED <<host, job, runs>>

(* run(): an exception of an optional step is noted; an Abort, which is a  *)
(* SystemExit, passes through `except Exception` even there.               *)
Succeeds == Advance
Fails == IF Head(todo).optional THEN Advance ELSE Stop
Aborts == Stop
EndsBy(outcome) == CASE outcome = "ok" -> Succeeds
                     [] outcome = "fail" -> Fails
                     [] outcome = "abort" -> Aborts

Proceeds(s) == stage' = s /\ UNCHANGED <<host, job, todo, exit, runs>>

Skip == exit = "running" /\ Head(todo).skip /\ Advance /\ UNCHANGED disk

Killed ==
    /\ exit = "running"
    /\ todo' = <<>> /\ stage' = "" /\ exit' = "killed"
    /\ UNCHANGED <<host, job, runs, disk>>

-----------------------------------------------------------------------------
(* Commands: what each needs on PATH and what it leaves there.             *)

Needs(name) ==
    CASE name \in {"rust_targets", "cargo-ndk"} -> {"rustup"}
      [] name \in {"Dart_packages", "doctor"} -> {"flutter"}
      [] name = "pod_install" -> {"pod"}
      [] name = "platform_and_NDK" -> {"java", "sdkmanager"}
      [] OTHER -> {}

Installs(name) ==
    CASE name = "JDK" -> {"java"}
      [] name = "cargo-ndk" -> {"cargo-ndk"}
      [] OTHER -> {}

Commands == {"system_packages", "optional_package", "xcode-select", "rust_targets",
             "JDK", "cargo-ndk", "platform_and_NDK", "CocoaPods", "Dart_packages",
             "pod_install", "doctor"}

(* A gem goes to a directory of the user, which is not on PATH yet.        *)
RunCommand(name, outcome) ==
    /\ At(name)
    /\ outcome = "ok" => Needs(name) \subseteq tools
    /\ tools' = IF outcome = "ok" THEN tools \cup Installs(name) ELSE tools
    /\ home' = IF outcome = "ok" /\ name = "CocoaPods" THEN home \cup {"pod"} ELSE home
    /\ EndsBy(outcome)
    /\ UNCHANGED <<submodules, engine, whisper, key>>

(* Steps that only print.                                                  *)
Notes == {"no_package_manager", "Visual_Studio", "JDK_note", "NDK_note", "reminder"}
PrintNote == (\E name \in Notes : At(name)) /\ Succeeds /\ UNCHANGED disk

-----------------------------------------------------------------------------
(* Between two runs.                                                       *)

(* A new shell finds on PATH what has been installed.                      *)
NewShell ==
    /\ exit # "running" /\ home # {}
    /\ tools' = tools \cup home /\ home' = {}
    /\ exit' = "idle"
    /\ UNCHANGED <<host, job, todo, stage, runs, submodules, engine, whisper, key>>

(* scripts/check-media-symbols.sh, which needs bash and an nm for the      *)
(* format, and cannot read a file that is cut short.                       *)
Verdict(e) == IF e \in {"clipped", "torn"} \/ ~host.bash \/ ~host.nm THEN "unchecked"
              ELSE IF e = "good" THEN "verified" ELSE "stale"
=============================================================================
