------------------------------ MODULE Builder -------------------------------
(***************************************************************************)
(* builder.py: the plan of a build for each target, the gates between its  *)
(* steps, and what the shell scripts, cargo, gradle, CMake and Xcode do to *)
(* the libraries and to the artifact as far as builder.py relies on it.    *)
(***************************************************************************)
EXTENDS BuildSupport

VARIABLES lib,          \* each compiled library: the time of the sources it was
                        \* compiled from (0: none), and its network
          wrapper,      \* outputs whose whisper wrapper has been built
          bundle,       \* what each artifact holds
          marks,        \* of the last app: its network define, its signature
          stray         \* an APK of an ABI that is no longer shipped lies there

built == <<lib, wrapper, bundle, marks, stray>>

Required == {"hv", "veil"}
NoLib == [time |-> 0, network |-> "none"]
NothingIn == [hv |-> NoLib, veil |-> NoLib, engine |-> "absent", whisper |-> FALSE]

Outputs == Out(target, job.release)

(* Mutant: the Windows build is always compiled for production.            *)
SeedProduction(network, release) == "prod"

(* seed_feature and veil-network.sh: the variable, or what the profile says. *)
SeedFeature(network, release) ==
    IF network # "unset" THEN network ELSE IF release THEN "prod" ELSE "testnet"

(* The app: --dart-define if the variable is set, or the build mode.       *)
DartNetwork(define, release) ==
    IF define \in {"prod", "testnet"} THEN define ELSE IF release THEN "prod" ELSE "testnet"

(* _network_define says nothing when the variable is not set.              *)
NetworkDefine(network) == network

(* The shell scripts of a phone build take the release profile: nothing    *)
(* tells them another.                                                     *)
NativeNetwork ==
    SeedFeature(job.network, job.release \/ target \in {"ios", "android"})

(* A build refuses its command line while it plans.                        *)
PlanRefused(line) ==
    \/ "flutter" \notin tools
    \/ line.diagnostics /\ (~line.release \/ line.hook \/ line.log)
    \/ line.network = "typo" /\ ~(Target(line) = "macos" /\ ~host.apple)

-----------------------------------------------------------------------------
(* The plans.                                                              *)

Whisper == SkipIf(Optional(Step("whisper_wrapper")), FALSE)

AndroidPlan(release) ==
    <<SkipIf(Step("build-mobile"), ~host.bash),
      SkipIf(Whisper, ~host.bash)>>
    \o If(release, <<Step("media_staged")>>)
    \o <<Step("flutter"), Step("native_current")>>
    \o If(release, <<Step("in_the_APKs"), Step("signing")>>)

LinuxPlan(release) ==
    <<Step("build-native"), Step("linux_current"), Whisper, Step("flutter")>>
    \o If(release, <<Step("engine_in_the_bundle")>>)

MacosPlan ==
    <<Step("build-native"), Whisper>>
    \o (IF host.apple THEN <<Step("flutter"), Step("bundle_dylibs")>>
                      ELSE <<Step("ad-hoc_bundle")>>)
    \o <<Step("in_the_macOS_bundle")>>

IosPlan(release) ==
    <<Step("build-mobile"), Step("flutter"),
      SkipIf(IF release THEN Step("iOS_engine") ELSE Optional(Step("iOS_engine")), ~release)>>

(* The whisper DLL is staged if it was there when the plan was made.       *)
WindowsPlan(release) ==
    <<Step("cargo_hv"), Step("stage_hv"), Step("cargo_veil"), SkipIf(Whisper, ~host.bash),
      Step("flutter"), Step("stage_veil"),
      SkipIf(Optional(Step("stage_whisper")), Out("windows", release) \cap wrapper = {}),
      SkipIf(IF release THEN Step("engine_in_the_bundle")
                        ELSE Optional(Step("engine_in_the_bundle")), ~release),
      Step("reminder")>>

BuildPlan(t, release) ==
    CASE t = "android" -> AndroidPlan(release)
      [] t = "linux" -> LinuxPlan(release)
      [] t = "macos" -> MacosPlan
      [] t = "ios" -> IosPlan(release)
      [] OTHER -> WindowsPlan(release)

-----------------------------------------------------------------------------
(* Compilation.  Of several outputs some may be new when it fails.         *)

Compiled(l) == [time |-> submodules[l].time,
                network |-> IF l = "veil" THEN NativeNetwork ELSE "none"]

Populated(l) == submodules[l].is # "empty"

Compile(libs, places) ==
    \E done \in SUBSET (libs \X places) :
       /\ \A p \in done : Populated(p[1])
       /\ lib' = [l \in Required |-> [s \in Slots |->
                    IF <<l, s>> \in done THEN Compiled(l) ELSE lib[l][s]]]
       /\ EndsBy(IF done = libs \X places THEN "ok" ELSE "fail")

(* build-mobile.sh: gradle compiles only veil for Android, so the storage  *)
(* library comes from here or from nowhere.                                *)
BuildMobile ==
    /\ At("build-mobile") /\ target = "android"
    /\ Compile({"hv"}, Outputs)
    /\ UNCHANGED <<disk, wrapper, bundle, marks, stray>>

(* For iOS both libraries come from it, with the engine of a WebRTC        *)
(* checkout between them.                                                  *)
BuildMobileIos ==
    /\ At("build-mobile") /\ target = "ios"
    /\ IF host.webrtc
         THEN /\ Compile(Required, Outputs)
              /\ engine' = [engine EXCEPT ![<<"ios", "any">>] = "good"]
         ELSE Fails /\ UNCHANGED <<lib, engine>>
    /\ UNCHANGED <<tools, home, submodules, whisper, key, wrapper, bundle, marks, stray>>

(* build-native.sh, which refuses a network it does not know.              *)
BuildNative ==
    /\ At("build-native")
    /\ IF job.network = "typo" THEN Fails /\ UNCHANGED lib ELSE Compile(Required, Outputs)
    /\ UNCHANGED <<disk, wrapper, bundle, marks, stray>>

(* Windows: what cargo builds is taken to lie where _copy reads it, which  *)
(* is so as long as CARGO_TARGET_DIR is not set.                           *)
Cargo(l) ==
    /\ At(IF l = "hv" THEN "cargo_hv" ELSE "cargo_veil")
    /\ Compile({l}, Outputs)
    /\ UNCHANGED <<disk, wrapper, bundle, marks, stray>>

(* The wrapper refuses any other whisper.cpp than the pinned one.          *)
BuildWhisper ==
    /\ At("whisper_wrapper")
    /\ \/ Fails /\ UNCHANGED wrapper
       \/ whisper = "pinned" /\ wrapper' = wrapper \cup Outputs /\ Succeeds
    /\ UNCHANGED <<disk, lib, bundle, marks, stray>>

-----------------------------------------------------------------------------
(* The app.                                                                *)

Signature ==
    IF ~job.release THEN "debug"
    ELSE IF key.properties = 0 THEN (IF job.hatch THEN "debug" ELSE "refused")
    ELSE IF key.properties = key.store THEN "release" ELSE "refused"

(* CMake wants the storage library, and a release its engine; an iOS link  *)
(* wants everything.                                                       *)
Links ==
    CASE target = "android" -> Signature # "refused"
      [] target \in {"linux", "windows"} ->
           \A s \in Outputs : /\ lib["hv"][s] # NoLib
                              /\ job.release => engine[EngineOf(s)] # "absent"
      [] target = "ios" ->
           \A s \in Outputs : engine[EngineOf(s)] # "absent" /\ \A l \in Required : lib[l][s] # NoLib
      [] OTHER -> TRUE

(* What the app takes: on Windows and macOS the rest is added later.       *)
Packaged(s, new) ==
    CASE target = "windows" ->
           [bundle[s] EXCEPT !.hv = new["hv"][s], !.engine = engine[EngineOf(s)]]
      [] target = "macos" -> NothingIn
      [] OTHER -> [hv |-> new["hv"][s], veil |-> new["veil"][s],
                   engine |-> engine[EngineOf(s)], whisper |-> s \in wrapper]

Package(new) ==
    /\ lib' = new
    /\ bundle' = [s \in Slots |-> IF s \in Outputs THEN Packaged(s, new) ELSE bundle[s]]
    /\ marks' = [define |-> NetworkDefine(job.network), signature |-> Signature]
    /\ Succeeds

(* gradle runs cargo for veil unless it is told to skip it.                *)
Rebuilt ==
    IF target = "android" /\ ~job.skip_cargo
      THEN [lib EXCEPT !["veil"] = [s \in Slots |-> IF s \in Outputs THEN Compiled("veil") ELSE @[s]]]
      ELSE lib

Flutter ==
    /\ At("flutter")
    /\ \/ Fails /\ UNCHANGED <<lib, bundle, marks>>
       \/ Links /\ (target = "android" => \A l \in Required : Populated(l)) /\ Package(Rebuilt)
    /\ UNCHANGED <<disk, wrapper, stray>>

(* bundle-macos-dylibs.sh, which needs both libraries; build-macos-adhoc.sh *)
(* builds the app first, and without a network define.                     *)
Dylibs(s) == [hv |-> lib["hv"][s], veil |-> lib["veil"][s],
              engine |-> engine[EngineOf(s)], whisper |-> s \in wrapper]

BundleDylibs ==
    /\ At("bundle_dylibs") \/ At("ad-hoc_bundle")
    /\ \/ Fails /\ UNCHANGED <<bundle, marks>>
       \/ /\ \A s \in Outputs, l \in Required : lib[l][s] # NoLib
          /\ bundle' = [s \in Slots |-> IF s \in Outputs THEN Dylibs(s) ELSE bundle[s]]
          /\ marks' = IF host.apple THEN marks
                      ELSE [define |-> "unset", signature |-> "ad-hoc"]
          /\ Succeeds
    /\ UNCHANGED <<disk, lib, wrapper, stray>>

(* _copy of the Windows build: the storage DLL to where CMake finds it     *)
(* (one place in this model), the others beside the app.                   *)
StageHv ==
    /\ At("stage_hv")
    /\ \A s \in Outputs : lib["hv"][s] # NoLib
    /\ Succeeds
    /\ UNCHANGED <<disk, built>>

StageVeil ==
    /\ At("stage_veil")
    /\ bundle' = [s \in Slots |-> IF s \in Outputs THEN [bundle[s] EXCEPT !.veil = lib["veil"][s]]
                                                   ELSE bundle[s]]
    /\ Succeeds
    /\ UNCHANGED <<disk, lib, wrapper, marks, stray>>

StageWhisper ==
    /\ At("stage_whisper")
    /\ bundle' = [s \in Slots |-> IF s \in Outputs THEN [bundle[s] EXCEPT !.whisper = TRUE]
                                                   ELSE bundle[s]]
    /\ Succeeds
    /\ UNCHANGED <<disk, lib, wrapper, marks, stray>>

-----------------------------------------------------------------------------
(* The gates.                                                              *)

Gate(name, passes) ==
    /\ At(name)
    /\ IF passes THEN Succeeds ELSE Fails
    /\ UNCHANGED <<disk, built>>

(* Mutant: existence is taken for freshness.                               *)
FreshIfThere(l, s) == lib[l][s] # NoLib

(* newer_source: the library is there and nothing in the tree is newer.    *)
Fresh(l, s) == lib[l][s] # NoLib /\ lib[l][s].time = submodules[l].time

(* After gradle: of the ABIs that ship at least one is staged, and every   *)
(* one that is staged is fresh.                                            *)
StagedFor(l) == {s \in Outputs : lib[l][s] # NoLib}

CheckAndroidFresh ==
    Gate("native_current",
         \A l \in Required : StagedFor(l) # {} /\ \A s \in StagedFor(l) : Fresh(l, s))

(* target/<profile>, before the bundle copies from it.                     *)
CheckLinuxFresh ==
    Gate("linux_current", \A l \in Required, s \in Outputs : Fresh(l, s))

MediaStaged == \A s \in Outputs : engine[EngineOf(s)] # "absent"
CheckMediaStaged == Gate("media_staged", MediaStaged)

(* Mutant: an engine that is there is taken for one that is current.       *)
ExportsIfThere(e) == e # "absent"

(* The symbols of an engine: unread is not wrong.                          *)
Exports(e) == e # "absent" /\ Verdict(e) # "stale"

(* needed_libraries reads the loadable parts of a library by itself.       *)
Loadable(e) == e # "torn"

(* The APKs themselves, and nothing else beside them.                      *)
CheckApks ==
    Gate("in_the_APKs",
         /\ ~stray
         /\ \A s \in Outputs : /\ \A l \in Required : bundle[s][l] # NoLib
                               /\ Loadable(bundle[s].engine) /\ Exports(bundle[s].engine))

CheckSigning == Gate("signing", key.properties # 0)

(* Linux and Windows: is there an engine in the bundle?                    *)
CheckBundleEngine ==
    Gate("engine_in_the_bundle", \A s \in Outputs : bundle[s].engine # "absent")

(* iOS: the archive that was linked.                                       *)
CheckIosEngine == Gate("iOS_engine", \A s \in Outputs : Exports(engine[EngineOf(s)]))

CheckMacosBundle ==
    Gate("in_the_macOS_bundle", \A s \in Outputs, l \in Required : bundle[s][l] # NoLib)

BuilderNext ==
    \/ BuildMobile \/ BuildMobileIos \/ BuildNative \/ \E l \in Required : Cargo(l)
    \/ BuildWhisper \/ Flutter \/ BundleDylibs
    \/ StageHv \/ StageVeil \/ StageWhisper
    \/ CheckAndroidFresh \/ CheckLinuxFresh \/ CheckMediaStaged \/ CheckApks
    \/ CheckSigning \/ CheckBundleEngine \/ CheckIosEngine \/ CheckMacosBundle
=============================================================================
