-------------------------- MODULE ToolchainProofs ---------------------------
(***************************************************************************)
(* One machine, for any number of runs, edits and kills and any command    *)
(* lines: the release key keeps its password, a build that ends well has   *)
(* left what its sources, its network and its profile ask for, and a fetch *)
(* reports on every item what is really there.                             *)
(***************************************************************************)
EXTENDS Toolchain, SequenceTheorems, TLAPS

KeyInv ==
    /\ key \in [store : Int, password : Int, properties : Int]
    /\ KeyIsKept
    /\ key.store = NoPassword => key.properties = NoPassword
    /\ runs \in Nat /\ (exit = "running" => runs >= 1)
    /\ stage = "keytool" => key.password # NoPassword
    /\ stage \in {"properties", "adopt", "mistyped"} => key.store # NoPassword

KeyStages == {"keytool", "properties", "adopt", "mistyped"}

(* What a step that is not about the key leaves alone.                     *)
NotTheKey ==
    /\ key' = key
    /\ stage' = stage \/ stage' \notin KeyStages
    /\ \/ runs' = runs /\ (exit' = "running" => exit = "running")
       \/ runs' = runs + 1

-----------------------------------------------------------------------------
(* How a step ends: with the last of its stages, and never by a start.     *)

Ended == stage' = "" /\ runs' = runs /\ (exit' = "running" => exit = "running")

LEMMA EndFacts ==
    ASSUME TRUE
    PROVE  /\ Succeeds => Ended
           /\ Fails => Ended
           /\ Aborts => Ended
           /\ EndsBy("ok") => Ended
           /\ EndsBy("fail") => Ended
BY DEF Ended, Advance, Stop, Succeeds, Fails, Aborts, EndsBy

LEMMA OutcomeFacts ==
    ASSUME NEW item, NEW got, Outcome(item, got) \/ Degrade(item)
    PROVE  Ended
BY EndFacts DEF Outcome, Degrade

LEMMA DepsKeepKey ==
    ASSUME DepsNext
    PROVE  NotTheKey
<1> USE DEF Ended, NotTheKey, KeyStages, disk
<1>1. CASE CheckSubmodules
  BY <1>1, EndFacts DEF CheckSubmodules, Outcome, Degrade, Proceeds
<1>2. CASE EngineIsThere
  BY <1>2, EndFacts DEF EngineIsThere, Outcome, Degrade, Proceeds
<1>3. CASE EngineNowhere
  BY <1>3, EndFacts DEF EngineNowhere, Outcome, Degrade, Proceeds
<1>4. CASE AskRelease
  BY <1>4, EndFacts DEF AskRelease, Outcome, Degrade, Proceeds
<1>5. CASE AskRun
  BY <1>5, EndFacts DEF AskRun, Outcome, Degrade, Proceeds
<1>6. CASE DownloadArtifact
  BY <1>6, EndFacts DEF DownloadArtifact, Outcome, Degrade, Proceeds
<1>7. CASE Unpack
  BY <1>7, EndFacts DEF Unpack, Outcome, Degrade, Proceeds
<1>8. CASE NameEngine
  BY <1>8, EndFacts DEF NameEngine, Outcome, Degrade, Proceeds
<1>9. CASE WhisperIsThere
  BY <1>9, EndFacts DEF WhisperIsThere, Outcome, Degrade, Proceeds
<1>10. CASE WhisperInit
  BY <1>10, EndFacts DEF WhisperInit, Outcome, Degrade, Proceeds
<1>11. CASE WhisperFetch
  BY <1>11, EndFacts DEF WhisperFetch, Outcome, Degrade, Proceeds
<1>12. CASE FetchTranslate
  BY <1>12, EndFacts DEF FetchTranslate, Outcome, Degrade, Proceeds
<1>13. CASE Report
  BY <1>13, EndFacts DEF Report, Outcome, Degrade, Proceeds
<1>. QED  BY <1>1, <1>2, <1>3, <1>4, <1>5, <1>6, <1>7, <1>8, <1>9, <1>10, <1>11, <1>12, <1>13 DEF DepsNext

LEMMA BuilderKeepsKey ==
    ASSUME BuilderNext
    PROVE  NotTheKey
<1> USE DEF Ended, NotTheKey, KeyStages, disk
<1>1. CASE BuildMobile
  BY <1>1, EndFacts DEF BuildMobile, Compile
<1>2. CASE BuildMobileIos
  BY <1>2, EndFacts DEF BuildMobileIos, Compile
<1>3. CASE BuildNative
  BY <1>3, EndFacts DEF BuildNative, Compile
<1>4. ASSUME NEW l \in Required, Cargo(l) PROVE NotTheKey
  BY <1>4, EndFacts DEF Cargo, Compile
<1>5. CASE BuildWhisper
  BY <1>5, EndFacts DEF BuildWhisper
<1>6. CASE Flutter
  BY <1>6, EndFacts DEF Flutter, Package
<1>7. CASE BundleDylibs
  BY <1>7, EndFacts DEF BundleDylibs
<1>8. CASE StageHv
  BY <1>8, EndFacts DEF StageHv
<1>9. CASE StageVeil
  BY <1>9, EndFacts DEF StageVeil
<1>10. CASE StageWhisper
  BY <1>10, EndFacts DEF StageWhisper
<1>11. CASE CheckAndroidFresh
  BY <1>11, EndFacts DEF CheckAndroidFresh, Gate
<1>12. CASE CheckLinuxFresh
  BY <1>12, EndFacts DEF CheckLinuxFresh, Gate
<1>13. CASE CheckMediaStaged
  BY <1>13, EndFacts DEF CheckMediaStaged, Gate
<1>14. CASE CheckApks
  BY <1>14, EndFacts DEF CheckApks, Gate
<1>15. CASE CheckSigning
  BY <1>15, EndFacts DEF CheckSigning, Gate
<1>16. CASE CheckBundleEngine
  BY <1>16, EndFacts DEF CheckBundleEngine, Gate
<1>17. CASE CheckIosEngine
  BY <1>17, EndFacts DEF CheckIosEngine, Gate
<1>18. CASE CheckMacosBundle
  BY <1>18, EndFacts DEF CheckMacosBundle, Gate
<1>. QED  BY <1>1, <1>2, <1>3, <1>4, <1>5, <1>6, <1>7, <1>8, <1>9, <1>10, <1>11,
            <1>12, <1>13, <1>14, <1>15, <1>16, <1>17, <1>18 DEF BuilderNext

Signs == Generate \/ RunKeytool \/ Adopt \/ OpenProperties \/ WriteProperties

LEMMA PrepareKeepsKey ==
    ASSUME PrepareNext
    PROVE  NotTheKey \/ Signs
<1> USE DEF Ended, NotTheKey, KeyStages, disk
<1>1. ASSUME NEW outcome \in {"ok", "fail"}, InstallRustup(outcome) PROVE NotTheKey
  BY <1>1, EndFacts DEF InstallRustup
<1>2. ASSUME NEW outcome \in {"ok", "fail"}, NEW name \in Commands, RunCommand(name, outcome)
      PROVE  NotTheKey
  BY <1>2, EndFacts DEF RunCommand
<1>3. CASE FlutterMissing
  BY <1>3, EndFacts DEF FlutterMissing
<1>4. CASE PlaceSdk
  BY <1>4, EndFacts DEF PlaceSdk, Proceeds
<1>5. CASE ChmodSdk
  BY <1>5, EndFacts DEF ChmodSdk
<1>6. CASE UpdateSubmodules
  BY <1>6, EndFacts DEF UpdateSubmodules
<1>7. CASE SignLater
  BY <1>7, EndFacts DEF SignLater
<1>. QED  BY <1>1, <1>2, <1>3, <1>4, <1>5, <1>6, <1>7, DepsKeepKey DEF PrepareNext, Signs

LEMMA OthersKeepKey ==
    ASSUME Next
    PROVE  NotTheKey \/ Signs
<1>1. ASSUME NEW line \in Lines, Start(line) PROVE NotTheKey
  BY <1>1 DEF Start, StartRun, NotTheKey, KeyStages, disk
<1>2. CASE Skip \/ Killed \/ PrintNote \/ NewShell
  BY <1>2, EndFacts DEF Skip, Succeeds, Advance, Ended, Killed, PrintNote, NewShell, NotTheKey, KeyStages, disk
<1>3. ASSUME NEW l \in Required, Edit(l) PROVE NotTheKey
  BY <1>3 DEF Edit, NotTheKey
<1>. QED  BY <1>1, <1>2, <1>3, PrepareKeepsKey, BuilderKeepsKey DEF Next

-----------------------------------------------------------------------------
(* The key.                                                                *)

LEMMA SigningKeepsKey ==
    ASSUME KeyInv, Signs
    PROVE  KeyInv'
<1> USE DEF KeyInv, NoPassword, Torn, Mistyped
<1>0. runs' = runs /\ (exit' = "running" => exit = "running")
  BY EndFacts DEF Ended, Proceeds, Signs, Generate, RunKeytool, Adopt, OpenProperties, WriteProperties, run
<1>1. CASE Generate
  <2>1. \/ key' = key /\ stage' = ""
        \/ /\ key.store = NoPassword /\ stage' = "keytool" /\ runs >= 1
           /\ key' = [key EXCEPT !.password = runs]
    BY <1>1, EndFacts DEF Ended, Proceeds, Generate, At
  <2>2. CASE key' = key /\ stage' = ""
    BY <1>0, <2>2 DEF KeyIsKept
  <2>3. CASE /\ key.store = NoPassword /\ stage' = "keytool" /\ runs >= 1
             /\ key' = [key EXCEPT !.password = runs]
    <3>1. /\ key'.store = key.store /\ key'.properties = key.properties /\ key'.password = runs
          /\ key' \in [store : Int, password : Int, properties : Int]
      BY <2>3
    <3>. QED  BY <1>0, <2>3, <3>1 DEF KeyIsKept
  <2>. QED  BY <2>1, <2>2, <2>3
<1>2. CASE RunKeytool
  <2>1. \/ key' = key /\ stage' = ""
        \/ /\ key.store = NoPassword /\ stage = "keytool" /\ stage' = "properties"
           /\ key' = [key EXCEPT !.store = key.password]
    BY <1>2, EndFacts DEF Ended, Proceeds, RunKeytool, Within
  <2>. QED  BY <1>0, <2>1 DEF KeyIsKept
<1>3. CASE Adopt
  <2>1. key' = key /\ (stage' = "" \/ (key.store # NoPassword /\ stage' \in {"adopt", "mistyped"}))
    BY <1>3, EndFacts DEF Ended, Proceeds, Adopt, disk
  <2>. QED  BY <1>0, <2>1 DEF KeyIsKept
<1>4. CASE OpenProperties
  <2>1. /\ key.store # NoPassword /\ stage' = stage /\ key' = [key EXCEPT !.properties = Torn]
    BY <1>4 DEF OpenProperties, Within, run
  <2>. QED  BY <1>0, <2>1 DEF KeyIsKept
<1>5. CASE WriteProperties
  <2>1. /\ key.store # NoPassword /\ stage' = ""
        /\ \E password \in {key.password, key.store, Mistyped} :
              key' = [key EXCEPT !.properties = password]
    <3>1. stage \in {"properties", "adopt", "mistyped"} /\ Ended
      BY <1>5, EndFacts DEF WriteProperties, Within
    <3>2. key' = [key EXCEPT !.properties = CASE stage = "properties" -> key.password
                                              [] stage = "adopt" -> key.store
                                              [] stage = "mistyped" -> Mistyped]
      BY <1>5 DEF WriteProperties
    <3>. QED  BY <3>1, <3>2 DEF Ended
  <2>2. PICK password \in {key.password, key.store, Mistyped} :
              key' = [key EXCEPT !.properties = password]
    BY <2>1
  <2>3. /\ key'.store = key.store /\ key'.properties = password /\ key'.password = key.password
        /\ key' \in [store : Int, password : Int, properties : Int]
    BY <2>2
  <2>. QED  BY <1>0, <2>1, <2>3 DEF KeyIsKept
<1>. QED  BY <1>1, <1>2, <1>3, <1>4, <1>5 DEF Signs

(* Once there is a keystore its password stays the one in the file beside  *)
(* it, however often prepare.py is killed and run again (_generate_keystore). *)
THEOREM KeyOutlivesRuns == Spec => []KeyIsKept
<1>1. Init => KeyInv
  <2> SUFFICES ASSUME Init PROVE KeyInv
    OBVIOUS
  <2>1. key \in [store : Int, password : Int, properties : Int] /\ KeyStands(key)
    BY MachinesAssumption DEF Init
  <2>2. stage = "" /\ runs = 0 /\ exit = "idle"
    BY DEF Init
  <2>. QED  BY <2>1, <2>2 DEF KeyInv, KeyIsKept, KeyStands
<1>2. KeyInv /\ [Next]_vars => KeyInv'
  <2> SUFFICES ASSUME KeyInv, [Next]_vars PROVE KeyInv'
    OBVIOUS
  <2>1. CASE UNCHANGED vars
    BY <2>1 DEF vars, run, disk, KeyInv, KeyIsKept
  <2>2. CASE NotTheKey
    BY <2>2 DEF NotTheKey, KeyStages, KeyInv, KeyIsKept
  <2>. QED  BY <2>1, <2>2, OthersKeepKey, SigningKeepsKey
<1>3. KeyInv => KeyIsKept
  BY DEF KeyInv
<1>. QED  BY <1>1, <1>2, <1>3, PTL DEF Spec

-----------------------------------------------------------------------------
(* The plans of a build: every one takes its steps in one order.           *)

Rank(name) ==
    CASE name \in {"build-mobile", "build-native", "cargo_hv"} -> 1
      [] name \in {"linux_current", "stage_hv"} -> 2
      [] name = "cargo_veil" -> 3
      [] name = "whisper_wrapper" -> 4
      [] name = "media_staged" -> 5
      [] name = "flutter" -> 6
      [] name \in {"native_current", "bundle_dylibs", "ad-hoc_bundle", "stage_veil"} -> 7
      [] name \in {"stage_whisper", "in_the_APKs"} -> 8
      [] name \in {"signing", "engine_in_the_bundle", "iOS_engine", "in_the_macOS_bundle"} -> 9
      [] OTHER -> 10

BuildSteps ==
    {"build-mobile", "build-native", "cargo_hv", "linux_current", "stage_hv", "cargo_veil",
     "whisper_wrapper", "media_staged", "flutter", "native_current", "bundle_dylibs",
     "ad-hoc_bundle", "stage_veil", "stage_whisper", "in_the_APKs", "signing",
     "engine_in_the_bundle", "iOS_engine", "in_the_macOS_bundle", "reminder"}
StepRecord == [name : BuildSteps, optional : BOOLEAN, skip : BOOLEAN]

(* The steps that no artifact can do without.                              *)
DueIn(t, release, apple) ==
    CASE t = "android" ->
           {"flutter", "native_current"} \cup (IF release THEN {"in_the_APKs", "signing"} ELSE {})
      [] t = "linux" -> {"build-native", "flutter"}
      [] t = "macos" -> {"build-native", IF apple THEN "bundle_dylibs" ELSE "ad-hoc_bundle"}
      [] t = "ios" -> {"build-mobile", "flutter"}
      [] OTHER -> {"cargo_hv", "cargo_veil", "flutter", "stage_veil"}

(* They are neither skipped nor optional, and only macOS has dylibs.       *)
Sound(step, due, t) ==
    /\ step.name \in due => ~step.skip /\ ~step.optional
    /\ step.name \in {"bundle_dylibs", "ad-hoc_bundle"} => t = "macos"

Names(plan) == {plan[i].name : i \in 1..Len(plan)}
Ordered(plan, due, t) ==
    /\ plan \in Seq(StepRecord)
    /\ \A i, j \in 1..Len(plan) : i < j => Rank(plan[i].name) < Rank(plan[j].name)
    /\ \A i \in 1..Len(plan) : Sound(plan[i], due, t)

LEMMA RankFacts ==
    ASSUME TRUE
    PROVE  /\ Rank("build-mobile") = 1 /\ Rank("build-native") = 1 /\ Rank("cargo_hv") = 1
           /\ Rank("linux_current") = 2 /\ Rank("stage_hv") = 2 /\ Rank("cargo_veil") = 3
           /\ Rank("whisper_wrapper") = 4 /\ Rank("media_staged") = 5 /\ Rank("flutter") = 6
           /\ Rank("native_current") = 7 /\ Rank("bundle_dylibs") = 7
           /\ Rank("ad-hoc_bundle") = 7 /\ Rank("stage_veil") = 7
           /\ Rank("stage_whisper") = 8 /\ Rank("in_the_APKs") = 8
           /\ Rank("signing") = 9 /\ Rank("engine_in_the_bundle") = 9
           /\ Rank("iOS_engine") = 9 /\ Rank("in_the_macOS_bundle") = 9
           /\ Rank("reminder") = 10
BY DEF Rank

LEMMA RankType ==
    ASSUME NEW name
    PROVE  Rank(name) \in 1..10
BY DEF Rank

LEMMA Joined ==
    ASSUME NEW due, NEW t, NEW p, NEW q, Ordered(p, due, t), Ordered(q, due, t),
           \A m \in Names(p), n \in Names(q) : Rank(m) < Rank(n)
    PROVE  /\ Ordered(p \o q, due, t)
           /\ Names(p \o q) = Names(p) \cup Names(q)
<1> DEFINE r == p \o q
<1>1. p \in Seq(StepRecord) /\ q \in Seq(StepRecord)
  BY DEF Ordered
<1>2. /\ r \in Seq(StepRecord) /\ Len(r) = Len(p) + Len(q) /\ Len(p) \in Nat /\ Len(q) \in Nat
      /\ \A i \in 1..Len(r) : r[i] = IF i <= Len(p) THEN p[i] ELSE q[i - Len(p)]
  BY <1>1, ConcatProperties
<1>3. \A i \in 1..Len(r) : \/ i \in 1..Len(p) /\ r[i] = p[i]
                           \/ i - Len(p) \in 1..Len(q) /\ r[i] = q[i - Len(p)]
  BY <1>2
<1>4. /\ \A i \in 1..Len(p) : i \in 1..Len(r) /\ r[i] = p[i]
      /\ \A i \in 1..Len(q) : i + Len(p) \in 1..Len(r) /\ r[i + Len(p)] = q[i]
  BY <1>2
<1> HIDE DEF r
<1>5. Names(r) = Names(p) \cup Names(q)
  <2>1. ASSUME NEW n \in Names(r) PROVE n \in Names(p) \cup Names(q)
    BY <2>1, <1>3 DEF Names
  <2>2. ASSUME NEW n \in Names(p) PROVE n \in Names(r)
    BY <2>2, <1>4 DEF Names
  <2>3. ASSUME NEW n \in Names(q) PROVE n \in Names(r)
    BY <2>3, <1>4 DEF Names
  <2>. QED  BY <2>1, <2>2, <2>3
<1>6. \A i \in 1..Len(r) : Sound(r[i], due, t)
  BY <1>3 DEF Ordered
<1>7. ASSUME NEW i \in 1..Len(r), NEW j \in 1..Len(r), i < j
      PROVE  Rank(r[i].name) < Rank(r[j].name)
  <2>1. CASE i \in 1..Len(p) /\ j \in 1..Len(p)
    BY <2>1, <1>7, <1>4 DEF Ordered
  <2>2. CASE i \in 1..Len(p) /\ j \notin 1..Len(p)
    <3>1. r[i].name \in Names(p) /\ r[j].name \in Names(q)
      BY <2>2, <1>3, <1>4 DEF Names
    <3>. QED  BY <3>1
  <2>3. CASE i \notin 1..Len(p)
    <3>1. j \notin 1..Len(p)
      BY <2>3, <1>2, <1>7
    <3>2. /\ i - Len(p) \in 1..Len(q) /\ j - Len(p) \in 1..Len(q) /\ i - Len(p) < j - Len(p)
          /\ r[i] = q[i - Len(p)] /\ r[j] = q[j - Len(p)]
      BY <1>2, <1>3, <1>7, <2>3, <3>1
    <3>3. \A a, b \in 1..Len(q) : a < b => Rank(q[a].name) < Rank(q[b].name)
      BY DEF Ordered
    <3>. QED  BY <3>2, <3>3
  <2>. QED  BY <2>1, <2>2, <2>3
<1>8. r \in Seq(StepRecord)
  BY <1>2
<1>9. Ordered(r, due, t)
  BY <1>6, <1>7, <1>8 DEF Ordered
<1>. QED  BY <1>5, <1>9 DEF r

(* A step of the first rank comes first.                                   *)
LEMMA FirstIsHead ==
    ASSUME NEW due, NEW t, NEW plan, Ordered(plan, due, t),
           NEW n \in Names(plan), Rank(n) = 1
    PROVE  plan # <<>> /\ Rank(Head(plan).name) = 1
<1>1. PICK i \in 1..Len(plan) : plan[i].name = n
  BY DEF Names
<1>2. plan \in Seq(StepRecord) /\ Len(plan) \in Nat /\ Len(<<>>) = 0
  BY DEF Ordered
<1>3. plan # <<>> /\ 1 \in 1..Len(plan) /\ Head(plan) = plan[1]
  BY <1>1, <1>2
<1>4. i = 1
  <2> SUFFICES ASSUME i # 1 PROVE FALSE
    OBVIOUS
  <2>1. 1 < i
    BY <1>1, <1>2
  <2>2. Rank(plan[1].name) < Rank(plan[i].name)
    BY <2>1, <1>1, <1>3 DEF Ordered
  <2>. QED  BY <2>2, <1>1, RankType
<1>. QED  BY <1>1, <1>3, <1>4

(* Every piece of a plan is in order by itself.                            *)
LEMMA Piece1 ==
    ASSUME NEW due, NEW t, NEW a \in StepRecord, Sound(a, due, t)
    PROVE  Ordered(<<a>>, due, t) /\ Names(<<a>>) = {a.name} /\ Head(<<a>>) = a
BY DEF Ordered, Names

LEMMA Piece2 ==
    ASSUME NEW due, NEW t, NEW a \in StepRecord, NEW b \in StepRecord,
           Sound(a, due, t), Sound(b, due, t), Rank(a.name) < Rank(b.name)
    PROVE  Ordered(<<a, b>>, due, t) /\ Names(<<a, b>>) = {a.name, b.name} /\ Head(<<a, b>>) = a
<1>1. Len(<<a, b>>) = 2 /\ \A i \in 1..2 : i = 1 \/ i = 2
  OBVIOUS
<1>2. <<a, b>> \in Seq(StepRecord) /\ <<a, b>>[1] = a /\ <<a, b>>[2] = b
  OBVIOUS
<1>. QED  BY <1>1, <1>2, RankType DEF Ordered, Names

LEMMA Piece3 ==
    ASSUME NEW due, NEW t, NEW a \in StepRecord, NEW b \in StepRecord, NEW c \in StepRecord,
           Sound(a, due, t), Sound(b, due, t), Sound(c, due, t),
           Rank(a.name) < Rank(b.name), Rank(b.name) < Rank(c.name)
    PROVE  /\ Ordered(<<a, b, c>>, due, t) /\ Names(<<a, b, c>>) = {a.name, b.name, c.name}
           /\ Head(<<a, b, c>>) = a
<1> DEFINE p == <<a, b, c>>
<1>1. Len(p) = 3 /\ \A i \in 1..3 : i = 1 \/ i = 2 \/ i = 3
  OBVIOUS
<1>2. p \in Seq(StepRecord) /\ p[1] = a /\ p[2] = b /\ p[3] = c /\ Head(p) = a
  OBVIOUS
<1> HIDE DEF p
<1>3. Rank(a.name) \in Int /\ Rank(b.name) \in Int /\ Rank(c.name) \in Int
  BY RankType
<1>4. Rank(a.name) < Rank(c.name)
  BY <1>3
<1>5. Ordered(p, due, t)
  BY <1>1, <1>2, <1>4 DEF Ordered
<1>6. Names(p) = {a.name, b.name, c.name}
  BY <1>1, <1>2 DEF Names
<1>. QED  BY <1>2, <1>5, <1>6 DEF p

LEMMA StepFacts ==
    ASSUME NEW name \in BuildSteps, NEW b \in BOOLEAN
    PROVE  /\ Step(name) \in StepRecord /\ Step(name).name = name
           /\ ~Step(name).optional /\ ~Step(name).skip
           /\ Optional(Step(name)) \in StepRecord /\ Optional(Step(name)).name = name
           /\ SkipIf(Step(name), b) \in StepRecord /\ SkipIf(Step(name), b).name = name
           /\ SkipIf(Optional(Step(name)), b) \in StepRecord
           /\ SkipIf(Optional(Step(name)), b).name = name
BY DEF Step, Optional, SkipIf, StepRecord

LEMMA AndroidPlanIsOrdered ==
    ASSUME NEW release \in BOOLEAN, NEW apple, NEW due, due = DueIn("android", release, apple)
    PROVE  /\ Ordered(AndroidPlan(release), due, "android")
           /\ due \subseteq Names(AndroidPlan(release))
           /\ AndroidPlan(release) # <<>> /\ Rank(Head(AndroidPlan(release)).name) = 1
<1> DEFINE m == SkipIf(Step("build-mobile"), ~host.bash)
           w == SkipIf(Whisper, ~host.bash)
           p == <<m, w>>
           q == If(release, <<Step("media_staged")>>)
           r == <<Step("flutter"), Step("native_current")>>
           s == If(release, <<Step("in_the_APKs"), Step("signing")>>)
<1>1. /\ m \in StepRecord /\ m.name = "build-mobile" /\ w \in StepRecord /\ w.name = "whisper_wrapper"
  <2>1. PICK b \in BOOLEAN : b <=> ~host.bash
    OBVIOUS
  <2>2. m = SkipIf(Step("build-mobile"), b) /\ w = SkipIf(Optional(Step("whisper_wrapper")), b)
    BY <2>1 DEF Whisper, SkipIf, Step, Optional
  <2>3. m \in StepRecord /\ m.name = "build-mobile"
    BY <2>2, StepFacts DEF BuildSteps
  <2>4. w \in StepRecord /\ w.name = "whisper_wrapper"
    BY <2>2, StepFacts DEF BuildSteps
  <2>. QED  BY <2>3, <2>4
<1> HIDE DEF m, w
<1>2. "build-mobile" \notin due /\ "whisper_wrapper" \notin due /\ "media_staged" \notin due
  BY DEF DueIn
<1>3. Ordered(p, due, "android") /\ Names(p) = {"build-mobile", "whisper_wrapper"} /\ Head(p) = m
  BY <1>1, <1>2, Piece2, RankFacts DEF Sound
<1>4. Ordered(q, due, "android") /\ Names(q) \subseteq {"media_staged"}
  <2>1. CASE release
    <3>1. Ordered(<<Step("media_staged")>>, due, "android")
          /\ Names(<<Step("media_staged")>>) = {"media_staged"}
      <4>1. Step("media_staged") \in StepRecord /\ Step("media_staged").name = "media_staged"
        BY StepFacts DEF BuildSteps
      <4>2. Sound(Step("media_staged"), due, "android")
        BY <4>1, <1>2 DEF Sound
      <4>. QED  BY <4>1, <4>2, Piece1
    <3>. QED  BY <2>1, <3>1 DEF If
  <2>2. CASE ~release
    BY <2>2 DEF Ordered, Names, If
  <2>. QED  BY <2>1, <2>2
<1>5. Ordered(r, due, "android") /\ Names(r) = {"flutter", "native_current"}
  <2>1. Sound(Step("flutter"), due, "android") /\ Sound(Step("native_current"), due, "android")
    BY StepFacts DEF Sound, BuildSteps
  <2>. QED  BY <2>1, Piece2, StepFacts, RankFacts DEF BuildSteps
<1>6. /\ Ordered(s, due, "android")
      /\ Names(s) = IF release THEN {"in_the_APKs", "signing"} ELSE {}
  <2>1. CASE release
    <3>1. Sound(Step("in_the_APKs"), due, "android") /\ Sound(Step("signing"), due, "android")
      BY StepFacts DEF Sound, BuildSteps
    <3>2. /\ Ordered(<<Step("in_the_APKs"), Step("signing")>>, due, "android")
          /\ Names(<<Step("in_the_APKs"), Step("signing")>>) = {"in_the_APKs", "signing"}
      BY <3>1, Piece2, StepFacts, RankFacts DEF BuildSteps
    <3>. QED  BY <2>1, <3>2 DEF If
  <2>2. CASE ~release
    BY <2>2 DEF Ordered, Names, If
  <2>. QED  BY <2>1, <2>2
<1> HIDE DEF p, q, r, s
<1>7. Ordered(p \o q, due, "android") /\ Names(p \o q) = Names(p) \cup Names(q)
  <2>1. \A a \in Names(p), b \in Names(q) : Rank(a) < Rank(b)
    BY <1>3, <1>4, RankFacts
  <2>. QED  BY <2>1, <1>3, <1>4, Joined
<1>8. Ordered(p \o q \o r, due, "android") /\ Names(p \o q \o r) = Names(p) \cup Names(q) \cup Names(r)
  <2>1. \A a \in Names(p \o q), b \in Names(r) : Rank(a) < Rank(b)
    BY <1>3, <1>4, <1>5, <1>7, RankFacts
  <2>. QED  BY <2>1, <1>5, <1>7, Joined
<1>9. /\ Ordered(p \o q \o r \o s, due, "android")
      /\ Names(p \o q \o r \o s) = Names(p) \cup Names(q) \cup Names(r) \cup Names(s)
  <2>1. \A a \in Names(p \o q \o r), b \in Names(s) : Rank(a) < Rank(b)
    BY <1>3, <1>4, <1>5, <1>6, <1>8, RankFacts
  <2>. QED  BY <2>1, <1>6, <1>8, Joined
<1>10. AndroidPlan(release) = p \o q \o r \o s
  BY DEF AndroidPlan, p, q, r, s, m, w
<1>11. due = Names(r) \cup Names(s)
  BY <1>5, <1>6 DEF DueIn
<1>12. Rank(Head(p \o q \o r \o s).name) = 1 /\ p \o q \o r \o s # <<>>
  <2>1. "build-mobile" \in Names(p \o q \o r \o s)
    BY <1>3, <1>9
  <2>2. \A n \in Names(p \o q \o r \o s) : n # "build-mobile" => 1 < Rank(n)
    BY <1>3, <1>4, <1>5, <1>6, <1>9, RankFacts
  <2>. QED  BY <1>9, <2>1, RankFacts, FirstIsHead
<1>. QED  BY <1>9, <1>10, <1>11, <1>12

LEMMA Piece4 ==
    ASSUME NEW due, NEW t, NEW a \in StepRecord, NEW b \in StepRecord, NEW c \in StepRecord,
           NEW d \in StepRecord,
           Sound(a, due, t), Sound(b, due, t), Sound(c, due, t), Sound(d, due, t),
           Rank(a.name) < Rank(b.name), Rank(b.name) < Rank(c.name), Rank(c.name) < Rank(d.name)
    PROVE  /\ Ordered(<<a, b, c, d>>, due, t)
           /\ Names(<<a, b, c, d>>) = {a.name, b.name, c.name, d.name}
<1> DEFINE p == <<a, b, c, d>>
<1>1. Len(p) = 4 /\ \A i \in 1..4 : i = 1 \/ i = 2 \/ i = 3 \/ i = 4
  OBVIOUS
<1>2. p \in Seq(StepRecord) /\ p[1] = a /\ p[2] = b /\ p[3] = c /\ p[4] = d
  OBVIOUS
<1> HIDE DEF p
<1>3. /\ Rank(a.name) \in Int /\ Rank(b.name) \in Int /\ Rank(c.name) \in Int /\ Rank(d.name) \in Int
  BY RankType
<1>4. Rank(a.name) < Rank(c.name) /\ Rank(a.name) < Rank(d.name) /\ Rank(b.name) < Rank(d.name)
  BY <1>3
<1>5. Ordered(p, due, t)
  BY <1>1, <1>2, <1>4 DEF Ordered
<1>6. Names(p) = {a.name, b.name, c.name, d.name}
  BY <1>1, <1>2 DEF Names
<1>. QED  BY <1>2, <1>5, <1>6 DEF p

LEMMA WhisperFacts ==
    ASSUME TRUE
    PROVE  Whisper \in StepRecord /\ Whisper.name = "whisper_wrapper"
BY StepFacts DEF Whisper, BuildSteps

LEMMA LinuxPlanIsOrdered ==
    ASSUME NEW release \in BOOLEAN, NEW apple, NEW due, due = DueIn("linux", release, apple)
    PROVE  /\ Ordered(LinuxPlan(release), due, "linux")
           /\ due \subseteq Names(LinuxPlan(release))
           /\ LinuxPlan(release) # <<>> /\ Rank(Head(LinuxPlan(release)).name) = 1
<1> DEFINE p == <<Step("build-native"), Step("linux_current"), Whisper, Step("flutter")>>
           q == If(release, <<Step("engine_in_the_bundle")>>)
<1>1. due = {"build-native", "flutter"}
  BY DEF DueIn
<1>2. /\ Ordered(p, due, "linux")
      /\ Names(p) = {"build-native", "linux_current", "whisper_wrapper", "flutter"}
  <2>1. /\ \A n \in BuildSteps \ {"bundle_dylibs", "ad-hoc_bundle"} : Sound(Step(n), due, "linux")
        /\ Sound(Whisper, due, "linux")
    BY <1>1, StepFacts, WhisperFacts DEF Sound
  <2>2. /\ Sound(Step("build-native"), due, "linux") /\ Sound(Step("linux_current"), due, "linux")
        /\ Sound(Step("flutter"), due, "linux")
    BY <2>1 DEF BuildSteps
  <2>3. /\ Step("build-native") \in StepRecord /\ Step("build-native").name = "build-native"
        /\ Step("linux_current") \in StepRecord /\ Step("linux_current").name = "linux_current"
        /\ Step("flutter") \in StepRecord /\ Step("flutter").name = "flutter"
    BY StepFacts DEF BuildSteps
  <2>. QED  BY <2>1, <2>2, <2>3, Piece4, WhisperFacts, RankFacts
<1>3. Ordered(q, due, "linux") /\ Names(q) \subseteq {"engine_in_the_bundle"}
  <2>1. CASE release
    <3>1. /\ Step("engine_in_the_bundle") \in StepRecord
          /\ Step("engine_in_the_bundle").name = "engine_in_the_bundle"
      BY StepFacts DEF BuildSteps
    <3>2. Sound(Step("engine_in_the_bundle"), due, "linux")
      BY <1>1, <3>1 DEF Sound
    <3>3. /\ Ordered(<<Step("engine_in_the_bundle")>>, due, "linux")
          /\ Names(<<Step("engine_in_the_bundle")>>) = {"engine_in_the_bundle"}
      BY <3>1, <3>2, Piece1
    <3>. QED  BY <2>1, <3>3 DEF If
  <2>2. CASE ~release
    BY <2>2 DEF Ordered, Names, If
  <2>. QED  BY <2>1, <2>2
<1> HIDE DEF p, q
<1>4. Ordered(p \o q, due, "linux") /\ Names(p \o q) = Names(p) \cup Names(q)
  <2>1. \A a \in Names(p), b \in Names(q) : Rank(a) < Rank(b)
    BY <1>2, <1>3, RankFacts
  <2>. QED  BY <2>1, <1>2, <1>3, Joined
<1>5. LinuxPlan(release) = p \o q
  BY DEF LinuxPlan, p, q
<1>6. "build-native" \in Names(p \o q) /\ due \subseteq Names(p \o q)
  BY <1>1, <1>2, <1>4
<1>. QED  BY <1>4, <1>5, <1>6, RankFacts, FirstIsHead

LEMMA MacosPlanIsOrdered ==
    ASSUME NEW release \in BOOLEAN, NEW apple \in BOOLEAN, NEW due,
           apple <=> host.apple, due = DueIn("macos", release, apple)
    PROVE  /\ Ordered(MacosPlan, due, "macos") /\ due \subseteq Names(MacosPlan)
           /\ MacosPlan # <<>> /\ Rank(Head(MacosPlan).name) = 1
<1> DEFINE p == <<Step("build-native"), Whisper>>
           q == IF host.apple THEN <<Step("flutter"), Step("bundle_dylibs")>>
                              ELSE <<Step("ad-hoc_bundle")>>
           r == <<Step("in_the_macOS_bundle")>>
<1>1. due = {"build-native", IF apple THEN "bundle_dylibs" ELSE "ad-hoc_bundle"}
  BY DEF DueIn
<1>2. /\ \A n \in BuildSteps : Sound(Step(n), due, "macos")
      /\ Sound(Whisper, due, "macos")
  BY <1>1, StepFacts, WhisperFacts DEF Sound
<1>3. Ordered(p, due, "macos") /\ Names(p) = {"build-native", "whisper_wrapper"}
  BY <1>2, Piece2, StepFacts, WhisperFacts, RankFacts DEF BuildSteps
<1>4. /\ Ordered(q, due, "macos")
      /\ Names(q) = IF apple THEN {"flutter", "bundle_dylibs"} ELSE {"ad-hoc_bundle"}
  <2>1. CASE apple
    <3>1. /\ Ordered(<<Step("flutter"), Step("bundle_dylibs")>>, due, "macos")
          /\ Names(<<Step("flutter"), Step("bundle_dylibs")>>) = {"flutter", "bundle_dylibs"}
      BY <1>2, Piece2, StepFacts, RankFacts DEF BuildSteps
    <3>. QED  BY <2>1, <3>1
  <2>2. CASE ~apple
    <3>1. Step("ad-hoc_bundle") \in StepRecord /\ Step("ad-hoc_bundle").name = "ad-hoc_bundle"
      BY StepFacts DEF BuildSteps
    <3>2. Sound(Step("ad-hoc_bundle"), due, "macos")
      BY <1>2 DEF BuildSteps
    <3>3. /\ Ordered(<<Step("ad-hoc_bundle")>>, due, "macos")
          /\ Names(<<Step("ad-hoc_bundle")>>) = {"ad-hoc_bundle"}
      BY <3>1, <3>2, Piece1
    <3>. QED  BY <2>2, <3>3
  <2>. QED  BY <2>1, <2>2
<1>5. Ordered(r, due, "macos") /\ Names(r) = {"in_the_macOS_bundle"}
  <2>1. /\ Step("in_the_macOS_bundle") \in StepRecord
        /\ Step("in_the_macOS_bundle").name = "in_the_macOS_bundle"
    BY StepFacts DEF BuildSteps
  <2>2. Sound(Step("in_the_macOS_bundle"), due, "macos")
    BY <1>2 DEF BuildSteps
  <2>. QED  BY <2>1, <2>2, Piece1
<1> HIDE DEF p, q, r
<1>6. Ordered(p \o q, due, "macos") /\ Names(p \o q) = Names(p) \cup Names(q)
  <2>1. \A a \in Names(p), b \in Names(q) : Rank(a) < Rank(b)
    BY <1>3, <1>4, RankFacts
  <2>. QED  BY <2>1, <1>3, <1>4, Joined
<1>7. Ordered(p \o q \o r, due, "macos") /\ Names(p \o q \o r) = Names(p) \cup Names(q) \cup Names(r)
  <2>1. \A a \in Names(p \o q), b \in Names(r) : Rank(a) < Rank(b)
    BY <1>3, <1>4, <1>5, <1>6, RankFacts
  <2>. QED  BY <2>1, <1>5, <1>6, Joined
<1>8. MacosPlan = p \o q \o r
  BY DEF MacosPlan, p, q, r
<1>9. "build-native" \in Names(p \o q \o r) /\ due \subseteq Names(p \o q \o r)
  BY <1>1, <1>3, <1>4, <1>7
<1>. QED  BY <1>7, <1>8, <1>9, RankFacts, FirstIsHead

LEMMA IosPlanIsOrdered ==
    ASSUME NEW release \in BOOLEAN, NEW apple, NEW due, due = DueIn("ios", release, apple)
    PROVE  /\ Ordered(IosPlan(release), due, "ios") /\ due \subseteq Names(IosPlan(release))
           /\ IosPlan(release) # <<>> /\ Rank(Head(IosPlan(release)).name) = 1
<1> DEFINE e == SkipIf(IF release THEN Step("iOS_engine") ELSE Optional(Step("iOS_engine")), ~release)
<1>1. due = {"build-mobile", "flutter"}
  BY DEF DueIn
<1>2. e \in StepRecord /\ e.name = "iOS_engine"
  <2>1. CASE release
    <3>1. e = SkipIf(Step("iOS_engine"), FALSE)
      BY <2>1 DEF SkipIf, Step
    <3>2. /\ SkipIf(Step("iOS_engine"), FALSE) \in StepRecord
          /\ SkipIf(Step("iOS_engine"), FALSE).name = "iOS_engine"
      BY StepFacts DEF BuildSteps
    <3>. QED  BY <3>1, <3>2
  <2>2. CASE ~release
    <3>1. e = SkipIf(Optional(Step("iOS_engine")), TRUE)
      BY <2>2 DEF SkipIf, Optional, Step
    <3>2. /\ SkipIf(Optional(Step("iOS_engine")), TRUE) \in StepRecord
          /\ SkipIf(Optional(Step("iOS_engine")), TRUE).name = "iOS_engine"
      BY StepFacts DEF BuildSteps
    <3>. QED  BY <3>1, <3>2
  <2>. QED  BY <2>1, <2>2
<1>3. IosPlan(release) = <<Step("build-mobile"), Step("flutter"), e>>
  BY DEF IosPlan
<1> HIDE DEF e
<1>4. /\ Sound(Step("build-mobile"), due, "ios") /\ Sound(Step("flutter"), due, "ios")
      /\ Sound(e, due, "ios")
  BY <1>1, <1>2, StepFacts DEF Sound, BuildSteps
<1>5. /\ Ordered(IosPlan(release), due, "ios")
      /\ Names(IosPlan(release)) = {"build-mobile", "flutter", "iOS_engine"}
  BY <1>2, <1>3, <1>4, Piece3, StepFacts, RankFacts DEF BuildSteps
<1>6. "build-mobile" \in Names(IosPlan(release)) /\ due \subseteq Names(IosPlan(release))
  BY <1>1, <1>5
<1>. QED  BY <1>5, <1>6, RankFacts, FirstIsHead

LEMMA WindowsPlanIsOrdered ==
    ASSUME NEW release \in BOOLEAN, NEW apple, NEW due, due = DueIn("windows", release, apple)
    PROVE  /\ Ordered(WindowsPlan(release), due, "windows")
           /\ due \subseteq Names(WindowsPlan(release))
           /\ WindowsPlan(release) # <<>> /\ Rank(Head(WindowsPlan(release)).name) = 1
<1> DEFINE w == SkipIf(Whisper, ~host.bash)
           g == SkipIf(Optional(Step("stage_whisper")), Out("windows", release) \cap wrapper = {})
           e == SkipIf(IF release THEN Step("engine_in_the_bundle")
                                  ELSE Optional(Step("engine_in_the_bundle")), ~release)
           W == <<Step("cargo_hv"), Step("stage_hv"), Step("cargo_veil"), w, Step("flutter"),
                  Step("stage_veil"), g, e, Step("reminder")>>
<1>1. due = {"cargo_hv", "cargo_veil", "flutter", "stage_veil"}
  BY DEF DueIn
<1>2. w \in StepRecord /\ w.name = "whisper_wrapper"
  <2>1. PICK b \in BOOLEAN : b <=> ~host.bash
    OBVIOUS
  <2>2. w = SkipIf(Optional(Step("whisper_wrapper")), b)
    BY <2>1 DEF Whisper, SkipIf, Step, Optional
  <2>. QED  BY <2>2, StepFacts DEF BuildSteps
<1>3. g \in StepRecord /\ g.name = "stage_whisper"
  <2>1. PICK b \in BOOLEAN : b <=> Out("windows", release) \cap wrapper = {}
    OBVIOUS
  <2>2. g = SkipIf(Optional(Step("stage_whisper")), b)
    BY <2>1 DEF SkipIf, Step, Optional
  <2>. QED  BY <2>2, StepFacts DEF BuildSteps
<1>4. e \in StepRecord /\ e.name = "engine_in_the_bundle"
  <2>1. CASE release
    <3>1. e = SkipIf(Step("engine_in_the_bundle"), FALSE)
      BY <2>1 DEF SkipIf, Step
    <3>2. /\ SkipIf(Step("engine_in_the_bundle"), FALSE) \in StepRecord
          /\ SkipIf(Step("engine_in_the_bundle"), FALSE).name = "engine_in_the_bundle"
      BY StepFacts DEF BuildSteps
    <3>. QED  BY <3>1, <3>2
  <2>2. CASE ~release
    <3>1. e = SkipIf(Optional(Step("engine_in_the_bundle")), TRUE)
      BY <2>2 DEF SkipIf, Optional, Step
    <3>2. /\ SkipIf(Optional(Step("engine_in_the_bundle")), TRUE) \in StepRecord
          /\ SkipIf(Optional(Step("engine_in_the_bundle")), TRUE).name = "engine_in_the_bundle"
      BY StepFacts DEF BuildSteps
    <3>. QED  BY <3>1, <3>2
  <2>. QED  BY <2>1, <2>2
<1>5. WindowsPlan(release) = W
  BY DEF WindowsPlan
<1> HIDE DEF w, g, e
<1>6. /\ \A n \in BuildSteps : Step(n) \in StepRecord /\ Step(n).name = n
      /\ {"cargo_hv", "stage_hv", "cargo_veil", "flutter", "stage_veil", "reminder"} \subseteq BuildSteps
      /\ \A n \in due : ~Step(n).skip /\ ~Step(n).optional
  BY <1>1, StepFacts DEF BuildSteps
<1>7. W \in Seq(StepRecord) /\ Len(W) = 9
  BY <1>2, <1>3, <1>4, <1>6
<1>8. /\ W[1] = Step("cargo_hv") /\ W[2] = Step("stage_hv") /\ W[3] = Step("cargo_veil") /\ W[4] = w
      /\ W[5] = Step("flutter") /\ W[6] = Step("stage_veil") /\ W[7] = g /\ W[8] = e
      /\ W[9] = Step("reminder")
  OBVIOUS
<1> HIDE DEF W
<1>9. \A i \in 1..9 : i = 1 \/ i = 2 \/ i = 3 \/ i = 4 \/ i = 5 \/ i = 6 \/ i = 7 \/ i = 8 \/ i = 9
  OBVIOUS
<1>10. \A i \in 1..9 : Rank(W[i].name) = IF i <= 4 THEN i ELSE i + 1
  BY <1>2, <1>3, <1>4, <1>6, <1>8, <1>9, RankFacts
<1>11. \A i \in 1..9 : Sound(W[i], due, "windows")
  BY <1>1, <1>2, <1>3, <1>4, <1>6, <1>8, <1>9 DEF Sound
<1>12. Ordered(W, due, "windows")
  BY <1>7, <1>10, <1>11 DEF Ordered
<1>13. /\ W[1].name = "cargo_hv" /\ W[3].name = "cargo_veil" /\ W[5].name = "flutter"
       /\ W[6].name = "stage_veil"
  BY <1>6, <1>8
<1>14. \A i \in 1..9 : W[i].name \in Names(W)
  BY <1>7 DEF Names
<1>15. due \subseteq Names(W) /\ "cargo_hv" \in Names(W)
  BY <1>1, <1>13, <1>14
<1>. QED  BY <1>5, <1>12, <1>15, RankFacts, FirstIsHead

LEMMA PlanIsOrdered ==
    ASSUME NEW t \in Targets, NEW release \in BOOLEAN, NEW apple \in BOOLEAN, NEW due, NEW plan,
           apple <=> host.apple, due = DueIn(t, release, apple), plan = BuildPlan(t, release)
    PROVE  /\ Ordered(plan, due, t) /\ due \subseteq Names(plan)
           /\ plan # <<>> /\ Rank(Head(plan).name) = 1
<1>1. CASE t = "android"
  <2>1. plan = AndroidPlan(release) /\ due = DueIn("android", release, apple)
    BY <1>1 DEF BuildPlan
  <2>. QED  BY <1>1, <2>1, AndroidPlanIsOrdered
<1>2. CASE t = "linux"
  <2>1. plan = LinuxPlan(release) /\ due = DueIn("linux", release, apple)
    BY <1>2 DEF BuildPlan
  <2>. QED  BY <1>2, <2>1, LinuxPlanIsOrdered
<1>3. CASE t = "macos"
  <2>1. plan = MacosPlan /\ due = DueIn("macos", release, apple)
    BY <1>3 DEF BuildPlan
  <2>. QED  BY <1>3, <2>1, MacosPlanIsOrdered
<1>4. CASE t = "ios"
  <2>1. plan = IosPlan(release) /\ due = DueIn("ios", release, apple)
    BY <1>4 DEF BuildPlan
  <2>. QED  BY <1>4, <2>1, IosPlanIsOrdered
<1>5. CASE t = "windows"
  <2>1. plan = WindowsPlan(release) /\ due = DueIn("windows", release, apple)
    BY <1>5 DEF BuildPlan
  <2>. QED  BY <1>5, <2>1, WindowsPlanIsOrdered
<1>. QED  BY <1>1, <1>2, <1>3, <1>4, <1>5 DEF Targets

-----------------------------------------------------------------------------
(* A build: what holds while it runs and when it has ended well.           *)

Building == job.program = "build" /\ ~job.dry /\ exit \in {"running", "done"}
Due == DueIn(target, job.release, host.apple)

(* A step is past when all that is left comes later.                       *)
Past(name) == todo = <<>> \/ Rank(name) < Rank(Head(todo).name)

PlanInv ==
    /\ target \in Targets /\ job.release \in BOOLEAN
    /\ target # "macos" => job.network \in {"unset", "prod", "testnet"}
    /\ exit = "running" <=> todo # <<>>
    /\ Ordered(todo, Due, target)
    /\ \A name \in Due : Past(name) \/ name \in Names(todo)

(* Compiled by this run from the sources as they are.                      *)
Made(libs) == \A l \in libs, s \in Outputs : lib[l][s] = Compiled(l)

MadeInv ==
    /\ target \in {"linux", "macos"} /\ Past("build-native") => Made(Required)
    /\ target = "ios" /\ Past("build-mobile") => Made(Required)
    /\ target = "windows" /\ Past("cargo_hv") => Made({"hv"})
    /\ target = "windows" /\ Past("cargo_veil") => Made({"veil"})

AppInv ==
    /\ target # "macos" /\ Past("flutter") =>
         /\ marks.define = NetworkDefine(job.network)
         /\ \A s \in Outputs :
               /\ bundle[s].hv = lib["hv"][s]
               /\ target # "windows" => bundle[s].veil = lib["veil"][s]
               /\ target # "android" /\ job.release => bundle[s].engine # "absent"
    /\ target = "android" /\ Past("flutter") => marks.signature = Signature /\ Signature # "refused"
    /\ target = "windows" /\ Past("stage_veil") => \A s \in Outputs : bundle[s].veil = lib["veil"][s]
    /\ target = "macos" /\ Past("bundle_dylibs") =>
         \A s \in Outputs : bundle[s].hv = lib["hv"][s] /\ bundle[s].veil = lib["veil"][s]

(* What the gates of an Android build look at.                             *)
NothingStale ==
    \A l \in Required : StagedFor(l) # {} /\ \A s \in StagedFor(l) : Fresh(l, s)
ApksHold ==
    ~stray /\ \A s \in Outputs : /\ \A l \in Required : bundle[s][l] # NoLib
                                 /\ Loadable(bundle[s].engine) /\ Exports(bundle[s].engine)

GateInv ==
    /\ target = "android" /\ Past("native_current") => NothingStale
    /\ target = "android" /\ job.release /\ Past("in_the_APKs") => ApksHold
    /\ target = "android" /\ job.release /\ Past("signing") => key.properties # 0

ShapeInv ==
    /\ engine \in [EngineSlots -> Engines]
    /\ DOMAIN bundle = Slots
    /\ \A s \in Slots : DOMAIN bundle[s] = {"hv", "veil", "engine", "whisper"}

BuildInv == ShapeInv /\ (Building => PlanInv /\ MadeInv /\ AppInv /\ GateInv)

(* How a plan goes on.                                                     *)
LEMMA PlanGoesOn ==
    ASSUME PlanInv, exit = "running", Advance
    PROVE  /\ PlanInv'
           /\ Head(todo) \in StepRecord /\ Sound(Head(todo), Due, target)
           /\ host' = host /\ job' = job /\ target' = target /\ Outputs' = Outputs /\ Due' = Due
           /\ \A name : Past(name) => Rank(name) < Rank(Head(todo).name)
           /\ \A name \in Due : Past(name)' => Past(name) \/ name = Head(todo).name
<1>1. host' = host /\ job' = job /\ todo' = Tail(todo)
      /\ exit' = IF Tail(todo) = <<>> THEN "done" ELSE "running"
  BY DEF Advance
<1>2. target' = target /\ Outputs' = Outputs /\ Due' = Due
  BY <1>1 DEF target, Target, Outputs, Due
<1>3. todo \in Seq(StepRecord) /\ todo # <<>> /\ Ordered(todo, Due, target)
  BY DEF PlanInv, Ordered
<1>4. /\ Len(todo) \in Nat /\ Len(todo) >= 1 /\ Head(todo) = todo[1]
      /\ Tail(todo) \in Seq(StepRecord) /\ Len(Tail(todo)) = Len(todo) - 1
      /\ \A i \in 1..Len(Tail(todo)) : i + 1 \in 1..Len(todo) /\ Tail(todo)[i] = todo[i + 1]
  BY ONLY <1>3, HeadTailProperties
<1>5. Ordered(Tail(todo), Due, target)
  BY <1>3, <1>4 DEF Ordered
<1>6. Head(todo) \in StepRecord /\ Sound(Head(todo), Due, target)
  BY <1>3, <1>4 DEF Ordered
<1>7. \A name : Past(name) => Rank(name) < Rank(Head(todo).name)
  BY <1>3 DEF Past
<1>8. Names(todo) \subseteq Names(Tail(todo)) \cup {Head(todo).name}
  <2>1. ASSUME NEW i \in 1..Len(todo), i # 1 PROVE todo[i].name \in Names(Tail(todo))
    <3>1. i - 1 \in 1..Len(Tail(todo)) /\ Tail(todo)[i - 1] = todo[i]
      BY <2>1, <1>4
    <3>. QED  BY <3>1 DEF Names
  <2>. QED  BY <2>1, <1>4 DEF Names
<1>9. ASSUME NEW name \in Names(Tail(todo)) PROVE ~(Tail(todo) = <<>> \/ Rank(name) < Rank(Head(Tail(todo)).name))
  <2>1. PICK i \in 1..Len(Tail(todo)) : Tail(todo)[i].name = name
    BY DEF Names
  <2>2. Len(<<>>) = 0
    OBVIOUS
  <2>3. Tail(todo) # <<>> /\ 1 \in 1..Len(Tail(todo)) /\ Head(Tail(todo)) = Tail(todo)[1]
    BY <2>1, <2>2, <1>4
  <2>4. i = 1 \/ 1 < i
    BY <2>1, <1>4
  <2>5. 1 < i => Rank(Tail(todo)[1].name) < Rank(Tail(todo)[i].name)
    BY <2>1, <2>3, <1>5 DEF Ordered
  <2>6. Rank(Tail(todo)[1].name) \in Int /\ Rank(Tail(todo)[i].name) \in Int
    BY RankType
  <2>. QED  BY <2>1, <2>3, <2>4, <2>5, <2>6
<1>10. ASSUME NEW name, Past(name) PROVE Past(name)'
  <2>1. CASE Tail(todo) = <<>>
    BY <2>1, <1>1 DEF Past
  <2>2. CASE Tail(todo) # <<>>
    <3>1. Head(Tail(todo)) = Tail(todo)[1] /\ 1 \in 1..Len(Tail(todo))
      BY <2>2, <1>4
    <3>2. Head(Tail(todo)) = todo[2] /\ 2 \in 1..Len(todo) /\ 1 \in 1..Len(todo)
      BY <3>1, <1>4
    <3>3. Rank(todo[1].name) < Rank(todo[2].name)
      BY <3>2, <1>3 DEF Ordered
    <3>4. Rank(name) < Rank(todo[1].name)
      BY <1>7, <1>10, <1>4
    <3>5. Rank(name) < Rank(Head(Tail(todo)).name)
      BY <3>2, <3>3, <3>4, RankType
    <3>. QED  BY <3>5, <1>1 DEF Past
  <2>. QED  BY <2>1, <2>2
<1>11. ASSUME NEW name \in Due PROVE Past(name)' => Past(name) \/ name = Head(todo).name
  BY <1>1, <1>8, <1>9 DEF Past, PlanInv
<1>12. ASSUME NEW name \in Due PROVE Past(name)' \/ name \in Names(Tail(todo))
  <2>1. CASE Past(name)
    BY <2>1, <1>10
  <2>2. CASE name = Head(todo).name
    <3>1. Tail(todo) = <<>> \/ Rank(name) < Rank(Head(Tail(todo)).name)
      <4>1. CASE Tail(todo) # <<>>
        <5>1. Head(Tail(todo)) = Tail(todo)[1] /\ 1 \in 1..Len(Tail(todo))
          BY <4>1, <1>4
        <5>2. Head(Tail(todo)) = todo[2] /\ 2 \in 1..Len(todo) /\ 1 \in 1..Len(todo)
          BY <5>1, <1>4
        <5>3. Rank(todo[1].name) < Rank(todo[2].name)
          BY <5>2, <1>3 DEF Ordered
        <5>. QED  BY <5>2, <5>3, <2>2, <1>4
      <4>. QED  BY <4>1
    <3>. QED  BY <3>1, <1>1 DEF Past
  <2>3. CASE name \in Names(Tail(todo))
    BY <2>3
  <2>. QED  BY <2>1, <2>2, <2>3, <1>8 DEF PlanInv
<1>13. PlanInv'
  <2>1. target' \in Targets /\ job'.release \in BOOLEAN
        /\ (target' # "macos" => job'.network \in {"unset", "prod", "testnet"})
    BY <1>1, <1>2 DEF PlanInv
  <2>2. exit' = "running" <=> todo' # <<>>
    BY <1>1
  <2>3. Ordered(todo', Due', target')
    BY <1>1, <1>2, <1>5
  <2>4. \A name \in Due' : Past(name)' \/ name \in Names(todo')
    BY <1>1, <1>2, <1>12
  <2>. QED  BY <2>1, <2>2, <2>3, <2>4 DEF PlanInv
<1>. QED  BY <1>1, <1>2, <1>6, <1>7, <1>11, <1>13

(* A step that no artifact can do without ends the run when it fails.      *)
LEMMA FailureOfDue ==
    ASSUME PlanInv, exit = "running", Fails
    PROVE  /\ Advance \/ exit' = "aborted"
           /\ Head(todo).name \in Due => exit' = "aborted"
<1>1. todo \in Seq(StepRecord) /\ todo # <<>> /\ Ordered(todo, Due, target)
  BY DEF PlanInv, Ordered
<1>2. Head(todo) = todo[1] /\ 1 \in 1..Len(todo)
  BY ONLY <1>1
<1>3. Sound(Head(todo), Due, target)
  BY <1>1, <1>2 DEF Ordered
<1>. QED  BY <1>3 DEF Fails, Stop, Sound

LEMMA DueFacts ==
    ASSUME TRUE
    PROVE  /\ target = "android" => "flutter" \in Due /\ "native_current" \in Due
           /\ target = "android" /\ job.release => "in_the_APKs" \in Due /\ "signing" \in Due
           /\ target = "linux" => "build-native" \in Due /\ "flutter" \in Due
           /\ target = "macos" => /\ "build-native" \in Due
                                  /\ "bundle_dylibs" \in Due \/ "ad-hoc_bundle" \in Due
           /\ target = "ios" => "build-mobile" \in Due /\ "flutter" \in Due
           /\ target = "windows" => /\ "cargo_hv" \in Due /\ "cargo_veil" \in Due
                                    /\ "flutter" \in Due /\ "stage_veil" \in Due
BY DEF Due, DueIn

(* Dylibs are bundled by whichever of the two steps the plan has.          *)
LEMMA Bundled ==
    ASSUME TRUE
    PROVE  /\ Past("ad-hoc_bundle") <=> Past("bundle_dylibs")
           /\ Past("ad-hoc_bundle")' <=> Past("bundle_dylibs")'
BY RankFacts DEF Past

LEMMA MeaningKept ==
    ASSUME PlanInv, exit = "running", Advance, submodules' = submodules, key' = key
    PROVE  /\ \A l \in Required : Compiled(l)' = Compiled(l)
           /\ Signature' = Signature
<1>1. host' = host /\ job' = job /\ target' = target
  BY PlanGoesOn
<1>2. NativeNetwork' = NativeNetwork
  BY <1>1 DEF NativeNetwork
<1>. QED  BY <1>1, <1>2 DEF Compiled, Signature

LEMMA MadeKept ==
    ASSUME PlanInv, MadeInv, exit = "running", Advance,
           lib' = lib, submodules' = submodules, key' = key,
           Head(todo).name \in Due =>
               Head(todo).name \notin {"build-native", "build-mobile", "cargo_hv", "cargo_veil"}
    PROVE  MadeInv'
<1>1. target' = target /\ Outputs' = Outputs /\ \A name \in Due : Past(name)' => Past(name) \/ name = Head(todo).name
  BY PlanGoesOn
<1>2. ASSUME NEW libs \in SUBSET Required, Made(libs) PROVE Made(libs)'
  BY <1>2, <1>1, MeaningKept DEF Made
<1>3. {"hv"} \in SUBSET Required /\ {"veil"} \in SUBSET Required /\ Required \in SUBSET Required
  BY DEF Required
<1>4. /\ target \in {"linux", "macos"} /\ Past("build-native")' => Past("build-native")
      /\ target = "ios" /\ Past("build-mobile")' => Past("build-mobile")
      /\ target = "windows" /\ Past("cargo_hv")' => Past("cargo_hv")
      /\ target = "windows" /\ Past("cargo_veil")' => Past("cargo_veil")
  BY <1>1, DueFacts
<1>. QED  BY <1>1, <1>2, <1>3, <1>4 DEF MadeInv

LEMMA AppKept ==
    ASSUME PlanInv, AppInv, exit = "running", Advance,
           lib' = lib, bundle' = bundle, marks' = marks, submodules' = submodules, key' = key,
           Head(todo).name \in Due =>
               Head(todo).name \notin {"flutter", "stage_veil", "bundle_dylibs", "ad-hoc_bundle"}
    PROVE  AppInv'
<1>1. /\ target' = target /\ Outputs' = Outputs /\ job' = job /\ target \in Targets
      /\ \A name \in Due : Past(name)' => Past(name) \/ name = Head(todo).name
  BY PlanGoesOn DEF PlanInv
<1>2. /\ target # "macos" /\ Past("flutter")' => Past("flutter")
      /\ target = "windows" /\ Past("stage_veil")' => Past("stage_veil")
      /\ target = "macos" /\ Past("bundle_dylibs")' => Past("bundle_dylibs")
  BY <1>1, DueFacts, Bundled DEF Targets
<1>. QED  BY <1>1, <1>2, MeaningKept DEF AppInv

LEMMA FreshKept ==
    ASSUME lib' = lib, submodules' = submodules, Outputs' = Outputs
    PROVE  NothingStale => NothingStale'
<1>1. \A l \in Required : StagedFor(l)' = StagedFor(l)
  BY DEF StagedFor
<1>2. \A l \in Required, s \in Outputs : Fresh(l, s) => Fresh(l, s)'
  BY DEF Fresh
<1>3. \A l \in Required : StagedFor(l) \subseteq Outputs
  BY DEF StagedFor
<1>. QED  BY <1>1, <1>2, <1>3 DEF NothingStale

LEMMA GateKept ==
    ASSUME PlanInv, GateInv, exit = "running", Advance,
           lib' = lib, bundle' = bundle, submodules' = submodules, key' = key, stray' = stray,
           target = "android" /\ Head(todo).name = "native_current" =>
               NothingStale,
           target = "android" /\ job.release /\ Head(todo).name = "in_the_APKs" =>
               ApksHold,
           target = "android" /\ job.release /\ Head(todo).name = "signing" => key.properties # 0
    PROVE  GateInv'
<1>1. /\ target' = target /\ Outputs' = Outputs /\ job' = job /\ host' = host
      /\ \A name \in Due : Past(name)' => Past(name) \/ name = Head(todo).name
  BY PlanGoesOn
<1>2. /\ target = "android" /\ Past("native_current")' =>
             Past("native_current") \/ Head(todo).name = "native_current"
      /\ target = "android" /\ job.release /\ Past("in_the_APKs")' =>
             Past("in_the_APKs") \/ Head(todo).name = "in_the_APKs"
      /\ target = "android" /\ job.release /\ Past("signing")' =>
             Past("signing") \/ Head(todo).name = "signing"
  BY <1>1, DueFacts
<1>3. NothingStale => NothingStale'
  BY <1>1, FreshKept
<1>4. ApksHold => ApksHold'
  BY <1>1 DEF ApksHold, Loadable, Exports, Verdict
<1>. QED  BY <1>1, <1>2, <1>3, <1>4 DEF GateInv

OnCourse == PlanInv /\ MadeInv /\ AppInv /\ GateInv

(* A step that only looks: it may fail if no artifact depends on it.       *)
LEMMA QuietStep ==
    ASSUME OnCourse, exit = "running", Advance, UNCHANGED <<disk, lib, bundle, marks, stray>>,
           Head(todo).name \in Due =>
               Head(todo).name \notin {"build-native", "build-mobile", "cargo_hv", "cargo_veil",
                                       "flutter", "stage_veil", "bundle_dylibs", "ad-hoc_bundle"},
           target = "android" /\ Head(todo).name = "native_current" =>
               NothingStale,
           target = "android" /\ job.release /\ Head(todo).name = "in_the_APKs" =>
               ApksHold,
           target = "android" /\ job.release /\ Head(todo).name = "signing" => key.properties # 0
    PROVE  OnCourse'
<1>1. submodules' = submodules /\ key' = key
  BY DEF disk
<1>2. PlanInv'
  BY PlanGoesOn DEF OnCourse
<1>3. MadeInv'
  BY <1>1, MadeKept DEF OnCourse
<1>4. AppInv'
  BY <1>1, AppKept DEF OnCourse
<1>5. GateInv'
  BY <1>1, GateKept DEF OnCourse
<1>. QED  BY <1>2, <1>3, <1>4, <1>5 DEF OnCourse

(* Before the app is built there is nothing to say of it.                  *)
LEMMA EarlyStep ==
    ASSUME PlanInv, exit = "running", Advance, Rank(Head(todo).name) < 6
    PROVE  AppInv' /\ GateInv'
<1>1. /\ target' = target /\ Outputs' = Outputs /\ job' = job /\ host' = host /\ target \in Targets
      /\ \A name \in Due : Past(name)' => Past(name) \/ name = Head(todo).name
      /\ \A name : Past(name) => Rank(name) < Rank(Head(todo).name)
  BY PlanGoesOn DEF PlanInv
<1>2. Rank(Head(todo).name) \in Int
  BY RankType
<1>3. ASSUME NEW name \in Due, Rank(name) >= 6 PROVE ~Past(name)'
  <2>1. Rank(name) \in Int
    BY RankType
  <2>2. name # Head(todo).name
    <3>1. ASSUME name = Head(todo).name PROVE Rank(name) = Rank(Head(todo).name)
      BY <3>1
    <3>. QED  BY <3>1, <1>2, <1>3, <2>1
  <2>3. ~Past(name)
    <3>1. Past(name) => Rank(name) < Rank(Head(todo).name)
      BY <1>1
    <3>. QED  BY <3>1, <1>2, <1>3, <2>1
  <2>. QED  BY <1>1, <2>2, <2>3
<1>4. /\ target # "macos" => ~Past("flutter")'
      /\ target = "android" => ~Past("native_current")'
      /\ target = "android" /\ job.release => ~Past("in_the_APKs")' /\ ~Past("signing")'
      /\ target = "windows" => ~Past("stage_veil")'
      /\ target = "macos" => ~Past("bundle_dylibs")'
  <2>1. /\ Rank("flutter") >= 6 /\ Rank("native_current") >= 6 /\ Rank("in_the_APKs") >= 6
        /\ Rank("signing") >= 6 /\ Rank("stage_veil") >= 6 /\ Rank("bundle_dylibs") >= 6
        /\ Rank("ad-hoc_bundle") >= 6
    BY RankFacts
  <2>. QED  BY <1>1, <1>3, <2>1, DueFacts, Bundled DEF Targets
<1>. QED  BY <1>1, <1>4 DEF AppInv, GateInv

LEMMA OutputsAreSlots ==
    ASSUME PlanInv
    PROVE  Outputs \subseteq Slots
BY DEF PlanInv, Outputs, Slots

(* Whatever is compiled, is compiled from the sources as they are.         *)
LEMMA CompileFacts ==
    ASSUME PlanInv, exit = "running", exit' \in {"running", "done"},
           NEW libs \in SUBSET Required, Compile(libs, Outputs)
    PROVE  /\ Advance
           /\ \A l \in Required, s \in Outputs : lib'[l][s] \in {lib[l][s], Compiled(l)}
           /\ Head(todo).name \in Due => \A l \in libs, s \in Outputs : lib'[l][s] = Compiled(l)
<1>1. PICK done \in SUBSET (libs \X Outputs) :
        /\ lib' = [l \in Required |-> [s \in Slots |->
                    IF <<l, s>> \in done THEN Compiled(l) ELSE lib[l][s]]]
        /\ EndsBy(IF done = libs \X Outputs THEN "ok" ELSE "fail")
  BY DEF Compile
<1>2. \A l \in Required, s \in Outputs :
        lib'[l][s] = IF <<l, s>> \in done THEN Compiled(l) ELSE lib[l][s]
  BY <1>1, OutputsAreSlots
<1>3. CASE done = libs \X Outputs
  <2>1. Advance
    BY <1>1, <1>3 DEF EndsBy, Succeeds
  <2>2. \A l \in libs, s \in Outputs : <<l, s>> \in done
    BY <1>3
  <2>. QED  BY <1>2, <2>1, <2>2
<1>4. CASE done # libs \X Outputs
  <2>1. Fails
    BY <1>1, <1>4 DEF EndsBy
  <2>. QED  BY <1>2, <2>1, FailureOfDue
<1>. QED  BY <1>3, <1>4

LEMMA CompileStep ==
    ASSUME OnCourse, exit = "running", Advance, submodules' = submodules, key' = key,
           Rank(Head(todo).name) < 6,
           \A l \in Required, s \in Outputs : lib'[l][s] \in {lib[l][s], Compiled(l)},
           Head(todo).name \in Due /\ Head(todo).name \in {"build-native", "build-mobile"} =>
               \A l \in Required, s \in Outputs : lib'[l][s] = Compiled(l),
           Head(todo).name = "cargo_hv" /\ Head(todo).name \in Due =>
               \A s \in Outputs : lib'["hv"][s] = Compiled("hv"),
           Head(todo).name = "cargo_veil" /\ Head(todo).name \in Due =>
               \A s \in Outputs : lib'["veil"][s] = Compiled("veil")
    PROVE  OnCourse'
<1>1. /\ PlanInv' /\ target' = target /\ Outputs' = Outputs
      /\ \A name \in Due : Past(name)' => Past(name) \/ name = Head(todo).name
  BY PlanGoesOn DEF OnCourse
<1>2. AppInv' /\ GateInv'
  BY EarlyStep DEF OnCourse
<1>3. \A l \in Required : Compiled(l)' = Compiled(l)
  BY MeaningKept DEF OnCourse
<1>4. ASSUME NEW libs \in SUBSET Required,
             \A l \in libs, s \in Outputs : lib'[l][s] = Compiled(l)
      PROVE  Made(libs)'
  BY <1>4, <1>1, <1>3 DEF Made
<1>5. ASSUME NEW libs \in SUBSET Required, Made(libs) PROVE Made(libs)'
  <2>1. \A l \in libs, s \in Outputs : lib'[l][s] = Compiled(l)
    BY <1>5 DEF Made
  <2>. QED  BY <2>1, <1>4
<1>6. {"hv"} \in SUBSET Required /\ {"veil"} \in SUBSET Required /\ Required \in SUBSET Required
  BY DEF Required
<1>7. target \in {"linux", "macos"} /\ Past("build-native")' => Made(Required)'
  <2>1. target \in {"linux", "macos"} /\ Past("build-native")' =>
          Past("build-native") \/ ("build-native" = Head(todo).name /\ Head(todo).name \in Due)
    BY <1>1, DueFacts
  <2>. QED  BY <2>1, <1>4, <1>5, <1>6 DEF OnCourse, MadeInv
<1>8. target = "ios" /\ Past("build-mobile")' => Made(Required)'
  <2>1. target = "ios" /\ Past("build-mobile")' =>
          Past("build-mobile") \/ ("build-mobile" = Head(todo).name /\ Head(todo).name \in Due)
    BY <1>1, DueFacts
  <2>. QED  BY <2>1, <1>4, <1>5, <1>6 DEF OnCourse, MadeInv
<1>9. target = "windows" /\ Past("cargo_hv")' => Made({"hv"})'
  <2>1. target = "windows" /\ Past("cargo_hv")' =>
          Past("cargo_hv") \/ ("cargo_hv" = Head(todo).name /\ Head(todo).name \in Due)
    BY <1>1, DueFacts
  <2>. QED  BY <2>1, <1>4, <1>5, <1>6 DEF OnCourse, MadeInv
<1>10. target = "windows" /\ Past("cargo_veil")' => Made({"veil"})'
  <2>1. target = "windows" /\ Past("cargo_veil")' =>
          Past("cargo_veil") \/ ("cargo_veil" = Head(todo).name /\ Head(todo).name \in Due)
    BY <1>1, DueFacts
  <2>. QED  BY <2>1, <1>4, <1>5, <1>6 DEF OnCourse, MadeInv
<1>11. MadeInv'
  BY <1>1, <1>7, <1>8, <1>9, <1>10 DEF MadeInv
<1>. QED  BY <1>1, <1>2, <1>11 DEF OnCourse

(* The steps of builder.py, one by one.                                    *)
LEMMA CompilingStaysOnCourse ==
    ASSUME OnCourse, exit' \in {"running", "done"},
           BuildMobile \/ BuildMobileIos \/ BuildNative \/ \E l \in Required : Cargo(l)
    PROVE  OnCourse'
<1> USE RankFacts
<1>0. PlanInv /\ {"hv"} \in SUBSET Required /\ {"veil"} \in SUBSET Required /\ Required \in SUBSET Required
  BY DEF OnCourse, Required
<1>1. CASE BuildMobile
  <2>1. /\ exit = "running" /\ Head(todo).name = "build-mobile" /\ target = "android"
        /\ Compile({"hv"}, Outputs) /\ submodules' = submodules /\ key' = key
    BY <1>1 DEF BuildMobile, At, disk
  <2>2. "build-mobile" \notin Due
    BY <2>1 DEF Due, DueIn
  <2>3. Advance /\ \A l \in Required, s \in Outputs : lib'[l][s] \in {lib[l][s], Compiled(l)}
    BY <1>0, <2>1, CompileFacts
  <2>. QED  BY <2>1, <2>2, <2>3, CompileStep
<1>2. CASE BuildMobileIos
  <2>1. /\ exit = "running" /\ Head(todo).name = "build-mobile" /\ target = "ios"
        /\ submodules' = submodules /\ key' = key
    BY <1>2 DEF BuildMobileIos, At
  <2>2. "build-mobile" \in Due
    BY <2>1, DueFacts
  <2>3. Compile(Required, Outputs)
    <3>1. ~Fails
      BY <1>0, <2>1, <2>2, FailureOfDue
    <3>. QED  BY <1>2, <3>1 DEF BuildMobileIos
  <2>4. /\ Advance /\ \A l \in Required, s \in Outputs : lib'[l][s] = Compiled(l)
        /\ \A l \in Required, s \in Outputs : lib'[l][s] \in {lib[l][s], Compiled(l)}
    BY <1>0, <2>1, <2>2, <2>3, CompileFacts
  <2>. QED  BY <2>1, <2>4, CompileStep
<1>3. CASE BuildNative
  <2>1. /\ exit = "running" /\ Head(todo).name = "build-native"
        /\ submodules' = submodules /\ key' = key /\ UNCHANGED <<disk, bundle, marks, stray>>
    BY <1>3 DEF BuildNative, At, disk
  <2>2. CASE Compile(Required, Outputs)
    <3>1. /\ Advance
          /\ "build-native" \in Due => \A l \in Required, s \in Outputs : lib'[l][s] = Compiled(l)
          /\ \A l \in Required, s \in Outputs : lib'[l][s] \in {lib[l][s], Compiled(l)}
      BY <1>0, <2>1, <2>2, CompileFacts
    <3>. QED  BY <2>1, <3>1, CompileStep
  <2>3. CASE Fails /\ lib' = lib
    <3>1. Advance /\ "build-native" \notin Due
      BY <1>0, <2>1, <2>3, FailureOfDue
    <3>. QED  BY <2>1, <2>3, <3>1, QuietStep
  <2>. QED  BY <1>3, <2>2, <2>3 DEF BuildNative
<1>4. ASSUME NEW l \in Required, Cargo(l) PROVE OnCourse'
  <2>1. /\ exit = "running" /\ Head(todo).name = (IF l = "hv" THEN "cargo_hv" ELSE "cargo_veil")
        /\ Compile({l}, Outputs) /\ submodules' = submodules /\ key' = key
    BY <1>4 DEF Cargo, At, disk
  <2>2. /\ Advance
        /\ Head(todo).name \in Due => \A s \in Outputs : lib'[l][s] = Compiled(l)
        /\ \A k \in Required, s \in Outputs : lib'[k][s] \in {lib[k][s], Compiled(k)}
    <3>1. {l} \in SUBSET Required
      OBVIOUS
    <3>. QED  BY <1>0, <2>1, <3>1, CompileFacts
  <2>3. l = "hv" \/ l = "veil"
    BY DEF Required
  <2>4. /\ Rank(Head(todo).name) < 6 /\ Head(todo).name \notin {"build-native", "build-mobile"}
        /\ Head(todo).name = "cargo_hv" => l = "hv"
        /\ Head(todo).name = "cargo_veil" => l = "veil"
    BY <2>1, <2>3
  <2>. QED  BY <2>1, <2>2, <2>4, CompileStep
<1>. QED  BY <1>1, <1>2, <1>3, <1>4

LEMMA LookingStaysOnCourse ==
    ASSUME OnCourse, exit' \in {"running", "done"},
           \/ BuildWhisper \/ StageHv \/ CheckAndroidFresh \/ CheckLinuxFresh \/ CheckMediaStaged
           \/ CheckApks \/ CheckSigning \/ CheckBundleEngine \/ CheckIosEngine \/ CheckMacosBundle
    PROVE  OnCourse'
<1>0. PlanInv
  BY DEF OnCourse
<1>1. CASE BuildWhisper
  <2>1. /\ exit = "running" /\ Head(todo).name = "whisper_wrapper"
        /\ UNCHANGED <<disk, lib, bundle, marks, stray>> /\ (Fails \/ Advance)
    BY <1>1 DEF BuildWhisper, At, Succeeds
  <2>. QED  BY <1>0, <2>1, FailureOfDue, QuietStep
<1>2. CASE StageHv
  <2>1. /\ exit = "running" /\ Head(todo).name = "stage_hv"
        /\ UNCHANGED <<disk, lib, bundle, marks, stray>> /\ Advance
    BY <1>2 DEF StageHv, At, Succeeds, built
  <2>. QED  BY <2>1, QuietStep
<1>3. CASE CheckLinuxFresh \/ CheckMediaStaged \/ CheckBundleEngine \/ CheckIosEngine \/ CheckMacosBundle
  <2>1. /\ exit = "running"
        /\ Head(todo).name \in {"linux_current", "media_staged", "engine_in_the_bundle",
                                "iOS_engine", "in_the_macOS_bundle"}
        /\ UNCHANGED <<disk, lib, bundle, marks, stray>> /\ (Fails \/ Advance)
    BY <1>3 DEF CheckLinuxFresh, CheckMediaStaged, CheckBundleEngine, CheckIosEngine,
                CheckMacosBundle, Gate, At, Succeeds, built
  <2>. QED  BY <1>0, <2>1, FailureOfDue, QuietStep
<1>4. CASE CheckAndroidFresh
  <2>1. /\ exit = "running" /\ Head(todo).name = "native_current"
        /\ UNCHANGED <<disk, lib, bundle, marks, stray>>
        /\ (NothingStale /\ Advance) \/ Fails
    BY <1>4 DEF CheckAndroidFresh, NothingStale, Gate, At, Succeeds, built
  <2>2. Advance /\ (target = "android" => NothingStale)
    BY <1>0, <2>1, FailureOfDue, DueFacts
  <2>. QED  BY <2>1, <2>2, QuietStep
<1>5. CASE CheckApks
  <2>1. /\ exit = "running" /\ Head(todo).name = "in_the_APKs"
        /\ UNCHANGED <<disk, lib, bundle, marks, stray>>
        /\ (ApksHold /\ Advance) \/ Fails
    BY <1>5 DEF CheckApks, ApksHold, Gate, At, Succeeds, built
  <2>2. Advance /\ (target = "android" /\ job.release => ApksHold)
    BY <1>0, <2>1, FailureOfDue, DueFacts
  <2>. QED  BY <2>1, <2>2, QuietStep
<1>6. CASE CheckSigning
  <2> DEFINE P == key.properties # 0
  <2>1. /\ exit = "running" /\ Head(todo).name = "signing"
        /\ UNCHANGED <<disk, lib, bundle, marks, stray>>
        /\ (P /\ Advance) \/ Fails
    BY <1>6 DEF CheckSigning, Gate, At, Succeeds, built
  <2>2. Advance /\ (target = "android" /\ job.release => P)
    BY <1>0, <2>1, FailureOfDue, DueFacts
  <2>. QED  BY <2>1, <2>2, QuietStep
<1>. QED  BY <1>1, <1>2, <1>3, <1>4, <1>5, <1>6

LEMMA NotYet ==
    ASSUME PlanInv, exit = "running", Advance, NEW name \in Due,
           name # Head(todo).name, Rank(name) >= Rank(Head(todo).name)
    PROVE  ~Past(name)'
<1>1. /\ Past(name)' => Past(name) \/ name = Head(todo).name
      /\ Past(name) => Rank(name) < Rank(Head(todo).name)
  BY PlanGoesOn
<1>2. Rank(name) \in Int /\ Rank(Head(todo).name) \in Int
  BY RankType
<1>. QED  BY <1>1, <1>2

LEMMA EngineFacts ==
    ASSUME NEW s \in Slots
    PROVE  EngineOf(s) \in EngineSlots
<1>1. PICK t \in Targets, release \in BOOLEAN : s \in Out(t, release)
  BY DEF Slots
<1>2. CASE t = "android"
  BY <1>1, <1>2 DEF Out, EngineOf, EngineSlots
<1>3. CASE t # "android"
  <2>1. s[1] = t
    BY <1>1, <1>3 DEF Out
  <2>. QED  BY <1>1, <1>3, <2>1 DEF EngineOf, EngineSlots, Targets
<1>. QED  BY <1>2, <1>3

(* gradle, CMake or Xcode: on Windows and macOS more comes later.          *)
LEMMA FlutterStaysOnCourse ==
    ASSUME OnCourse, ShapeInv, exit' \in {"running", "done"}, Flutter
    PROVE  OnCourse'
<1>0. /\ PlanInv /\ target \in Targets /\ exit = "running" /\ Head(todo).name = "flutter"
      /\ UNCHANGED <<disk, wrapper, stray>> /\ submodules' = submodules /\ key' = key /\ engine' = engine
      /\ job.release \in BOOLEAN /\ Outputs \subseteq Slots
  BY OutputsAreSlots DEF OnCourse, Flutter, At, disk, PlanInv
<1>1. CASE Fails /\ UNCHANGED <<lib, bundle, marks>>
  <2>1. Advance /\ "flutter" \notin Due
    BY <1>0, <1>1, FailureOfDue
  <2>. QED  BY <1>0, <1>1, <2>1, QuietStep
<1>2. CASE Links /\ Package(Rebuilt)
  <2>1. /\ Advance /\ lib' = Rebuilt
        /\ bundle' = [s \in Slots |-> IF s \in Outputs THEN Packaged(s, lib') ELSE bundle[s]]
        /\ marks' = [define |-> NetworkDefine(job.network), signature |-> Signature]
    BY <1>2 DEF Package, Succeeds
  <2>2. /\ PlanInv' /\ target' = target /\ Outputs' = Outputs /\ job' = job
    BY <1>0, <2>1, PlanGoesOn
  <2>3. Signature' = Signature
    BY <1>0, <2>1, MeaningKept
  <2>4. MadeInv'
    <3>1. CASE target = "android"
      BY <2>2, <3>1 DEF MadeInv
    <3>2. CASE target # "android"
      <4>1. lib' = lib
        BY <2>1, <3>2 DEF Rebuilt
      <4>. QED  BY <1>0, <2>1, <4>1, MadeKept DEF OnCourse
    <3>. QED  BY <3>1, <3>2
  <2>5. GateInv'
    <3>1. /\ target = "android" => ~Past("native_current")'
          /\ target = "android" /\ job.release => ~Past("in_the_APKs")' /\ ~Past("signing")'
      BY <1>0, <2>1, NotYet, DueFacts, RankFacts
    <3>. QED  BY <2>2, <3>1 DEF GateInv
  <2>6. /\ target = "windows" => ~Past("stage_veil")'
        /\ target = "macos" => ~Past("bundle_dylibs")'
    BY <1>0, <2>1, NotYet, DueFacts, RankFacts, Bundled
  <2>7. ASSUME target # "macos", NEW s \in Outputs
        PROVE  /\ bundle'[s].hv = lib'["hv"][s]
               /\ target # "windows" => bundle'[s].veil = lib'["veil"][s]
               /\ bundle'[s].engine = engine[EngineOf(s)]
    <3>1. bundle'[s] = Packaged(s, lib') /\ s \in Slots
      BY <1>0, <2>1, <2>7
    <3>2. CASE target = "windows"
      <4>1. Packaged(s, lib') = [bundle[s] EXCEPT !.hv = lib'["hv"][s], !.engine = engine[EngineOf(s)]]
        BY <3>2 DEF Packaged
      <4>2. DOMAIN bundle[s] = {"hv", "veil", "engine", "whisper"}
        BY <3>1 DEF ShapeInv
      <4>. QED  BY <3>1, <3>2, <4>1, <4>2
    <3>3. CASE target # "windows"
      BY <2>7, <3>1, <3>3 DEF Packaged
    <3>. QED  BY <3>2, <3>3
  <2>8. ASSUME target # "macos", NEW s \in Outputs
        PROVE  target # "android" /\ job.release => engine[EngineOf(s)] # "absent"
    BY <1>0, <1>2, <2>8 DEF Links, Targets
  <2>9. target = "android" => Signature # "refused"
    BY <1>2 DEF Links
  <2>10. /\ marks'.define = NetworkDefine(job.network)
         /\ marks'.signature = Signature
    BY <2>1
  <2>11. AppInv'
    <3>1. target' # "macos" /\ Past("flutter")' =>
         /\ marks'.define = NetworkDefine(job'.network)
         /\ \A s \in Outputs' :
               /\ bundle'[s].hv = lib'["hv"][s]
               /\ target' # "windows" => bundle'[s].veil = lib'["veil"][s]
               /\ target' # "android" /\ job'.release => bundle'[s].engine # "absent"
      BY <2>2, <2>7, <2>8, <2>10
    <3>. QED  BY <2>2, <2>3, <2>6, <2>9, <2>10, <3>1 DEF AppInv
  <2>. QED  BY <2>2, <2>4, <2>5, <2>11 DEF OnCourse
<1>. QED  BY <1>1, <1>2 DEF Flutter

LEMMA BundlingStaysOnCourse ==
    ASSUME OnCourse, exit' \in {"running", "done"}, BundleDylibs
    PROVE  OnCourse'
<1>0. /\ PlanInv /\ exit = "running" /\ Head(todo).name \in {"bundle_dylibs", "ad-hoc_bundle"}
      /\ UNCHANGED <<disk, lib, wrapper, stray>> /\ submodules' = submodules /\ key' = key
      /\ Outputs \subseteq Slots
  BY OutputsAreSlots DEF OnCourse, BundleDylibs, At, disk
<1>1. CASE Fails /\ UNCHANGED <<bundle, marks>>
  <2>1. Advance /\ Head(todo).name \notin Due
    BY <1>0, <1>1, FailureOfDue
  <2>. QED  BY <1>0, <1>1, <2>1, QuietStep
<1>2. CASE /\ Advance
           /\ bundle' = [s \in Slots |-> IF s \in Outputs THEN Dylibs(s) ELSE bundle[s]]
  <2>1. /\ PlanInv' /\ target' = target /\ Outputs' = Outputs
        /\ Sound(Head(todo), Due, target)
    BY <1>0, <1>2, PlanGoesOn
  <2>2. target = "macos"
    BY <1>0, <2>1 DEF Sound
  <2>3. MadeInv'
    BY <1>0, <1>2, MadeKept DEF OnCourse
  <2>4. GateInv'
    BY <2>1, <2>2 DEF GateInv
  <2>5. \A s \in Outputs : bundle'[s].hv = lib["hv"][s] /\ bundle'[s].veil = lib["veil"][s]
    BY <1>0, <1>2 DEF Dylibs
  <2>6. AppInv'
    BY <1>0, <2>1, <2>2, <2>5 DEF AppInv
  <2>. QED  BY <2>1, <2>3, <2>4, <2>6 DEF OnCourse
<1>. QED  BY <1>1, <1>2 DEF BundleDylibs, Succeeds

LEMMA StagingStaysOnCourse ==
    ASSUME OnCourse, ShapeInv, exit' \in {"running", "done"}, StageVeil \/ StageWhisper
    PROVE  OnCourse'
<1>0. /\ PlanInv /\ exit = "running" /\ Advance /\ target \in Targets
      /\ UNCHANGED <<disk, lib, wrapper, marks, stray>> /\ submodules' = submodules /\ key' = key
      /\ Outputs \subseteq Slots
  BY OutputsAreSlots DEF OnCourse, StageVeil, StageWhisper, At, disk, Succeeds, PlanInv
<1>1. /\ PlanInv' /\ target' = target /\ Outputs' = Outputs /\ job' = job /\ host' = host
      /\ \A name \in Due : Past(name)' => Past(name) \/ name = Head(todo).name
  BY <1>0, PlanGoesOn
<1>2. Signature' = Signature
  BY <1>0, MeaningKept
<1>3. Head(todo).name \in {"stage_veil", "stage_whisper"}
  BY DEF StageVeil, StageWhisper, At
<1>4. MadeInv'
  BY <1>0, <1>3, MadeKept DEF OnCourse
<1>5. target # "macos" /\ Past("flutter")' => Past("flutter")
  BY <1>0, <1>1, <1>3, DueFacts DEF Targets
<1>6. ASSUME NEW s \in Outputs
      PROVE  /\ DOMAIN bundle[s] = {"hv", "veil", "engine", "whisper"} /\ s \in Slots
  BY <1>0 DEF ShapeInv
<1>7. CASE StageVeil
  <2>1. ASSUME NEW s \in Outputs
        PROVE  /\ bundle'[s].hv = bundle[s].hv /\ bundle'[s].engine = bundle[s].engine
               /\ bundle'[s].veil = lib["veil"][s]
    <3>1. bundle'[s] = [bundle[s] EXCEPT !.veil = lib["veil"][s]]
      BY <1>6, <1>7 DEF StageVeil
    <3>. QED  BY <1>6, <3>1
  <2>2. /\ target = "macos" => ~Past("bundle_dylibs")'
        /\ target = "android" => ~Past("native_current")'
        /\ target = "android" /\ job.release => ~Past("in_the_APKs")' /\ ~Past("signing")'
    <3>1. Head(todo).name = "stage_veil"
      BY <1>7 DEF StageVeil, At
    <3>. QED  BY <1>0, <3>1, NotYet, DueFacts, RankFacts, Bundled
  <2>3. GateInv'
    BY <1>1, <2>2 DEF GateInv
  <2>4. AppInv'
    BY <1>0, <1>1, <1>2, <1>5, <2>1, <2>2 DEF OnCourse, AppInv
  <2>. QED  BY <1>1, <1>4, <2>3, <2>4 DEF OnCourse
<1>8. CASE StageWhisper
  <2>1. ASSUME NEW s \in Outputs
        PROVE  /\ bundle'[s].hv = bundle[s].hv /\ bundle'[s].engine = bundle[s].engine
               /\ bundle'[s].veil = bundle[s].veil
    <3>1. bundle'[s] = [bundle[s] EXCEPT !.whisper = TRUE]
      BY <1>6, <1>8 DEF StageWhisper
    <3>. QED  BY <1>6, <3>1
  <2>2. Head(todo).name = "stage_whisper"
    BY <1>8 DEF StageWhisper, At
  <2>3. /\ target = "macos" /\ Past("bundle_dylibs")' => Past("bundle_dylibs")
        /\ target = "windows" /\ Past("stage_veil")' => Past("stage_veil")
        /\ target = "android" /\ Past("native_current")' => Past("native_current")
        /\ target = "android" /\ job.release /\ Past("in_the_APKs")' => Past("in_the_APKs")
        /\ target = "android" /\ job.release /\ Past("signing")' => Past("signing")
    BY <1>1, <2>2, DueFacts, Bundled
  <2>4. (NothingStale => NothingStale') /\ (ApksHold => ApksHold')
    <3>1. NothingStale => NothingStale'
      BY <1>0, <1>1, FreshKept
    <3>2. \A s \in Outputs : \A l \in Required : bundle'[s][l] = bundle[s][l]
      BY <2>1 DEF Required
    <3>3. ApksHold => ApksHold'
      BY <1>0, <1>1, <2>1, <3>2 DEF ApksHold, Loadable, Exports, Verdict
    <3>. QED  BY <3>1, <3>3
  <2>5. GateInv'
    BY <1>0, <1>1, <2>3, <2>4 DEF OnCourse, GateInv
  <2>6. AppInv'
    BY <1>0, <1>1, <1>2, <1>5, <2>1, <2>3 DEF OnCourse, AppInv
  <2>. QED  BY <1>1, <1>4, <2>5, <2>6 DEF OnCourse
<1>. QED  BY <1>7, <1>8

LEMMA BuilderStaysOnCourse ==
    ASSUME OnCourse, ShapeInv, exit' \in {"running", "done"}, BuilderNext
    PROVE  OnCourse'
BY CompilingStaysOnCourse, LookingStaysOnCourse, FlutterStaysOnCourse, BundlingStaysOnCourse,
   StagingStaysOnCourse DEF BuilderNext

-----------------------------------------------------------------------------
(* The rest of the machine.                                                *)

LEMMA ShapeKept ==
    ASSUME ShapeInv, [Next]_vars
    PROVE  ShapeInv'
<1> DEFINE Kinds == {"hv", "veil", "engine", "whisper"}
<1>1. engine' \in [EngineSlots -> Engines]
  <2>1. CASE engine' = engine
    BY <2>1 DEF ShapeInv
  <2>2. CASE NameEngine
    <3>1. engine' = engine \/ \E got \in Received : engine' = [engine EXCEPT ![Staged] = got]
      BY <2>2 DEF NameEngine
    <3>. QED  BY <3>1 DEF ShapeInv, Received, Engines
  <2>3. CASE BuildMobileIos
    <3>1. engine' = engine \/ engine' = [engine EXCEPT ![<<"ios", "any">>] = "good"]
      BY <2>3 DEF BuildMobileIos
    <3>. QED  BY <3>1 DEF ShapeInv, Engines
  <2>4. CASE \E line \in Lines : Start(line)
    BY <2>4, <2>1 DEF Start, StartRun, disk
  <2>5. CASE Skip \/ Killed \/ PrintNote \/ NewShell
    BY <2>5, <2>1 DEF Skip, Killed, PrintNote, NewShell, disk
  <2>6. CASE \E l \in Required : Edit(l)
    BY <2>6, <2>1 DEF Edit
  <2>7. CASE DepsNext
    BY <2>1, <2>2, <2>7 DEF DepsNext, CheckSubmodules, EngineIsThere, EngineNowhere, AskRelease,
       AskRun, DownloadArtifact, Unpack, WhisperIsThere, WhisperInit, WhisperFetch,
       FetchTranslate, Report, disk
  <2>8. CASE PrepareNext
    BY <2>1, <2>7, <2>8 DEF PrepareNext, FlutterMissing, InstallRustup, RunCommand, PlaceSdk,
       ChmodSdk, UpdateSubmodules, SignLater, Generate, RunKeytool, Adopt, OpenProperties,
       WriteProperties, disk
  <2>9. CASE BuilderNext
    BY <2>1, <2>3, <2>9 DEF BuilderNext, BuildMobile, BuildNative, Cargo, BuildWhisper, Flutter,
       BundleDylibs, StageHv, StageVeil, StageWhisper, CheckAndroidFresh, CheckLinuxFresh,
       CheckMediaStaged, CheckApks, CheckSigning, CheckBundleEngine, CheckIosEngine,
       CheckMacosBundle, Gate, disk
  <2>10. CASE UNCHANGED vars
    BY <2>1, <2>10 DEF vars, disk
  <2>. QED  BY <2>4, <2>5, <2>6, <2>8, <2>9, <2>10 DEF Next
<1>2. DOMAIN bundle' = Slots /\ \A s \in Slots : DOMAIN bundle'[s] = Kinds
  <2>1. CASE bundle' = bundle
    BY <2>1 DEF ShapeInv
  <2>3. CASE Flutter
    <3>1. CASE Package(Rebuilt)
      <4>1. bundle' = [s \in Slots |-> IF s \in Outputs THEN Packaged(s, Rebuilt) ELSE bundle[s]]
        BY <3>1 DEF Package
      <4>2. \A s \in Slots : DOMAIN Packaged(s, Rebuilt) = Kinds
        BY DEF Packaged, ShapeInv, NothingIn
      <4>. QED  BY <4>1, <4>2 DEF ShapeInv
    <3>. QED  BY <2>1, <2>3, <3>1 DEF Flutter
  <2>4. CASE BundleDylibs
    <3>1. \A s \in Slots : DOMAIN Dylibs(s) = Kinds
      BY DEF Dylibs
    <3>. QED  BY <2>1, <2>4, <3>1 DEF BundleDylibs, ShapeInv
  <2>5. CASE StageVeil
    BY <2>5 DEF StageVeil, ShapeInv
  <2>6. CASE StageWhisper
    BY <2>6 DEF StageWhisper, ShapeInv
  <2>7. CASE BuilderNext
    BY <2>1, <2>3, <2>4, <2>5, <2>6, <2>7 DEF BuilderNext, BuildMobile, BuildMobileIos,
       BuildNative, Cargo, BuildWhisper, StageHv, CheckAndroidFresh, CheckLinuxFresh,
       CheckMediaStaged, CheckApks, CheckSigning, CheckBundleEngine, CheckIosEngine,
       CheckMacosBundle, Gate, built
  <2>8. CASE bundle' = bundle \/ BuilderNext
    BY <2>1, <2>7, <2>8
  <2>9. bundle' = bundle \/ BuilderNext
    BY DEF Next, vars, built, Start, Edit
  <2>. QED  BY <2>8, <2>9
<1>. QED  BY <1>1, <1>2 DEF ShapeInv

(* No step of prepare.py or of a fetch is in the plan of a build.          *)
LEMMA PrepareIsElsewhere ==
    ASSUME PlanInv, PrepareNext
    PROVE  FALSE
<1>1. ASSUME exit = "running" PROVE Head(todo).name \in BuildSteps
  <2>1. todo \in Seq(StepRecord) /\ todo # <<>>
    BY <1>1 DEF PlanInv, Ordered
  <2>2. Head(todo) \in StepRecord
    BY ONLY <2>1
  <2>. QED  BY <2>2 DEF StepRecord
<1>2. exit = "running" =>
        Head(todo).name \notin Commands \cup
          {"flutter_SDK", "rustup", "command-line_tools", "git_submodules", "signing_key",
           "submodules_present", "engine", "whisper", "translate", "report"}
  BY <1>1 DEF BuildSteps, Commands
<1>3. ~DepsNext
  BY <1>2 DEF DepsNext, CheckSubmodules, EngineIsThere, EngineNowhere, AskRelease, Fetches,
     AskRun, DownloadArtifact, Unpack, NameEngine, WhisperIsThere, WhisperInit, WhisperFetch,
     FetchTranslate, Report, At, Within
<1>. QED  BY <1>2, <1>3 DEF PrepareNext, FlutterMissing, InstallRustup, RunCommand, PlaceSdk,
       ChmodSdk, UpdateSubmodules, SignLater, Generate, RunKeytool, Adopt, OpenProperties,
       WriteProperties, At, Within

(* A build begins with a step of the first rank: nothing is past.          *)
LEMMA StartIsOnCourse ==
    ASSUME NEW line \in Lines, Start(line), Building'
    PROVE  OnCourse'
<1>1. /\ job' = line /\ host' = host /\ line.program = "build" /\ ~line.dry
      /\ exit' \in {"running", "done"}
  BY DEF Start, StartRun, Building
<1>2. /\ ~Refused(line) /\ ~PlanRefused(line) /\ exit' = "running"
      /\ todo' = BuildPlan(Target(line), line.release)
  BY <1>1 DEF Start, StartRun
<1>3. target' = Target(line)
  BY <1>1 DEF target, Target
<1>4. Target(line) \in Targets /\ line.release \in BOOLEAN
  BY <1>2, LinesAssumption DEF Refused
<1>5. PICK apple \in BOOLEAN : apple <=> host.apple
  OBVIOUS
<1>6. Due' = DueIn(Target(line), line.release, apple)
  BY <1>1, <1>3, <1>5 DEF Due, DueIn
<1>7. /\ Ordered(todo', Due', target') /\ Due' \subseteq Names(todo')
      /\ todo' # <<>> /\ Rank(Head(todo').name) = 1
  BY <1>2, <1>3, <1>4, <1>5, <1>6, PlanIsOrdered
<1>8. target' # "macos" => job'.network \in {"unset", "prod", "testnet"}
  BY <1>1, <1>2, <1>3, LinesAssumption DEF PlanRefused
<1>9. PlanInv'
  BY <1>1, <1>2, <1>3, <1>4, <1>7, <1>8 DEF PlanInv
<1>10. ASSUME NEW name PROVE ~Past(name)'
  <2>1. Rank(name) \in 1..10
    BY RankType
  <2>. QED  BY <1>7, <2>1 DEF Past
<1>11. MadeInv' /\ AppInv' /\ GateInv'
  BY <1>10 DEF MadeInv, AppInv, GateInv
<1>. QED  BY <1>9, <1>11 DEF OnCourse

(* Only Start changes the command line.                                    *)
RunGoesOn == exit = "running" /\ job' = job /\ host' = host

LEMMA EndsOfRun ==
    ASSUME TRUE
    PROVE  /\ Succeeds => job' = job /\ host' = host
           /\ Fails => job' = job /\ host' = host
           /\ Aborts => job' = job /\ host' = host
           /\ EndsBy("ok") => job' = job /\ host' = host
           /\ EndsBy("fail") => job' = job /\ host' = host
           /\ \A s : Proceeds(s) => job' = job /\ host' = host
BY DEF Advance, Stop, Succeeds, Fails, Aborts, EndsBy, Proceeds

LEMMA DepsGoOn ==
    ASSUME DepsNext
    PROVE  RunGoesOn
<1> USE DEF RunGoesOn, At, Within
<1>1. CASE CheckSubmodules
  BY <1>1, EndsOfRun DEF CheckSubmodules, Outcome
<1>2. CASE EngineIsThere \/ EngineNowhere
  BY <1>2, EndsOfRun DEF EngineIsThere, EngineNowhere, Outcome
<1>3. CASE AskRelease
  BY <1>3, EndsOfRun DEF AskRelease, Fetches, Outcome, Degrade
<1>4. CASE AskRun
  BY <1>4, EndsOfRun DEF AskRun, Fetches, Outcome
<1>5. CASE DownloadArtifact
  BY <1>5, EndsOfRun DEF DownloadArtifact, Outcome, Degrade
<1>6. CASE Unpack
  BY <1>6, EndsOfRun DEF Unpack, Outcome, Degrade
<1>7. CASE NameEngine
  BY <1>7, EndsOfRun DEF NameEngine, Outcome, Degrade
<1>8. CASE WhisperIsThere \/ WhisperFetch
  BY <1>8, EndsOfRun DEF WhisperIsThere, WhisperFetch, Outcome
<1>9. CASE WhisperInit
  BY <1>9, EndsOfRun DEF WhisperInit, Outcome, Degrade
<1>10. CASE FetchTranslate
  BY <1>10, EndsOfRun DEF FetchTranslate, Outcome
<1>11. CASE Report
  BY <1>11, EndsOfRun DEF Report
<1>. QED  BY <1>1, <1>2, <1>3, <1>4, <1>5, <1>6, <1>7, <1>8, <1>9, <1>10, <1>11 DEF DepsNext

LEMMA PrepareGoesOn ==
    ASSUME PrepareNext
    PROVE  RunGoesOn
<1> USE DEF RunGoesOn, At, Within
<1>1. CASE FlutterMissing
  BY <1>1, EndsOfRun DEF FlutterMissing
<1>2. ASSUME NEW outcome \in {"ok", "fail"}, InstallRustup(outcome) PROVE RunGoesOn
  BY <1>2, EndsOfRun DEF InstallRustup
<1>3. ASSUME NEW outcome \in {"ok", "fail"}, NEW name \in Commands, RunCommand(name, outcome)
      PROVE  RunGoesOn
  BY <1>3, EndsOfRun DEF RunCommand
<1>4. CASE PlaceSdk
  BY <1>4, EndsOfRun DEF PlaceSdk
<1>5. CASE ChmodSdk
  BY <1>5, EndsOfRun DEF ChmodSdk
<1>6. CASE UpdateSubmodules
  BY <1>6, EndsOfRun DEF UpdateSubmodules
<1>7. CASE SignLater
  BY <1>7, EndsOfRun DEF SignLater
<1>8. CASE Generate
  BY <1>8, EndsOfRun DEF Generate
<1>9. CASE RunKeytool
  BY <1>9, EndsOfRun DEF RunKeytool
<1>10. CASE Adopt
  BY <1>10, EndsOfRun DEF Adopt
<1>11. CASE OpenProperties
  BY <1>11 DEF OpenProperties, run
<1>12. CASE WriteProperties
  BY <1>12, EndsOfRun DEF WriteProperties
<1>. QED  BY <1>1, <1>2, <1>3, <1>4, <1>5, <1>6, <1>7, <1>8, <1>9, <1>10, <1>11, <1>12, DepsGoOn
     DEF PrepareNext

LEMMA BuilderGoesOn ==
    ASSUME BuilderNext
    PROVE  RunGoesOn
<1> USE DEF RunGoesOn, At
<1>1. CASE BuildMobile
  BY <1>1, EndsOfRun DEF BuildMobile, Compile
<1>2. CASE BuildMobileIos
  BY <1>2, EndsOfRun DEF BuildMobileIos, Compile
<1>3. CASE BuildNative
  BY <1>3, EndsOfRun DEF BuildNative, Compile
<1>4. ASSUME NEW l \in Required, Cargo(l) PROVE RunGoesOn
  BY <1>4, EndsOfRun DEF Cargo, Compile
<1>5. CASE BuildWhisper
  BY <1>5, EndsOfRun DEF BuildWhisper
<1>6. CASE Flutter
  BY <1>6, EndsOfRun DEF Flutter, Package
<1>7. CASE BundleDylibs
  BY <1>7, EndsOfRun DEF BundleDylibs
<1>8. CASE StageHv \/ StageVeil \/ StageWhisper
  BY <1>8, EndsOfRun DEF StageHv, StageVeil, StageWhisper
<1>9. CASE CheckAndroidFresh \/ CheckLinuxFresh \/ CheckMediaStaged \/ CheckApks
  BY <1>9, EndsOfRun DEF CheckAndroidFresh, CheckLinuxFresh, CheckMediaStaged, CheckApks, Gate
<1>10. CASE CheckSigning \/ CheckBundleEngine \/ CheckIosEngine \/ CheckMacosBundle
  BY <1>10, EndsOfRun DEF CheckSigning, CheckBundleEngine, CheckIosEngine, CheckMacosBundle, Gate
<1>. QED  BY <1>1, <1>2, <1>3, <1>4, <1>5, <1>6, <1>7, <1>8, <1>9, <1>10 DEF BuilderNext

LEMMA NotesStayOnCourse ==
    ASSUME BuildInv, Building', UNCHANGED <<deps, sdk, built, edits>>,
           Skip \/ Killed \/ PrintNote \/ NewShell
    PROVE  OnCourse'
<1>1. ~Killed /\ ~NewShell
  BY DEF Killed, NewShell, Building
<1>2. /\ exit = "running" /\ Advance /\ UNCHANGED <<disk, lib, bundle, marks, stray>>
      /\ Head(todo).skip \/ Head(todo).name \in Notes
  <2>1. CASE Skip
    BY <2>1 DEF Skip, built
  <2>2. CASE PrintNote
    BY <2>2 DEF PrintNote, At, Succeeds, built
  <2>. QED  BY <1>1, <2>1, <2>2
<1>3. OnCourse
  BY <1>2 DEF Advance, Building, BuildInv, OnCourse
<1>4. Head(todo).name \notin Due
  <2>1. Sound(Head(todo), Due, target)
    BY <1>2, <1>3, PlanGoesOn DEF OnCourse
  <2>2. \A name \in Notes : name \notin Due
    BY DEF Notes, Due, DueIn
  <2>. QED  BY <1>2, <2>1, <2>2 DEF Sound
<1>5. /\ target = "android" => Head(todo).name # "native_current"
      /\ target = "android" /\ job.release => Head(todo).name \notin {"in_the_APKs", "signing"}
  BY <1>4, DueFacts
<1>. QED  BY <1>2, <1>3, <1>4, <1>5, QuietStep

LEMMA BuildInvKept ==
    ASSUME BuildInv, [Next]_vars
    PROVE  BuildInv'
<1>0. ShapeInv /\ ShapeInv'
  BY ShapeKept DEF BuildInv
<1> SUFFICES ASSUME Building' PROVE OnCourse'
  BY <1>0 DEF BuildInv, OnCourse
<1>1. CASE \E line \in Lines : Start(line)
  BY <1>1, StartIsOnCourse
<1>2. CASE UNCHANGED vars
  <2>1. /\ UNCHANGED <<host, job, todo, exit, submodules, key>>
        /\ UNCHANGED <<lib, bundle, marks, stray>>
    BY <1>2 DEF vars, run, disk, built
  <2>2. OnCourse
    BY <2>1 DEF BuildInv, OnCourse, Building
  <2>3. target' = target /\ Outputs' = Outputs /\ Due' = Due
    BY <2>1 DEF target, Target, Outputs, Due
  <2>4. /\ \A name : Past(name)' <=> Past(name)
        /\ \A l \in Required : Compiled(l)' = Compiled(l)
        /\ Signature' = Signature
    BY <2>1, <2>3 DEF Past, Compiled, NativeNetwork, Signature
  <2>5. PlanInv'
    BY <2>1, <2>2, <2>3, <2>4 DEF OnCourse, PlanInv
  <2>6. MadeInv'
    BY <2>1, <2>2, <2>3, <2>4 DEF OnCourse, MadeInv, Made, Required
  <2>7. AppInv'
    BY <2>1, <2>2, <2>3, <2>4 DEF OnCourse, AppInv
  <2>8. GateInv'
    <3>1. NothingStale => NothingStale'
      BY <2>1, <2>3, FreshKept
    <3>2. ApksHold => ApksHold'
      BY <2>1, <2>3 DEF ApksHold, Loadable, Exports, Verdict
    <3>. QED  BY <2>1, <2>2, <2>3, <2>4, <3>1, <3>2 DEF OnCourse, GateInv
  <2>. QED  BY <2>5, <2>6, <2>7, <2>8 DEF OnCourse
<1>3. CASE (Skip \/ Killed \/ PrintNote \/ NewShell) /\ UNCHANGED <<deps, sdk, built, edits>>
  BY <1>3, NotesStayOnCourse
<1>4. CASE PrepareNext
  <2>1. Building
    BY <1>4, PrepareGoesOn DEF RunGoesOn, Building
  <2>. QED  BY <2>1, <1>4, PrepareIsElsewhere DEF BuildInv
<1>5. CASE BuilderNext
  <2>1. Building
    BY <1>5, BuilderGoesOn DEF RunGoesOn, Building
  <2>. QED  BY <1>0, <2>1, <1>5, BuilderStaysOnCourse DEF BuildInv, OnCourse, Building
<1>6. CASE \E l \in Required : Edit(l)
  BY <1>6 DEF Edit, Building
<1>. QED  BY <1>1, <1>2, <1>3, <1>4, <1>5, <1>6 DEF Next

LEMMA BuildInvAtFirst ==
    ASSUME Init
    PROVE  BuildInv
<1>1. ~Building
  BY DEF Init, Building
<1>2. PICK m \in Machines : engine = m.engine
  BY DEF Init
<1>3. engine \in [EngineSlots -> Engines]
  BY <1>2, MachinesAssumption
<1>4. DOMAIN bundle = Slots /\ \A s \in Slots : DOMAIN bundle[s] = {"hv", "veil", "engine", "whisper"}
  <2>1. DOMAIN NothingIn = {"hv", "veil", "engine", "whisper"}
    BY DEF NothingIn
  <2>. QED  BY <2>1 DEF Init
<1>. QED  BY <1>1, <1>3, <1>4 DEF BuildInv, ShapeInv

LEMMA BuildInvHolds == Spec => []BuildInv
<1>1. Init => BuildInv
  BY BuildInvAtFirst
<1>2. BuildInv /\ [Next]_vars => BuildInv'
  BY BuildInvKept
<1>. QED  BY <1>1, <1>2, PTL DEF Spec

(* When it has ended well, everything is past.                             *)
LEMMA GreenIsPast ==
    ASSUME BuildInv, Green
    PROVE  OnCourse /\ \A name : Past(name)
<1>1. OnCourse
  BY DEF Green, Building, BuildInv, OnCourse
<1>2. todo = <<>>
  BY <1>1 DEF Green, OnCourse, PlanInv
<1>. QED  BY <1>1, <1>2 DEF Past

LEMMA OutputsExist ==
    ASSUME target \in Targets
    PROVE  \E s : s \in Outputs
<1>1. CASE target = "android"
  BY <1>1, SupportAssumption DEF Outputs, Out
<1>2. CASE target = "ios"
  BY <1>2 DEF Outputs, Out
<1>3. CASE target \notin {"android", "ios"}
  BY <1>3 DEF Outputs, Out
<1>. QED  BY <1>1, <1>2, <1>3

(* No artifact carries a library older than its sources, whichever target, *)
(* profile and host, and whatever broke off, was killed or was skipped in  *)
(* the runs before; only a debug APK may lack one, in some of its ABIs     *)
(* (builder.py, line 367).                                                 *)
THEOREM ArtifactsAreCurrent == Spec => []ShipsCurrentCode
<1>1. BuildInv => ShipsCurrentCode
  <2> SUFFICES ASSUME BuildInv, Green, NEW l \in Required
               PROVE  /\ \A s \in Outputs : LeftOut(l, s) \/ bundle[s][l].time = submodules[l].time
                      /\ \E s \in Outputs : ~LeftOut(l, s)
    BY DEF ShipsCurrentCode
  <2>1. OnCourse /\ (\A name : Past(name)) /\ target \in Targets
    BY GreenIsPast DEF OnCourse, PlanInv
  <2>2. (l = "hv" \/ l = "veil") /\ "hv" \in Required /\ "veil" \in Required
    BY DEF Required
  <2>3. \A s \in Outputs : bundle[s][l] = lib[l][s]
    BY <2>1, <2>2 DEF OnCourse, AppInv, Targets
  <2>4. CASE target = "android"
    <3>1. StagedFor(l) # {} /\ \A s \in StagedFor(l) : Fresh(l, s)
      BY <2>1, <2>4 DEF OnCourse, GateInv, NothingStale
    <3>2. ASSUME NEW s \in Outputs
          PROVE  bundle[s][l] = NoLib \/ bundle[s][l].time = submodules[l].time
      BY <2>3, <3>1 DEF StagedFor, Fresh
    <3>3. job.release => \A s \in Outputs : bundle[s][l] # NoLib
      BY <2>1, <2>4 DEF OnCourse, GateInv, ApksHold
    <3>4. job.release \in BOOLEAN
      BY <2>1 DEF OnCourse, PlanInv
    <3>5. \E s \in Outputs : bundle[s][l] # NoLib
      BY <2>3, <3>1 DEF StagedFor
    <3>. QED  BY <2>4, <3>2, <3>3, <3>4, <3>5 DEF LeftOut
  <2>5. CASE target # "android"
    <3>1. ASSUME NEW s \in Outputs PROVE bundle[s][l].time = submodules[l].time
      <4>1. lib[l][s] = Compiled(l)
        BY <2>1, <2>2, <2>5 DEF OnCourse, MadeInv, Made, Targets
      <4>. QED  BY <2>3, <4>1 DEF Compiled
    <3>. QED  BY <2>1, <2>5, <3>1, OutputsExist DEF LeftOut
  <2>. QED  BY <2>4, <2>5
<1>. QED  BY <1>1, BuildInvHolds, PTL

(* A release for others has a call engine in every ABI; in an APK it is    *)
(* one that a loader can load and, where a host can read it, is not stale, *)
(* and the APKs are signed with the key of the app, with nothing           *)
(* unpublished beside them (builder.py, line 622).                         *)
THEOREM ReleasesAreWhole == Spec => []ReleaseIsWhole
<1>1. BuildInv => ReleaseIsWhole
  <2> SUFFICES ASSUME BuildInv, Green, job.release, target # "macos"
               PROVE  /\ \A s \in Outputs : bundle[s].engine # "absent"
                      /\ target = "android" =>
                           /\ \A s \in Outputs :
                                 /\ bundle[s].engine # "torn"
                                 /\ host.bash /\ host.nm => bundle[s].engine # "stale"
                           /\ marks.signature = "release" /\ ~stray
    BY DEF ReleaseIsWhole
  <2>1. AppInv /\ GateInv /\ \A name : Past(name)
    BY GreenIsPast DEF OnCourse
  <2>2. CASE target = "android"
    <3>1. /\ ~stray /\ key.properties # 0
          /\ \A s \in Outputs : Loadable(bundle[s].engine) /\ Exports(bundle[s].engine)
      BY <2>1, <2>2 DEF GateInv, ApksHold
    <3>2. marks.signature = Signature /\ Signature # "refused"
      BY <2>1, <2>2 DEF AppInv
    <3>3. Signature = "release"
      BY <3>1, <3>2 DEF Signature
    <3>4. ASSUME NEW s \in Outputs
          PROVE  /\ bundle[s].engine # "absent" /\ bundle[s].engine # "torn"
                 /\ host.bash /\ host.nm => bundle[s].engine # "stale"
      BY <3>1 DEF Loadable, Exports, Verdict
    <3>. QED  BY <3>1, <3>2, <3>3, <3>4
  <2>3. CASE target # "android"
    BY <2>1, <2>3 DEF AppInv
  <2>. QED  BY <2>2, <2>3
<1>. QED  BY <1>1, BuildInvHolds, PTL

(* On Linux and Windows the compiled-in seeds and the app belong to the    *)
(* same network, whatever XVEIL_NETWORK and the profile say.               *)
THEOREM DesktopNetworksAgree == Spec => []DesktopHalvesAgree
<1>1. BuildInv => DesktopHalvesAgree
  <2> SUFFICES ASSUME BuildInv, Green, target \in {"linux", "windows"}, NEW s \in Outputs
               PROVE  bundle[s].veil.network = DartNetwork(marks.define, job.release)
    BY DEF DesktopHalvesAgree, Agreed
  <2>1. OnCourse /\ (\A name : Past(name))
    BY GreenIsPast
  <2>2. job.release \in BOOLEAN /\ job.network \in {"unset", "prod", "testnet"}
    BY <2>1 DEF OnCourse, PlanInv
  <2>3. bundle[s].veil = lib["veil"][s]
    BY <2>1 DEF OnCourse, AppInv
  <2>4. lib["veil"][s] = Compiled("veil")
    BY <2>1 DEF OnCourse, MadeInv, Made, Required
  <2>5. bundle[s].veil.network = SeedFeature(job.network, job.release)
    BY <2>2, <2>3, <2>4 DEF Compiled, NativeNetwork, SeedFeature
  <2>6. marks.define = job.network
    BY <2>1 DEF OnCourse, AppInv, NetworkDefine
  <2>. QED  BY <2>2, <2>5, <2>6 DEF SeedFeature, DartNetwork
<1>. QED  BY <1>1, BuildInvHolds, PTL

-----------------------------------------------------------------------------
(* A fetch: what its report says is there is there.                        *)

Truly(item) ==
    CASE item = "engine" -> engine[Staged] # "absent" /\ Usable(engine[Staged])
      [] item = "whisper" -> whisper = "pinned"
      [] item = "translate" -> translate = Checkouts
      [] OTHER -> \A m \in DOMAIN submodules : submodules[m].is # "empty"

(* After k - 1 steps of the plan: which items have an outcome.             *)
Reported(k) ==
    CASE k = 1 -> {}
      [] k = 2 -> {"submodules"}
      [] k = 3 -> {"submodules", "engine"}
      [] k = 4 -> {"submodules", "engine", "whisper"}
      [] OTHER -> Items

FetchSteps ==
    [name : {"submodules_present", "engine", "whisper", "translate", "report"},
     optional : BOOLEAN, skip : BOOLEAN]

FetchAt(k) ==
    /\ todo \in Seq(FetchSteps) /\ Len(todo) = 6 - k
    /\ \A i \in 1..Len(todo) : todo[i] = FetchPlan[k + i - 1]
    /\ {o.item : o \in outcomes} = Reported(k)

Fetching == job.program = "fetch" /\ exit = "running"

StageInv ==
    /\ exit = "running" => ~Refused(job) /\ ~job.dry
    /\ stage \in {"granted", "zip", "part"} => engine[Staged] = "absent"
OutcomesInv == \A o \in outcomes : o.item \in Items /\ (o.got => Truly(o.item))
ProgressInv ==
    /\ Fetching => \E k \in 1..5 : FetchAt(k)
    /\ job.program = "fetch" /\ ~Refused(job) /\ ~job.dry /\ exit \in {"done", "aborted"} =>
         exit = "done" /\ {o.item : o \in outcomes} = Items

FetchInv == StageInv /\ OutcomesInv /\ ProgressInv

FetchStages == {"granted", "zip", "part"}

LEMMA SameTarget ==
    ASSUME job' = job, host' = host
    PROVE  target' = target /\ Staged' = Staged /\ (Refused(job)' <=> Refused(job))
BY DEF target, Target, Staged, Refused

LEMMA StagedFacts ==
    ASSUME StageInv, exit = "running"
    PROVE  Staged \in EngineSlots
<1>1. target \in Targets
  BY DEF StageInv, Refused, target
<1>. QED  BY <1>1, SupportAssumption DEF Staged, EngineSlots

(* Nothing is downloaded over an engine that is there.                     *)
LEMMA DepsStages ==
    ASSUME StageInv, DepsNext
    PROVE  stage' \notin FetchStages \/ (engine' = engine /\ engine[Staged] = "absent")
<1> USE EndFacts DEF Ended, FetchStages
<1>1. CASE CheckSubmodules \/ EngineIsThere \/ EngineNowhere
  BY <1>1 DEF CheckSubmodules, EngineIsThere, EngineNowhere, Outcome
<1>2. CASE AskRelease \/ AskRun
  BY <1>2 DEF AskRelease, AskRun, Fetches, Present, Outcome, Degrade, Proceeds, disk
<1>3. CASE DownloadArtifact \/ Unpack
  BY <1>3 DEF DownloadArtifact, Unpack, Within, StageInv, Outcome, Degrade, Proceeds, disk
<1>4. CASE NameEngine
  BY <1>4 DEF NameEngine, Outcome, Degrade
<1>5. CASE WhisperIsThere \/ WhisperInit \/ WhisperFetch
  BY <1>5 DEF WhisperIsThere, WhisperInit, WhisperFetch, Outcome, Degrade, Proceeds
<1>6. CASE FetchTranslate \/ Report
  BY <1>6 DEF FetchTranslate, Report, Outcome
<1>. QED  BY <1>1, <1>2, <1>3, <1>4, <1>5, <1>6 DEF DepsNext

LEMMA PrepareStages ==
    ASSUME StageInv, PrepareNext
    PROVE  stage' \notin FetchStages \/ (engine' = engine /\ engine[Staged] = "absent")
<1> USE EndFacts DEF Ended, FetchStages
<1>1. CASE FlutterMissing \/ ChmodSdk \/ SignLater \/ WriteProperties
  BY <1>1 DEF FlutterMissing, ChmodSdk, SignLater, WriteProperties
<1>2. ASSUME NEW outcome \in {"ok", "fail"}, InstallRustup(outcome) PROVE stage' = ""
  BY <1>2 DEF InstallRustup
<1>3. ASSUME NEW outcome \in {"ok", "fail"}, NEW name \in Commands, RunCommand(name, outcome)
      PROVE  stage' = ""
  BY <1>3 DEF RunCommand
<1>4. CASE PlaceSdk \/ Generate \/ RunKeytool \/ Adopt
  BY <1>4 DEF PlaceSdk, Generate, RunKeytool, Adopt, Proceeds
<1>5. CASE UpdateSubmodules
  BY <1>5 DEF UpdateSubmodules
<1>6. CASE OpenProperties
  BY <1>6 DEF OpenProperties, Within, run
<1>. QED  BY <1>1, <1>2, <1>3, <1>4, <1>5, <1>6, DepsStages DEF PrepareNext

LEMMA BuilderStages ==
    ASSUME BuilderNext
    PROVE  stage' = ""
<1> USE EndFacts DEF Ended
<1>1. CASE BuildMobile \/ BuildMobileIos \/ BuildNative
  BY <1>1 DEF BuildMobile, BuildMobileIos, BuildNative, Compile
<1>2. ASSUME NEW l \in Required, Cargo(l) PROVE stage' = ""
  BY <1>2 DEF Cargo, Compile
<1>3. CASE BuildWhisper \/ Flutter \/ BundleDylibs
  BY <1>3 DEF BuildWhisper, Flutter, Package, BundleDylibs
<1>4. CASE StageHv \/ StageVeil \/ StageWhisper
  BY <1>4 DEF StageHv, StageVeil, StageWhisper
<1>5. CASE CheckAndroidFresh \/ CheckLinuxFresh \/ CheckMediaStaged \/ CheckApks
  BY <1>5 DEF CheckAndroidFresh, CheckLinuxFresh, CheckMediaStaged, CheckApks, Gate
<1>6. CASE CheckSigning \/ CheckBundleEngine \/ CheckIosEngine \/ CheckMacosBundle
  BY <1>6 DEF CheckSigning, CheckBundleEngine, CheckIosEngine, CheckMacosBundle, Gate
<1>. QED  BY <1>1, <1>2, <1>3, <1>4, <1>5, <1>6 DEF BuilderNext

(* The steps between and around: nothing is fetched by them.               *)
Around == Skip \/ Killed \/ PrintNote \/ NewShell \/ (\E l \in Required : Edit(l)) \/ UNCHANGED vars

LEMMA AroundFacts ==
    ASSUME Around
    PROVE  /\ job' = job /\ host' = host /\ UNCHANGED <<engine, whisper>>
           /\ exit' = "running" => exit = "running"
           /\ stage' \in {"", stage}
           /\ submodules' = submodules \/ \E l \in Required : Edit(l)
<1>1. CASE Skip \/ PrintNote
  BY <1>1, EndsOfRun, EndFacts DEF Ended, Skip, PrintNote, Succeeds, At, disk
<1>2. CASE Killed \/ NewShell
  BY <1>2 DEF Killed, NewShell, disk
<1>3. CASE \E l \in Required : Edit(l)
  BY <1>3 DEF Edit
<1>4. CASE UNCHANGED vars
  BY <1>4 DEF vars, run, disk
<1>. QED  BY <1>1, <1>2, <1>3, <1>4 DEF Around

LEMMA Steps ==
    ASSUME [Next]_vars
    PROVE  \/ \E line \in Lines : Start(line)
           \/ Around /\ UNCHANGED deps
           \/ PrepareNext /\ RunGoesOn
           \/ BuilderNext /\ RunGoesOn /\ UNCHANGED deps
BY PrepareGoesOn, BuilderGoesOn DEF Next, Around, Edit, vars

LEMMA StageKept ==
    ASSUME StageInv, [Next]_vars, ~\E line \in Lines : Start(line)
    PROVE  StageInv'
<1>1. /\ job' = job /\ host' = host
      /\ exit' = "running" => exit = "running"
      /\ stage' \notin FetchStages \/ (engine' = engine /\ engine[Staged] = "absent")
  <2>1. CASE Around
    BY <2>1, AroundFacts DEF StageInv, FetchStages
  <2>2. CASE PrepareNext /\ RunGoesOn
    BY <2>2, PrepareStages DEF RunGoesOn
  <2>3. CASE BuilderNext /\ RunGoesOn
    BY <2>3, BuilderStages DEF RunGoesOn, FetchStages
  <2>. QED  BY <2>1, <2>2, <2>3, Steps
<1>. QED  BY <1>1, SameTarget DEF StageInv, FetchStages

(* What is there stays there while the report is made.                     *)
Kept ==
    /\ job' = job /\ host' = host
    /\ engine' = engine \/ engine[Staged] = "absent" \/ engine'[Staged] = "good"
    /\ whisper' = whisper \/ whisper # "pinned" \/ whisper' = "pinned"
    /\ translate' = translate \/ translate # Checkouts \/ translate' = Checkouts
    /\ DOMAIN submodules' = DOMAIN submodules
    /\ \A m \in DOMAIN submodules : submodules[m].is # "empty" => submodules'[m].is # "empty"

LEMMA TrulyKept ==
    ASSUME Kept, NEW item, Truly(item)
    PROVE  Truly(item)'
<1>1. target' = target /\ Staged' = Staged /\ host' = host
  BY SameTarget DEF Kept
<1>2. CASE item = "engine"
  <2>1. engine[Staged] # "absent" /\ Usable(engine[Staged])
    BY <1>2 DEF Truly
  <2>2. engine'[Staged] = engine[Staged] \/ engine'[Staged] = "good"
    BY <2>1 DEF Kept
  <2>3. engine'[Staged] # "absent" /\ Usable(engine'[Staged])
    BY <2>1, <2>2 DEF Usable, Verdict
  <2>4. Usable(engine[Staged])' <=> Usable(engine'[Staged])
    BY <1>1 DEF Usable, Verdict
  <2>. QED  BY <1>1, <1>2, <2>3, <2>4 DEF Truly
<1>3. CASE item = "whisper"
  BY <1>3 DEF Truly, Kept
<1>4. CASE item = "translate"
  BY <1>4 DEF Truly, Kept
<1>5. CASE item \notin {"engine", "whisper", "translate"}
  BY <1>5 DEF Truly, Kept
<1>. QED  BY <1>2, <1>3, <1>4, <1>5

(* The outcomes of a step: none, or one that is true.                      *)
NewOutcome ==
    \/ outcomes' = outcomes
    \/ \E item \in Items : \E got :
          outcomes' = outcomes \cup {[item |-> item, got |-> got]} /\ (got => Truly(item)')

LEMMA OneOutcome ==
    ASSUME NEW item \in Items, NEW got, Outcome(item, got), got => Truly(item)'
    PROVE  NewOutcome
BY DEF Outcome, NewOutcome

LEMMA NoGain ==
    ASSUME NEW item \in Items, Outcome(item, FALSE) \/ Degrade(item)
    PROVE  NewOutcome
BY DEF Outcome, Degrade, NewOutcome

LEMMA DepsReport ==
    ASSUME StageInv, ShapeInv, DepsNext
    PROVE  Kept /\ NewOutcome
<1>0. /\ job' = job /\ host' = host /\ target' = target /\ Staged' = Staged
      /\ Staged \in EngineSlots /\ engine \in [EngineSlots -> Engines]
  BY DepsGoOn, SameTarget, StagedFacts DEF RunGoesOn, ShapeInv
<1>1. CASE CheckSubmodules
  <2>1. Kept
    BY <1>0, <1>1 DEF Kept, CheckSubmodules, disk
  <2>2. Outcome("submodules", \A m \in DOMAIN submodules : submodules[m].is # "empty")
    BY <1>1 DEF CheckSubmodules
  <2>3. (\A m \in DOMAIN submodules : submodules[m].is # "empty") => Truly("submodules")'
    BY <1>1 DEF CheckSubmodules, Truly, disk
  <2>. QED  BY <2>1, <2>2, <2>3, OneOutcome DEF Items
<1>2. CASE EngineIsThere
  <2>1. Kept
    BY <1>0, <1>2 DEF Kept, EngineIsThere, disk
  <2>2. Outcome("engine", Usable(engine[Staged])) /\ engine' = engine /\ Present
    BY <1>2 DEF EngineIsThere, disk
  <2>3. Usable(engine[Staged]) => Truly("engine")'
    BY <1>0, <2>2 DEF Truly, Usable, Verdict, Present
  <2>. QED  BY <2>1, <2>2, <2>3, OneOutcome DEF Items
<1>3. CASE EngineNowhere
  BY <1>0, <1>3, NoGain DEF Kept, EngineNowhere, disk, Items
<1>4. CASE AskRelease
  BY <1>0, <1>4, NoGain DEF Kept, NewOutcome, AskRelease, disk, Items
<1>5. CASE AskRun
  BY <1>0, <1>5, NoGain DEF Kept, NewOutcome, AskRun, disk, Items
<1>6. CASE DownloadArtifact \/ Unpack
  BY <1>0, <1>6, NoGain DEF Kept, NewOutcome, DownloadArtifact, Unpack, disk, Items
<1>7. CASE NameEngine
  <2>1. engine[Staged] = "absent"
    BY <1>7 DEF NameEngine, Within, StageInv
  <2>2. Kept
    BY <1>0, <1>7, <2>1 DEF Kept, NameEngine
  <2>3. CASE Degrade("engine")
    BY <2>2, <2>3, NoGain DEF Items
  <2>4. ASSUME NEW got \in Received, engine' = [engine EXCEPT ![Staged] = got],
               Outcome("engine", Usable(got))
        PROVE  NewOutcome
    <3>1. engine'[Staged] = got
      BY <1>0, <2>4
    <3>2. Usable(got) => Truly("engine")'
      BY <1>0, <3>1 DEF Truly, Usable, Verdict, Received
    <3>. QED  BY <2>4, <3>2, OneOutcome DEF Items
  <2>. QED  BY <1>7, <2>2, <2>3, <2>4 DEF NameEngine
<1>8. CASE WhisperIsThere
  <2>1. Kept
    BY <1>0, <1>8 DEF Kept, WhisperIsThere, disk
  <2>2. Outcome("whisper", whisper = "pinned") /\ whisper' = whisper
    BY <1>8 DEF WhisperIsThere, disk
  <2>3. whisper = "pinned" => Truly("whisper")'
    BY <2>2 DEF Truly
  <2>. QED  BY <2>1, <2>2, <2>3, OneOutcome DEF Items
<1>9. CASE WhisperInit
  BY <1>0, <1>9, NoGain DEF Kept, NewOutcome, WhisperInit, Items
<1>10. CASE WhisperFetch
  <2>1. Kept
    BY <1>0, <1>10 DEF Kept, WhisperFetch
  <2>2. CASE Outcome("whisper", FALSE)
    BY <2>1, <2>2, NoGain DEF Items
  <2>3. CASE Outcome("whisper", TRUE) /\ whisper' = "pinned"
    BY <2>1, <2>3, OneOutcome DEF Items, Truly
  <2>. QED  BY <1>10, <2>2, <2>3 DEF WhisperFetch
<1>11. CASE FetchTranslate
  <2>1. PICK cloned \in SUBSET (Checkouts \ translate) :
          /\ translate' = translate \cup cloned
          /\ Outcome("translate", translate \cup cloned = Checkouts)
    BY <1>11 DEF FetchTranslate
  <2>2. Kept
    BY <1>0, <1>11, <2>1 DEF Kept, FetchTranslate, disk
  <2>3. translate \cup cloned = Checkouts => Truly("translate")'
    BY <2>1 DEF Truly
  <2>. QED  BY <2>1, <2>2, <2>3, OneOutcome DEF Items
<1>12. CASE Report
  BY <1>0, <1>12 DEF Kept, NewOutcome, Report, disk
<1>. QED  BY <1>1, <1>2, <1>3, <1>4, <1>5, <1>6, <1>7, <1>8, <1>9, <1>10, <1>11, <1>12 DEF DepsNext

LEMMA PrepareReport ==
    ASSUME StageInv, ShapeInv, PrepareNext
    PROVE  Kept /\ NewOutcome
<1>0. job' = job /\ host' = host
  BY PrepareGoesOn DEF RunGoesOn
<1>1. CASE UpdateSubmodules
  <2>1. /\ UNCHANGED <<engine, whisper, deps>> /\ DOMAIN submodules' = DOMAIN submodules
        /\ \A m \in DOMAIN submodules : submodules'[m] = submodules[m] \/ submodules'[m].is = "pinned"
    BY <1>1 DEF UpdateSubmodules
  <2>. QED  BY <1>0, <2>1 DEF Kept, NewOutcome, deps
<1>2. CASE DepsNext
  BY <1>2, DepsReport
<1>3. CASE PrepareNext /\ ~UpdateSubmodules /\ ~DepsNext
  <2>1. UNCHANGED <<engine, whisper, submodules, deps>>
    BY <1>3 DEF PrepareNext, FlutterMissing, InstallRustup, RunCommand, PlaceSdk, ChmodSdk,
       SignLater, Generate, RunKeytool, Adopt, OpenProperties, WriteProperties, disk
  <2>. QED  BY <1>0, <2>1 DEF Kept, NewOutcome, deps
<1>. QED  BY <1>1, <1>2, <1>3

LEMMA BuilderReport ==
    ASSUME StageInv, ShapeInv, BuilderNext, UNCHANGED deps
    PROVE  Kept /\ NewOutcome
<1>0. job' = job /\ host' = host
  BY BuilderGoesOn DEF RunGoesOn
<1>1. UNCHANGED <<whisper, submodules>>
  BY DEF BuilderNext, BuildMobile, BuildMobileIos, BuildNative, Cargo, BuildWhisper, Flutter,
     BundleDylibs, StageHv, StageVeil, StageWhisper, CheckAndroidFresh, CheckLinuxFresh,
     CheckMediaStaged, CheckApks, CheckSigning, CheckBundleEngine, CheckIosEngine,
     CheckMacosBundle, Gate, disk
<1>2. engine' = engine \/ engine'[Staged] = "good"
  <2>1. CASE BuildMobileIos
    <3>1. /\ Staged = <<"ios", "any">> /\ Staged \in EngineSlots
      BY <2>1, StagedFacts DEF BuildMobileIos, Staged, At
    <3>2. engine' = engine \/ engine' = [engine EXCEPT ![<<"ios", "any">>] = "good"]
      BY <2>1 DEF BuildMobileIos
    <3>. QED  BY <3>1, <3>2 DEF ShapeInv
  <2>2. CASE ~BuildMobileIos
    BY <2>2 DEF BuilderNext, BuildMobile, BuildNative, Cargo, BuildWhisper, Flutter,
     BundleDylibs, StageHv, StageVeil, StageWhisper, CheckAndroidFresh, CheckLinuxFresh,
     CheckMediaStaged, CheckApks, CheckSigning, CheckBundleEngine, CheckIosEngine,
     CheckMacosBundle, Gate, disk
  <2>. QED  BY <2>1, <2>2
<1>. QED  BY <1>0, <1>1, <1>2 DEF Kept, NewOutcome, deps

LEMMA AroundReport ==
    ASSUME Around, UNCHANGED deps
    PROVE  Kept /\ NewOutcome
<1>1. job' = job /\ host' = host /\ UNCHANGED <<engine, whisper, translate, outcomes>>
  BY AroundFacts DEF deps
<1>2. CASE submodules' = submodules
  BY <1>1, <1>2 DEF Kept, NewOutcome
<1>3. ASSUME NEW l \in Required, Edit(l) PROVE Kept /\ NewOutcome
  <2>1. submodules' = [submodules EXCEPT ![l] = [is |-> "other", time |-> submodules[l].time + 1]]
    BY <1>3 DEF Edit
  <2>2. /\ DOMAIN submodules' = DOMAIN submodules
        /\ \A m \in DOMAIN submodules : submodules'[m] = submodules[m] \/ submodules'[m].is = "other"
    BY <2>1
  <2>. QED  BY <1>1, <2>2 DEF Kept, NewOutcome
<1>. QED  BY <1>2, <1>3, AroundFacts

LEMMA OutcomesKept ==
    ASSUME StageInv, ShapeInv, OutcomesInv, [Next]_vars, ~\E line \in Lines : Start(line)
    PROVE  OutcomesInv'
<1>1. Kept /\ NewOutcome
  BY Steps, AroundReport, PrepareReport, BuilderReport
<1>2. \A o \in outcomes : o.got => Truly(o.item)'
  BY <1>1, TrulyKept DEF OutcomesInv
<1>. QED  BY <1>1, <1>2 DEF NewOutcome, OutcomesInv

(* How far a fetch has come.                                               *)
StepFor(item) == IF item = "submodules" THEN "submodules_present" ELSE item

DepsMove ==
    \/ UNCHANGED <<todo, exit, outcomes>>
    \/ Advance /\ Head(todo).name = "report" /\ outcomes' = outcomes
    \/ \E item \in Items : \E got :
          /\ Advance /\ Head(todo).name = StepFor(item)
          /\ outcomes' = outcomes \cup {[item |-> item, got |-> got]}

LEMMA ItemMove ==
    ASSUME NEW item \in Items, NEW got, Outcome(item, got), Head(todo).name = StepFor(item)
    PROVE  DepsMove
BY DEF Outcome, Succeeds, DepsMove

LEMMA DepsMoves ==
    ASSUME DepsNext
    PROVE  DepsMove
<1> USE DEF At, Within, Items, StepFor
<1>1. CASE CheckSubmodules
  BY <1>1, ItemMove DEF CheckSubmodules
<1>2. CASE EngineIsThere \/ EngineNowhere
  BY <1>2, ItemMove DEF EngineIsThere, EngineNowhere
<1>3. CASE AskRelease
  BY <1>3, ItemMove DEF AskRelease, Fetches, Degrade, Proceeds, DepsMove
<1>4. CASE AskRun
  BY <1>4, ItemMove DEF AskRun, Fetches, Proceeds, DepsMove
<1>5. CASE DownloadArtifact \/ Unpack
  BY <1>5, ItemMove DEF DownloadArtifact, Unpack, Degrade, Proceeds, DepsMove
<1>6. CASE NameEngine
  BY <1>6, ItemMove DEF NameEngine, Degrade
<1>7. CASE WhisperIsThere \/ WhisperFetch
  BY <1>7, ItemMove DEF WhisperIsThere, WhisperFetch
<1>8. CASE WhisperInit
  BY <1>8, ItemMove DEF WhisperInit, Degrade, Proceeds, DepsMove
<1>9. CASE FetchTranslate
  BY <1>9, ItemMove DEF FetchTranslate
<1>10. CASE Report
  BY <1>10 DEF Report, Succeeds, DepsMove
<1>. QED  BY <1>1, <1>2, <1>3, <1>4, <1>5, <1>6, <1>7, <1>8, <1>9, <1>10 DEF DepsNext

LEMMA FetchPlanFacts ==
    ASSUME TRUE
    PROVE  /\ FetchPlan \in Seq(FetchSteps) /\ Len(FetchPlan) = 5
           /\ FetchPlan[1].name = "submodules_present" /\ FetchPlan[2].name = "engine"
           /\ FetchPlan[3].name = "whisper" /\ FetchPlan[4].name = "translate"
           /\ FetchPlan[5].name = "report"
           /\ \A k \in 1..5 : ~FetchPlan[k].skip
<1> DEFINE a == Step("submodules_present")  b == Optional(Step("engine"))
           c == Optional(Step("whisper"))   d == Optional(Step("translate"))
           e == Step("report")
<1>1. a \in FetchSteps /\ a.name = "submodules_present" /\ ~a.skip
  BY DEF FetchSteps, Step
<1>2. b \in FetchSteps /\ b.name = "engine" /\ ~b.skip
  BY DEF FetchSteps, Step, Optional
<1>3. c \in FetchSteps /\ c.name = "whisper" /\ ~c.skip
  BY DEF FetchSteps, Step, Optional
<1>4. d \in FetchSteps /\ d.name = "translate" /\ ~d.skip
  BY DEF FetchSteps, Step, Optional
<1>5. e \in FetchSteps /\ e.name = "report" /\ ~e.skip
  BY DEF FetchSteps, Step
<1>6. FetchPlan = <<a, b, c, d, e>>
  BY DEF FetchPlan
<1> HIDE DEF a, b, c, d, e
<1>7. /\ FetchPlan \in Seq(FetchSteps) /\ Len(FetchPlan) = 5 /\ FetchPlan[1] = a
      /\ FetchPlan[2] = b /\ FetchPlan[3] = c /\ FetchPlan[4] = d /\ FetchPlan[5] = e
  BY <1>1, <1>2, <1>3, <1>4, <1>5, <1>6
<1>8. \A k \in 1..5 : k = 1 \/ k = 2 \/ k = 3 \/ k = 4 \/ k = 5
  OBVIOUS
<1>9. \A k \in 1..5 : ~FetchPlan[k].skip
  BY <1>1, <1>2, <1>3, <1>4, <1>5, <1>7, <1>8
<1>. QED  BY <1>1, <1>2, <1>3, <1>4, <1>5, <1>7, <1>9

LEMMA FetchHead ==
    ASSUME NEW k \in 1..5, FetchAt(k)
    PROVE  /\ Head(todo) = FetchPlan[k] /\ Head(todo) \in FetchSteps /\ ~Head(todo).skip
           /\ Tail(todo) \in Seq(FetchSteps) /\ Len(Tail(todo)) = 6 - (k + 1)
           /\ \A i \in 1..Len(Tail(todo)) : Tail(todo)[i] = FetchPlan[k + 1 + i - 1]
           /\ Tail(todo) = <<>> <=> k = 5
<1>0. Len(<<>>) = 0 /\ k \in Int /\ k <= 5
  OBVIOUS
<1>1. todo \in Seq(FetchSteps) /\ Len(todo) = 6 - k /\ todo # <<>>
  <2>1. todo \in Seq(FetchSteps) /\ Len(todo) = 6 - k
    BY DEF FetchAt
  <2>2. 6 - k # 0
    BY <1>0
  <2>. QED  BY <1>0, <2>1, <2>2
<1>2. /\ Head(todo) = todo[1] /\ Head(todo) \in FetchSteps
      /\ Tail(todo) \in Seq(FetchSteps) /\ Len(Tail(todo)) = Len(todo) - 1
      /\ \A i \in 1..Len(Tail(todo)) : Tail(todo)[i] = todo[i + 1]
  BY ONLY <1>1, HeadTailProperties
<1>3. Head(todo) = FetchPlan[k]
  <2>1. 1 \in 1..Len(todo) /\ k + 1 - 1 = k
    BY <1>0, <1>1
  <2>2. todo[1] = FetchPlan[k + 1 - 1]
    BY <2>1 DEF FetchAt
  <2>. QED  BY <1>2, <2>1, <2>2
<1>4. Len(Tail(todo)) = 6 - (k + 1)
  BY <1>0, <1>1, <1>2
<1>5. ASSUME NEW i \in 1..Len(Tail(todo)) PROVE Tail(todo)[i] = FetchPlan[k + 1 + i - 1]
  <2>1. i + 1 \in 1..Len(todo) /\ k + (i + 1) - 1 = k + 1 + i - 1
    BY <1>0, <1>1, <1>2
  <2>2. todo[i + 1] = FetchPlan[k + (i + 1) - 1]
    BY <2>1 DEF FetchAt
  <2>. QED  BY <1>2, <2>1, <2>2
<1>6. Tail(todo) = <<>> <=> k = 5
  <2>1. 6 - (k + 1) = 0 <=> k = 5
    BY ONLY <1>0
  <2>2. Tail(todo) \in Seq(FetchSteps)
    BY <1>2
  <2>3. Tail(todo) = <<>> <=> Len(Tail(todo)) = 0
    BY ONLY <2>2, EmptySeq
  <2>. QED  BY ONLY <1>4, <2>1, <2>3
<1>. QED  BY <1>2, <1>3, <1>4, <1>5, <1>6, FetchPlanFacts

LEMMA FetchMove ==
    ASSUME NEW k \in 1..5, FetchAt(k), exit = "running", DepsMove
    PROVE  \/ exit' = "running" /\ \E n \in 1..5 : FetchAt(n)'
           \/ exit' = "done" /\ {o.item : o \in outcomes'} = Items
<1>0. /\ Head(todo) = FetchPlan[k]
      /\ Tail(todo) \in Seq(FetchSteps) /\ Len(Tail(todo)) = 6 - (k + 1)
      /\ \A i \in 1..Len(Tail(todo)) : Tail(todo)[i] = FetchPlan[k + 1 + i - 1]
      /\ Tail(todo) = <<>> <=> k = 5
  BY ONLY FetchHead, k \in 1..5, FetchAt(k)
<1>1. CASE UNCHANGED <<todo, exit, outcomes>>
  BY <1>1 DEF FetchAt
<1>2. k = 1 \/ k = 2 \/ k = 3 \/ k = 4 \/ k = 5
  OBVIOUS
<1>3. CASE Advance /\ Head(todo).name = "report" /\ outcomes' = outcomes
  <2>1. k = 5
    BY <1>0, <1>2, <1>3, FetchPlanFacts
  <2>2. exit' = "done"
    BY <1>0, <1>3, <2>1 DEF Advance
  <2>. QED  BY <1>3, <2>1, <2>2 DEF FetchAt, Reported
<1>4. ASSUME NEW item \in Items, NEW got, Advance, Head(todo).name = StepFor(item),
             outcomes' = outcomes \cup {[item |-> item, got |-> got]}
      PROVE  exit' = "running" /\ \E n \in 1..5 : FetchAt(n)'
  <2>1. /\ k = 1 => item = "submodules"
        /\ k = 2 => item = "engine"
        /\ k = 3 => item = "whisper"
        /\ k = 4 => item = "translate"
        /\ k # 5
    BY <1>0, <1>2, <1>4, FetchPlanFacts DEF StepFor, Items
  <2>2. k + 1 \in 1..5
    BY <1>2, <2>1
  <2>3. {o.item : o \in outcomes'} = {o.item : o \in outcomes} \cup {item}
    <3> DEFINE new == [item |-> item, got |-> got]
    <3>1. new.item = item
      OBVIOUS
    <3>2. outcomes' = outcomes \cup {new}
      BY <1>4
    <3> HIDE DEF new
    <3>. QED  BY <3>1, <3>2
  <2>4. Reported(k + 1) = Reported(k) \cup {item}
    BY <1>2, <2>1 DEF Reported, Items
  <2>5. {o.item : o \in outcomes'} = Reported(k + 1)
    BY <2>3, <2>4 DEF FetchAt
  <2>6. todo' = Tail(todo) /\ exit' = "running"
    BY <1>0, <1>4, <2>1 DEF Advance
  <2>7. FetchAt(k + 1)'
    BY <1>0, <2>5, <2>6 DEF FetchAt
  <2>. QED  BY <2>2, <2>6, <2>7
<1>. QED  BY <1>1, <1>3, <1>4 DEF DepsMove

LEMMA BuilderIsElsewhere ==
    ASSUME BuilderNext, exit = "running"
    PROVE  Head(todo).name \in BuildSteps
BY DEF BuilderNext, BuildMobile, BuildMobileIos, BuildNative, Cargo, BuildWhisper, Flutter,
       BundleDylibs, StageHv, StageVeil, StageWhisper, CheckAndroidFresh, CheckLinuxFresh,
       CheckMediaStaged, CheckApks, CheckSigning, CheckBundleEngine, CheckIosEngine,
       CheckMacosBundle, Gate, At, BuildSteps

LEMMA ProgressKept ==
    ASSUME StageInv, ProgressInv, [Next]_vars, ~\E line \in Lines : Start(line)
    PROVE  ProgressInv'
<1>0. job' = job /\ host' = host /\ (Refused(job)' <=> Refused(job))
  BY Steps, AroundFacts, SameTarget DEF RunGoesOn
<1>1. CASE job.program # "fetch"
  BY <1>0, <1>1 DEF ProgressInv, Fetching
<1> SUFFICES ASSUME job.program = "fetch" PROVE ProgressInv'
  BY <1>1
<1>2. CASE exit = "running"
  <2>1. PICK k \in 1..5 : FetchAt(k)
    BY <1>2 DEF ProgressInv, Fetching
  <2>2. ~Head(todo).skip /\ Head(todo).name \in {"submodules_present", "engine", "whisper", "translate", "report"}
    BY <2>1, FetchHead DEF FetchSteps
  <2>3. CASE DepsNext
    <3>1. \/ exit' = "running" /\ \E n \in 1..5 : FetchAt(n)'
          \/ exit' = "done" /\ {o.item : o \in outcomes'} = Items
      BY <1>2, <2>1, <2>3, DepsMoves, FetchMove
    <3>. QED  BY <1>0, <3>1 DEF ProgressInv, Fetching
  <2>4. CASE Around /\ UNCHANGED deps
    <3>1. ~Skip /\ ~PrintNote
      BY <2>2 DEF Skip, PrintNote, Notes, At
    <3>2. CASE Killed
      BY <3>2 DEF Killed, ProgressInv, Fetching
    <3>3. ~NewShell /\ ~\E l \in Required : Edit(l)
      BY <1>2 DEF NewShell, Edit
    <3>4. CASE UNCHANGED vars
      <4>1. UNCHANGED <<job, todo, exit, outcomes>>
        BY <3>4 DEF vars, run, deps
      <4>2. FetchAt(k)'
        BY <2>1, <4>1 DEF FetchAt
      <4>. QED  BY <1>0, <1>2, <4>1, <4>2 DEF ProgressInv, Fetching
    <3>. QED  BY <2>4, <3>1, <3>2, <3>3, <3>4 DEF Around
  <2>5. CASE PrepareNext /\ ~DepsNext
    <3>1. FALSE
      BY <2>2, <2>5 DEF PrepareNext, FlutterMissing, InstallRustup, RunCommand, PlaceSdk,
         ChmodSdk, UpdateSubmodules, SignLater, Generate, RunKeytool, Adopt, OpenProperties,
         WriteProperties, At, Within, Commands
    <3>. QED  BY <3>1
  <2>6. ~BuilderNext
    BY <1>2, <2>2, BuilderIsElsewhere DEF BuildSteps
  <2>. QED  BY <2>3, <2>4, <2>5, <2>6, Steps
<1>3. CASE exit # "running"
  <2>1. Around /\ UNCHANGED deps
    BY <1>3, Steps DEF RunGoesOn
  <2>2. exit' \in {"idle", exit} /\ outcomes' = outcomes
    BY <1>3, <2>1 DEF Around, Skip, Killed, PrintNote, At, NewShell, Edit, vars, run, deps
  <2>. QED  BY <1>0, <1>3, <2>2 DEF ProgressInv, Fetching
<1>. QED  BY <1>2, <1>3

LEMMA StartOfFetch ==
    ASSUME NEW line \in Lines, Start(line)
    PROVE  FetchInv'
<1>1. /\ job' = line /\ host' = host /\ stage' = "" /\ outcomes' = {}
      /\ exit' \in {"running", "done", "aborted"}
      /\ exit' = "running" => ~Refused(line) /\ ~line.dry
      /\ line.program = "fetch" /\ exit' = "running" => todo' = FetchPlan
      /\ line.program = "fetch" /\ ~Refused(line) /\ ~line.dry => exit' = "running"
  BY DEF Start, StartRun
<1>2. Refused(job)' <=> Refused(line)
  BY <1>1 DEF Refused, Target
<1>3. StageInv'
  BY <1>1, <1>2 DEF StageInv
<1>4. OutcomesInv'
  BY <1>1 DEF OutcomesInv
<1>5. Fetching' => FetchAt(1)'
  <2>1. {o.item : o \in outcomes'} = {}
    BY <1>1
  <2>2. \A i \in 1..5 : 1 + i - 1 = i
    OBVIOUS
  <2>3. Reported(1) = {}
    BY DEF Reported
  <2>4. Fetching' => todo' = FetchPlan
    BY <1>1 DEF Fetching
  <2>5. /\ FetchPlan \in Seq(FetchSteps) /\ Len(FetchPlan) = 6 - 1
        /\ \A i \in 1..Len(FetchPlan) : FetchPlan[i] = FetchPlan[1 + i - 1]
    <3>1. FetchPlan \in Seq(FetchSteps) /\ Len(FetchPlan) = 5
      BY FetchPlanFacts
    <3>. QED  BY ONLY <2>2, <3>1
  <2> SUFFICES ASSUME Fetching' PROVE FetchAt(1)'
    OBVIOUS
  <2>6. /\ todo' \in Seq(FetchSteps) /\ Len(todo') = 6 - 1
        /\ \A i \in 1..Len(todo') : todo'[i] = FetchPlan[1 + i - 1]
    BY ONLY <2>4, <2>5, Fetching'
  <2>7. FetchPlan' = FetchPlan
    BY DEF FetchPlan
  <2>. QED  BY ONLY <2>1, <2>3, <2>6, <2>7 DEF FetchAt, Reported
<1>6. ProgressInv'
  <2>1. Fetching' => \E k \in 1..5 : FetchAt(k)'
    BY <1>5
  <2>2. ~(job'.program = "fetch" /\ ~Refused(job)' /\ ~job'.dry /\ exit' \in {"done", "aborted"})
    BY <1>1, <1>2
  <2>. QED  BY <2>1, <2>2 DEF ProgressInv
<1>. QED  BY <1>3, <1>4, <1>6 DEF FetchInv

(* Whatever is missing and whatever GitHub answers, a fetch that is not    *)
(* killed ends in a report on all four items, and what a report has, the   *)
(* machine has: an engine that no symbol check has found stale, the pinned *)
(* whisper.cpp, every checkout.                                            *)
THEOREM FetchesAreReported == Spec => []FetchIsReported
<1>1. Init => FetchInv
  BY DEF Init, DepsInit, FetchInv, StageInv, OutcomesInv, ProgressInv, Fetching
<1>2. BuildInv /\ FetchInv /\ [Next]_vars => FetchInv'
  <2> SUFFICES ASSUME BuildInv, FetchInv, [Next]_vars PROVE FetchInv'
    OBVIOUS
  <2>1. CASE \E line \in Lines : Start(line)
    BY <2>1, StartOfFetch
  <2>2. CASE ~\E line \in Lines : Start(line)
    BY <2>2, StageKept, OutcomesKept, ProgressKept DEF FetchInv, BuildInv
  <2>. QED  BY <2>1, <2>2
<1>3. FetchInv => FetchIsReported
  <2> SUFFICES ASSUME FetchInv PROVE FetchIsReported
    OBVIOUS
  <2>1. \A o \in outcomes : o.got => Truly(o.item)
    BY DEF FetchInv, OutcomesInv
  <2>2. Usable(engine[Staged]) /\ host.nm => engine[Staged] # "stale"
    BY DEF Usable, Verdict
  <2>. QED  BY <2>1, <2>2 DEF FetchInv, ProgressInv, FetchIsReported, Truly
<1>. QED  BY <1>1, <1>2, <1>3, BuildInvHolds, PTL DEF Spec
=============================================================================
