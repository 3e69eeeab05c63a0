----------------------------- MODULE NativeDeps -----------------------------
(***************************************************************************)
(* The native dependencies that are not in the checkout                    *)
(* (scripts/xveil_native_deps.py): submodules, the call engine from a      *)
(* release or from a run's artifact, the whisper.cpp checkout and the      *)
(* translation checkouts.  Each leaves an outcome, and the last step       *)
(* reports them.  GitHub answers as it likes.                              *)
(***************************************************************************)
EXTENDS BuildSupport

CONSTANT Checkouts      \* CTranslate2 and SentencePiece

VARIABLES outcomes,     \* OUTCOMES of this process
          zip,          \* .engine.zip lies beside the engine
          partial,      \* the .part file lies beside the engine
          translate,    \* translation checkouts
          report        \* what the last step printed: "none", "all", "gaps"

deps == <<outcomes, zip, partial, translate, report>>

Items == {"submodules", "engine", "whisper", "translate"}

DepsInit ==
    /\ outcomes = {} /\ zip = FALSE /\ partial = FALSE
    /\ translate = {} /\ report = "none"

Outcome(item, got) ==
    /\ outcomes' = outcomes \cup {[item |-> item, got |-> got]}
    /\ Succeeds

(* Mutant: an Abort of a fetch is not turned into an entry of the report.  *)
DegradeNot(item) == Aborts /\ UNCHANGED outcomes

(* degrade(): a refusal raised in a fetch costs that item, not the run.    *)
Degrade(item) == Outcome(item, FALSE)

FetchPlan ==
    <<Step("submodules_present"), Optional(Step("engine")), Optional(Step("whisper")),
      Optional(Step("translate")), Step("report")>>

-----------------------------------------------------------------------------
(* check_submodules: populated or not; never moved.                        *)
CheckSubmodules ==
    /\ At("submodules_present")
    /\ Outcome("submodules", \A m \in DOMAIN submodules : submodules[m].is # "empty")
    /\ UNCHANGED <<disk, zip, partial, translate, report>>

-----------------------------------------------------------------------------
(* fetch_engine.                                                           *)

(* The one slot that a fetch for the target stages.                        *)
Staged == IF target = "android" THEN <<"android", MainAbi>> ELSE <<target, "any">>

(* Published for this machine: the engine of Linux and Windows runs on it. *)
Published == target = "android" \/ host.arch \in {"x86_64", "aarch64"}

Apple == target \in {"macos", "ios"}
Present == engine[Staged] # "absent"

(* _check_symbols takes what it cannot read for usable; a host without bash *)
(* ends in degrade.                                                        *)
Usable(e) == host.bash /\ Verdict(e) # "stale"

(* An engine that is there is judged, not replaced.                        *)
EngineIsThere ==
    /\ At("engine") /\ ~Apple /\ Present
    /\ Outcome("engine", Usable(engine[Staged]))
    /\ UNCHANGED <<disk, zip, partial, translate, report>>

(* Nothing is published for this target, this machine or this pin.         *)
EngineNowhere ==
    /\ At("engine")
    /\ Apple \/ (~Present /\ (~Published \/ host.pin = "none"))
    /\ Outcome("engine", FALSE)
    /\ UNCHANGED <<disk, zip, partial, translate, report>>

Fetches == At("engine") /\ ~Apple /\ ~Present /\ Published

(* ENGINE_RELEASE: the release or its asset is missing, or it is fetched.  *)
AskRelease ==
    /\ Fetches /\ host.pin = "release"
    /\ \/ Degrade("engine") /\ UNCHANGED partial
       \/ Proceeds("part") /\ partial' = TRUE /\ UNCHANGED outcomes
    /\ UNCHANGED <<disk, zip, translate, report>>

(* ENGINE_RUN: artifact_state can be asked without a token; every answer   *)
(* but "ok" is a gap with its own advice.                                  *)
States == {"ok", "expired", "absent", "no-run", "bad-token", "limited", "error"}

AskRun ==
    /\ Fetches /\ host.pin = "run"
    /\ \E state \in States :
         /\ state = "bad-token" => host.token
         /\ IF state = "ok" /\ host.token
              THEN Proceeds("granted") /\ UNCHANGED outcomes
              ELSE Outcome("engine", FALSE)
    /\ UNCHANGED <<disk, zip, partial, translate, report>>

(* The artifact: a refusal, or a whole archive beside its destination.     *)
DownloadArtifact ==
    /\ Within("engine", "granted")
    /\ \/ Degrade("engine") /\ UNCHANGED zip
       \/ Proceeds("zip") /\ zip' = TRUE /\ UNCHANGED outcomes
    /\ UNCHANGED <<disk, partial, translate, report>>

(* The archive is removed again, with or without the member.               *)
Unpack ==
    /\ Within("engine", "zip")
    /\ \/ Degrade("engine") /\ zip' = FALSE /\ UNCHANGED partial
       \/ Proceeds("part") /\ partial' = TRUE /\ UNCHANGED <<zip, outcomes>>
    /\ UNCHANGED <<disk, translate, report>>

(* The copy fails, or what it has copied gets its name and is judged.  The *)
(* member of an archive is whole; the answer to a release download may end *)
(* early without an error.                                                 *)
Received == {"good", "stale"} \cup (IF host.pin = "release" THEN {"clipped", "torn"} ELSE {})

NameEngine ==
    /\ Within("engine", "part")
    /\ zip' = FALSE
    /\ \/ Degrade("engine") /\ UNCHANGED <<engine, partial>>
       \/ \E got \in Received :
            /\ engine' = [engine EXCEPT ![Staged] = got]
            /\ partial' = FALSE
            /\ Outcome("engine", Usable(got))
    /\ UNCHANGED <<tools, home, submodules, whisper, key, translate, report>>

-----------------------------------------------------------------------------
(* fetch_whisper: a checkout that exists is never moved.                   *)

WhisperIsThere ==
    /\ At("whisper") /\ whisper # "absent"
    /\ Outcome("whisper", whisper = "pinned")
    /\ UNCHANGED <<disk, zip, partial, translate, report>>

(* git init, remote, fetch and checkout; what has begun is left behind.    *)
WhisperInit ==
    /\ At("whisper") /\ whisper = "absent"
    /\ \/ Degrade("whisper") /\ UNCHANGED whisper
       \/ Proceeds("cloning") /\ whisper' = "unborn" /\ UNCHANGED outcomes
    /\ UNCHANGED <<tools, home, submodules, engine, key, zip, partial, translate, report>>

WhisperFetch ==
    /\ Within("whisper", "cloning")
    /\ \/ Outcome("whisper", FALSE) /\ UNCHANGED whisper
       \/ Outcome("whisper", TRUE) /\ whisper' = "pinned"
    /\ UNCHANGED <<tools, home, submodules, engine, key, zip, partial, translate, report>>

-----------------------------------------------------------------------------
(* fetch_translate: cloned on request, each by itself, never built.        *)
FetchTranslate ==
    /\ At("translate")
    /\ \E cloned \in SUBSET (Checkouts \ translate) :
         /\ cloned # {} => job.translate
         /\ translate' = translate \cup cloned
         /\ Outcome("translate", translate \cup cloned = Checkouts)
    /\ UNCHANGED <<disk, zip, partial, report>>

(* report().                                                               *)
Report ==
    /\ At("report")
    /\ report' = IF \A o \in outcomes : o.got THEN "all" ELSE "gaps"
    /\ Succeeds
    /\ UNCHANGED <<disk, outcomes, zip, partial, translate>>

DepsNext ==
    \/ CheckSubmodules
    \/ EngineIsThere \/ EngineNowhere \/ AskRelease \/ AskRun \/ DownloadArtifact
    \/ Unpack \/ NameEngine
    \/ WhisperIsThere \/ WhisperInit \/ WhisperFetch
    \/ FetchTranslate \/ Report
=============================================================================
