------------------------------ MODULE Prepare -------------------------------
(***************************************************************************)
(* prepare.py: the toolchains of a machine, and the release signing key of *)
(* the app.  The identity of an Android app is its key: it is created once *)
(* and never overwritten.  Its plan ends with the native dependencies.     *)
(***************************************************************************)
EXTENDS NativeDeps

VARIABLE sdk            \* cmdline-tools/latest: "none", "placed" or "executable"

(* Parts of key: the password a store opens with, the password in the file *)
(* beside it, and the one in key.properties.                               *)
NoPassword == 0
Torn == -1              \* half a file
Mistyped == -2

(* A keytool that runs: a JRE or the shim of macOS is not enough.          *)
Keytool == host.keytool /\ "java" \in tools

(* The plan, with what can be skipped as things are when it is made.       *)
SystemSteps(t) ==
    CASE host.os = "Linux" ->
           IF host.manager THEN <<Step("system_packages"), Optional(Step("optional_package"))>>
                           ELSE <<Optional(Step("no_package_manager"))>>
      [] host.os = "Darwin" -> <<SkipIf(Optional(Step("xcode-select")), "clt" \in tools)>>
      [] host.os = "Windows" ->
           If(t = "windows", <<SkipIf(Optional(Step("Visual_Studio")), "cl" \in tools)>>)

AndroidSteps ==
    <<SkipIf(Step(IF host.manager THEN "JDK" ELSE "JDK_note"), "java" \in tools),
      SkipIf(Step("cargo-ndk"), "cargo-ndk" \in tools),
      SkipIf(Step("command-line_tools"), sdk # "none"),
      Step("platform_and_NDK"),
      SkipIf(Step("signing_key"), key.properties # NoPassword),
      Step("NDK_note")>>

PreparePlan(t) ==
    <<SkipIf(Step("flutter_SDK"), "flutter" \in tools)>>
    \o SystemSteps(t)
    \o <<SkipIf(Step("rustup"), "rustup" \in tools), Step("rust_targets")>>
    \o If(t = "android", AndroidSteps)
    \o If(t \in {"macos", "ios"}, <<SkipIf(Step("CocoaPods"), "pod" \in tools)>>)
    \o <<Step("git_submodules"), Step("Dart_packages")>>
    \o If(t \in {"macos", "ios"} /\ "pod" \in tools, <<Optional(Step("pod_install"))>>)
    \o <<Optional(Step("doctor"))>>
    \o FetchPlan

-----------------------------------------------------------------------------

FlutterMissing == At("flutter_SDK") /\ Aborts /\ UNCHANGED <<disk, deps, sdk>>

(* rustup leaves PATH alone: the next step finds it in a later shell only. *)
InstallRustup(outcome) ==
    /\ At("rustup")
    /\ home' = IF outcome = "ok" THEN home \cup {"rustup"} ELSE home
    /\ EndsBy(outcome)
    /\ UNCHANGED <<tools, submodules, engine, whisper, key, deps, sdk>>

(* The archive is unpacked aside and moved into place as a whole; the      *)
(* executable bits come after.                                             *)
PlaceSdk ==
    /\ At("command-line_tools")
    /\ \/ Fails /\ UNCHANGED sdk
       \/ sdk = "none" /\ sdk' = "placed" /\ Proceeds("chmod")
    /\ UNCHANGED <<disk, deps>>

ChmodSdk ==
    /\ Within("command-line_tools", "chmod")
    /\ sdk' = "executable"
    /\ tools' = tools \cup {"sdkmanager"}
    /\ Succeeds
    /\ UNCHANGED <<home, submodules, engine, whisper, key, deps>>

(* git submodule update --init: populates and checks out what is pinned.   *)
UpdateSubmodules ==
    /\ At("git_submodules")
    /\ \E done \in SUBSET DOMAIN submodules :
         /\ submodules' = [m \in DOMAIN submodules |->
                             IF m \in done /\ submodules[m].is # "pinned"
                               THEN [is |-> "pinned", time |-> submodules[m].time + 1]
                               ELSE submodules[m]]
         /\ EndsBy(IF done = DOMAIN submodules THEN "ok" ELSE "fail")
    /\ UNCHANGED <<tools, home, engine, whisper, key, deps, sdk>>

-----------------------------------------------------------------------------
(* The release signing key.                                                *)

SignLater ==
    /\ At("signing_key")
    /\ Succeeds
    /\ UNCHANGED <<disk, deps, sdk>>

(* Mutant: an existing keystore is left to keytool to refuse.              *)
GenerateAnyway ==
    /\ At("signing_key") /\ host.tty
    /\ IF ~Keytool
         THEN Aborts /\ UNCHANGED key
         ELSE key' = [key EXCEPT !.password = runs] /\ Proceeds("keytool")
    /\ UNCHANGED <<tools, home, submodules, engine, whisper, deps, sdk>>

(* A new password is on disk before the store that opens with it.          *)
Generate ==
    /\ At("signing_key") /\ host.tty
    /\ IF ~Keytool \/ key.store # NoPassword
         THEN Aborts /\ UNCHANGED key
         ELSE key' = [key EXCEPT !.password = runs] /\ Proceeds("keytool")
    /\ UNCHANGED <<tools, home, submodules, engine, whisper, deps, sdk>>

(* keytool adds to a store only with the password that opens it.           *)
RunKeytool ==
    /\ Within("signing_key", "keytool")
    /\ \/ Fails /\ UNCHANGED key
       \/ /\ key.store = NoPassword
          /\ key' = [key EXCEPT !.store = key.password]
          /\ Proceeds("properties")
    /\ UNCHANGED <<tools, home, submodules, engine, whisper, deps, sdk>>

(* The user names the store and types its password, which is tried if     *)
(* there is a keytool.                                                     *)
Adopt ==
    /\ At("signing_key") /\ host.tty
    /\ \/ Aborts
       \/ key.store # NoPassword /\ Proceeds("adopt")
       \/ key.store # NoPassword /\ ~Keytool /\ Proceeds("mistyped")
    /\ UNCHANGED <<disk, deps, sdk>>

(* _write_key_properties, in place: opened first, then written.            *)
OpenProperties ==
    /\ \E s \in {"properties", "adopt", "mistyped"} : Within("signing_key", s)
    /\ key.properties = NoPassword
    /\ key' = [key EXCEPT !.properties = Torn]
    /\ UNCHANGED <<run, tools, home, submodules, engine, whisper, deps, sdk>>

WriteProperties ==
    /\ \E s \in {"properties", "adopt", "mistyped"} : Within("signing_key", s)
    /\ key.properties = Torn
    /\ key' = [key EXCEPT !.properties =
                 CASE stage = "properties" -> key.password
                   [] stage = "adopt" -> key.store
                   [] stage = "mistyped" -> Mistyped]
    /\ Succeeds
    /\ UNCHANGED <<tools, home, submodules, engine, whisper, deps, sdk>>

PrepareNext ==
    \/ FlutterMissing
    \/ \E outcome \in {"ok", "fail"} :
          \/ InstallRustup(outcome)
          \/ \E name \in Commands : RunCommand(name, outcome) /\ UNCHANGED <<deps, sdk>>
    \/ PlaceSdk \/ ChmodSdk \/ UpdateSubmodules
    \/ SignLater \/ Generate \/ RunKeytool \/ Adopt \/ OpenProperties \/ WriteProperties
    \/ DepsNext /\ UNCHANGED sdk
=============================================================================
