---------------------------- MODULE MCToolchain -----------------------------
(* Some machines, a handful of command lines, five states to start from.  *)
EXTENDS Toolchain

Debian == [os |-> "Linux", arch |-> "x86_64", manager |-> TRUE, bash |-> TRUE, tty |-> TRUE,
           token |-> TRUE, pin |-> "run", nm |-> TRUE, apple |-> FALSE, webrtc |-> FALSE,
           keytool |-> TRUE]
Laptop == [Debian EXCEPT !.os = "Windows", !.bash = FALSE, !.token = FALSE,
                         !.pin = "release", !.nm = FALSE]
Mac == [Debian EXCEPT !.os = "Darwin", !.arch = "aarch64", !.manager = FALSE,
                      !.tty = FALSE, !.pin = "none", !.webrtc = TRUE]
SomeHosts == {Debian, Laptop, Mac, [Mac EXCEPT !.apple = TRUE],
               [Debian EXCEPT !.manager = FALSE, !.arch = "riscv64", !.pin = "release",
                                !.keytool = FALSE]}
MacHosts == {Mac}

Plain == [program |-> "build", target |-> "", release |-> TRUE, dry |-> FALSE,
          unknown |-> FALSE, translate |-> FALSE, network |-> "unset",
          diagnostics |-> FALSE, hook |-> FALSE, log |-> FALSE,
          skip_cargo |-> FALSE, hatch |-> FALSE]
Prepared == [Plain EXCEPT !.program = "prepare"]

SomeLines ==
    {Plain,
     [Plain EXCEPT !.release = FALSE],
     [Plain EXCEPT !.release = FALSE, !.network = "prod"],
     [Plain EXCEPT !.network = "typo"],
     [Plain EXCEPT !.diagnostics = TRUE, !.log = TRUE],
     [Plain EXCEPT !.dry = TRUE, !.target = "ios"],
     [Plain EXCEPT !.target = "android", !.skip_cargo = TRUE],
     [Plain EXCEPT !.target = "android", !.hatch = TRUE],
     [Plain EXCEPT !.target = "android", !.release = FALSE],
     [Plain EXCEPT !.target = "ios"],
     [Prepared EXCEPT !.target = "android"],
     Prepared,
     [Prepared EXCEPT !.program = "fetch", !.translate = TRUE],
     [Prepared EXCEPT !.program = "fetch", !.target = "android"]}

IosLines == {[Plain EXCEPT !.target = "ios", !.release = FALSE],
             [Plain EXCEPT !.target = "ios", !.release = FALSE, !.network = "prod"]}
AndroidFetch == {[Prepared EXCEPT !.program = "fetch", !.target = "android", !.translate = TRUE]}

Libs == {"hv", "veil"}
Everywhere(l) == [name \in Libs |-> [s \in Slots |-> l]]
Clone == [tools |-> {"flutter"}, submodules |-> [l \in Libs |-> [is |-> "empty", time |-> 0]],
          engine |-> [s \in EngineSlots |-> "absent"], whisper |-> "absent",
          lib |-> Everywhere(NoLib), stray |-> FALSE,
          key |-> [store |-> NoPassword, password |-> NoPassword, properties |-> NoPassword]]
(* A checkout in which everything was built, before the sources changed.   *)
Old == [tools |-> {"flutter", "rustup", "java", "cargo-ndk", "sdkmanager"},
        submodules |-> [l \in Libs |-> [is |-> "pinned", time |-> 2]],
        engine |-> [s \in EngineSlots |-> "stale"], whisper |-> "other",
        lib |-> Everywhere([time |-> 1, network |-> "prod"]), stray |-> TRUE,
        key |-> [store |-> 9, password |-> 9, properties |-> NoPassword]]
DebianHosts == {Debian}
Ready == [Old EXCEPT !.engine = [s \in EngineSlots |-> "good"], !.whisper = "pinned", !.stray = FALSE,
                     !.key = [store |-> 9, password |-> 9, properties |-> 9]]
EmptySlots == {[Ready EXCEPT !.engine = [s \in EngineSlots |-> "absent"]]}
OneMachine == {Ready}
(* Current libraries for one ABI only, and engines that are cut short.     *)
Patchy == [Ready EXCEPT !.engine = [s \in EngineSlots |-> "torn"],
                        !.lib = [name \in Libs |-> [s \in Slots |->
                                   IF s = <<"android", MainAbi>>
                                     THEN [time |-> 2, network |-> "prod"] ELSE NoLib]]]
SomeMachines == {Clone, Old, Ready, Patchy,
                 [Ready EXCEPT !.engine = [s \in EngineSlots |-> "stale"]]}
=============================================================================
