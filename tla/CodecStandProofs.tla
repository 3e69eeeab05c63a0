-------------------------- MODULE CodecStandProofs --------------------------
(***************************************************************************)
(* Proofs about the codec stand: for any command lines, workload and       *)
(* faults, a green exit is earned and a native driver keeps its engines.   *)
(***************************************************************************)
EXTENDS CodecStand, SequenceTheorems, FiniteSetTheorems, TLAPS

Message == [kind : {"health", "chunk"}, to : Sides, id : Nat]
Lists == {"shaper", "nodes", "apps", "controls", "channels", "engines", "policy", "files"}

(* The types of the variables the arguments below read.                    *)
CodecTypeOK ==
    /\ open \subseteq Lists
    /\ net \subseteq Message /\ polled \subseteq Message
    /\ \A m \in polled : m.kind = "health"
    /\ writer \in [Sides -> {"none", "writing", "done", "broken", "stuck"}]
    /\ queued \in [Sides -> Nat]
    /\ healthsent \in [Sides -> Nat] /\ healthrecv \in [Sides -> Nat]
    /\ clock \in {"none", "running", "stuck", "stopped"}
    /\ ok \in BOOLEAN

(* Where the setup and the teardown are.  No writer runs during the   *)
(* setup, and no report exists before "prime".                             *)
InSetup(k) ==
    /\ steps = SubSeq(SetupSteps, k, Len(SetupSteps))
    /\ \A i \in Sides : writer[i] # "writing"
    /\ k <= 13 => net = {} /\ polled = {} /\ \A i \in Sides : healthrecv[i] = 0

(* What each step of the teardown has seen to once it is past.             *)
InCleanup(k) ==
    /\ steps = SubSeq(Cleanup, k, Len(Cleanup))
    /\ k > 1 => clock # "running" /\ (args.native => clock # "stuck")
    /\ k > 2 => /\ \A i \in Sides : writer[i] # "writing"
                /\ ok => Writing = {}
    /\ k > 3 => "policy" \notin open
    /\ k > 5 => "engines" \notin open
    /\ k > 6 => "shaper" \notin open
    /\ k > 7 => "channels" \notin open
    /\ k > 8 => "files" \notin open
    /\ k > 9 => "controls" \notin open
    /\ k > 10 => "apps" \notin open

PlaceInv ==
    /\ phase \in {"setup", "measure", "frozen", "judged", "finally", "blocked", "exited", "gone"}
    /\ phase = "setup" => \E k \in 1..Len(SetupSteps) : InSetup(k)
    /\ phase = "finally" => \E k \in 1..Len(Cleanup) : InCleanup(k)

(* Reports on their way to a side, in the network or waiting for a poll:   *)
(* with those it has heard, never more than its peer has sent.             *)
Coming(i) == {m \in net : m.kind = "health" /\ m.to = i}
Waiting(i) == {m \in polled : m.to = i}
HealthInv ==
    \A i \in Sides :
        /\ IsFiniteSet(Coming(i)) /\ IsFiniteSet(Waiting(i))
        /\ healthrecv[i] + Cardinality(Coming(i)) + Cardinality(Waiting(i))
              <= healthsent[Peer[i]] + 1

(* What a verdict of the judge that still stands says.                     *)
Earned ==
    /\ args.files => frozen.complete = Sides
    /\ \A m \in net \cup polled : m.kind # "health"
    /\ torn = {}

VerdictInv ==
    /\ phase \in {"setup", "measure", "frozen", "judged"} => ~ok /\ torn = {}
    /\ phase = "judged" \/ ok => clock = "stopped"
    /\ ok => Earned
    /\ exit = "green" => phase \in {"exited", "gone"} /\ ok /\ open = {}

CodecInv == CodecTypeOK /\ PlaceInv /\ HealthInv /\ VerdictInv /\ DriverKeepsItsEngines

-----------------------------------------------------------------------------
(* Taking the steps of a list one after the other.                         *)

LEMMA SuffixFacts ==
    ASSUME NEW S, NEW s \in Seq(S), NEW k \in 1..Len(s)
    PROVE  /\ SubSeq(s, k, Len(s)) # <<>> /\ Head(SubSeq(s, k, Len(s))) = s[k]
           /\ Tail(SubSeq(s, k, Len(s))) = SubSeq(s, k + 1, Len(s))
           /\ k < Len(s) => Tail(SubSeq(s, k, Len(s))) # <<>>
<1>0. Len(<<>>) = 0
  OBVIOUS
<1>1. /\ k \in 1..Len(s) /\ Len(s) \in Nat /\ k \in Int /\ k + 1 \in Int /\ Len(s) \in Int
      /\ k <= Len(s)
  OBVIOUS
<1>2. \A i \in k..Len(s) : s[i] \in S
  BY <1>1
<1>3. /\ SubSeq(s, k, Len(s)) \in Seq(S)
      /\ Len(SubSeq(s, k, Len(s))) = IF k <= Len(s) THEN Len(s) - k + 1 ELSE 0
      /\ \A i \in 1..(Len(s) - k + 1) : SubSeq(s, k, Len(s))[i] = s[k + i - 1]
  BY <1>1, <1>2, SubSeqProperties
<1>4. Len(SubSeq(s, k, Len(s))) = Len(s) - k + 1 /\ SubSeq(s, k, Len(s))[1] = s[k]
  BY <1>1, <1>3
<1>5. Tail(SubSeq(s, k, Len(s))) = SubSeq(s, k + 1, Len(s))
  BY <1>1, HeadTailOfSubSeq
<1>6. ASSUME k < Len(s) PROVE Tail(SubSeq(s, k, Len(s))) # <<>>
  <2> DEFINE t == SubSeq(s, k, Len(s))
  <2>0. t \in Seq(S) /\ Len(t) = Len(s) - k + 1
    BY <1>3, <1>4
  <2> HIDE DEF t
  <2>1. t # <<>>
    BY <1>1, <2>0
  <2>2. Len(Tail(t)) = Len(t) - 1 /\ Tail(t) \in Seq(S)
    BY ONLY <2>0, <2>1, HeadTailProperties
  <2>3. Len(Tail(t)) # 0
    <3>1. (Len(s) - k + 1) - 1 # 0
      BY <1>1, <1>6
    <3>. QED  BY ONLY <2>0, <2>2, <3>1
  <2>4. Tail(t) # <<>>
    BY ONLY <1>0, <2>3
  <2>. QED  BY <2>4 DEF t
<1>7. SubSeq(s, k, Len(s)) # <<>>
  <2>1. Len(SubSeq(s, k, Len(s))) # 0
    BY <1>1, <1>4
  <2>. QED  BY ONLY <1>0, <2>1
<1>8. Head(SubSeq(s, k, Len(s))) = s[k]
  BY <1>1, HeadTailOfSubSeq
<1>. QED  BY <1>5, <1>6, <1>7, <1>8

SetupNames ==
    {"library", "identities", "shaper", "nodes", "sessions", "apps", "media",
     "controls", "files", "channels", "engines", "policy", "prime", "bootstrap",
     "rate", "clock"}
CleanupNames ==
    {"clock", "files", "policy", "video", "engines", "shaper", "channels",
     "file_bindings", "controls", "apps", "nodes"}

LEMMA SetupList ==
    ASSUME NEW k \in 1..Len(SetupSteps), steps = SubSeq(SetupSteps, k, Len(SetupSteps))
    PROVE  /\ Len(SetupSteps) = 16 /\ steps # <<>> /\ Head(steps) = SetupSteps[k]
           /\ Tail(steps) = SubSeq(SetupSteps, k + 1, Len(SetupSteps))
           /\ k < 16 => Tail(steps) # <<>>
<1>1. SetupSteps \in Seq(SetupNames) /\ Len(SetupSteps) = 16
  BY DEF SetupSteps, SetupNames
<1>. QED  BY <1>1, SuffixFacts

LEMMA CleanupList ==
    ASSUME NEW k \in 1..Len(Cleanup), steps = SubSeq(Cleanup, k, Len(Cleanup))
    PROVE  /\ Len(Cleanup) = 11 /\ steps # <<>> /\ Head(steps) = Cleanup[k]
           /\ Tail(steps) = SubSeq(Cleanup, k + 1, Len(Cleanup))
<1>1. Cleanup \in Seq(CleanupNames) /\ Len(Cleanup) = 11
  BY DEF Cleanup, CleanupNames
<1>. QED  BY <1>1, SuffixFacts

(* Where each step stands.                                                 *)
LEMMA CleanupPlaces ==
    ASSUME NEW k \in 1..Len(Cleanup)
    PROVE  /\ Cleanup[k] = "clock" => k = 1
           /\ Cleanup[k] = "files" => k = 2
           /\ Cleanup[k] = "policy" => k = 3
           /\ Cleanup[k] = "video" => k = 4
           /\ Cleanup[k] = "engines" => k = 5
           /\ Cleanup[k] = "shaper" => k = 6
           /\ Cleanup[k] = "channels" => k = 7
           /\ Cleanup[k] = "file_bindings" => k = 8
           /\ Cleanup[k] = "controls" => k = 9
           /\ Cleanup[k] = "apps" => k = 10
           /\ Cleanup[k] = "nodes" => k = 11
<1>1. k \in 1..11 /\ Len(Cleanup) = 11
  BY DEF Cleanup
<1>2. k = 1 \/ k = 2 \/ k = 3 \/ k = 4 \/ k = 5 \/ k = 6 \/ k = 7 \/ k = 8 \/ k = 9 \/ k = 10 \/ k = 11
  BY <1>1
<1>3. k # 1 => Cleanup[k] # "clock"
  BY <1>2 DEF Cleanup
<1>4. k # 2 => Cleanup[k] # "files"
  BY <1>2 DEF Cleanup
<1>5. k # 3 => Cleanup[k] # "policy"
  BY <1>2 DEF Cleanup
<1>6. k # 4 => Cleanup[k] # "video"
  BY <1>2 DEF Cleanup
<1>7. k # 5 => Cleanup[k] # "engines"
  BY <1>2 DEF Cleanup
<1>8. k # 6 => Cleanup[k] # "shaper"
  BY <1>2 DEF Cleanup
<1>9. k # 7 => Cleanup[k] # "channels"
  BY <1>2 DEF Cleanup
<1>10. k # 8 => Cleanup[k] # "file_bindings"
  BY <1>2 DEF Cleanup
<1>11. k # 9 => Cleanup[k] # "controls"
  BY <1>2 DEF Cleanup
<1>12. k # 10 => Cleanup[k] # "apps"
  BY <1>2 DEF Cleanup
<1>13. k # 11 => Cleanup[k] # "nodes"
  BY <1>2 DEF Cleanup
<1>. QED  BY <1>3, <1>4, <1>5, <1>6, <1>7, <1>8, <1>9, <1>10, <1>11, <1>12, <1>13

LEMMA SetupPlaces ==
    ASSUME NEW k \in 1..Len(SetupSteps)
    PROVE  SetupSteps[k] = "prime" <=> k = 13
<1>1. k \in 1..16 /\ Len(SetupSteps) = 16
  BY DEF SetupSteps
<1>2. k = 1 \/ k = 2 \/ k = 3 \/ k = 4 \/ k = 5 \/ k = 6 \/ k = 7 \/ k = 8 \/ k = 9 \/ k = 10
        \/ k = 11 \/ k = 12 \/ k = 13 \/ k = 14 \/ k = 15 \/ k = 16
  BY <1>1
<1>. QED  BY <1>1, <1>2 DEF SetupSteps

-----------------------------------------------------------------------------
(* Types.                                                                  *)

LEMMA MessageTypes ==
    ASSUME NEW i \in Sides, NEW n \in Nat
    PROVE  Report(i, n) \in Message /\ Chunk(i, n) \in Message
BY CodecAssumption DEF Report, Chunk, Message

LEMMA PollTypes ==
    ASSUME CodecTypeOK, PollCompact, \A i \in Sides : IsFiniteSet(Waiting(i))
    PROVE  /\ healthrecv' \in [Sides -> Nat] /\ polled' = {}
           /\ \A i \in Sides : healthrecv'[i] = healthrecv[i] + Cardinality(Waiting(i))
<1>1. \A i \in Sides : Cardinality(Waiting(i)) \in Nat
  BY FS_CardinalityType
<1>2. healthrecv' = [i \in Sides |-> healthrecv[i] + Cardinality(Waiting(i))] /\ polled' = {}
  BY DEF PollCompact, Waiting
<1>. QED  BY <1>1, <1>2 DEF CodecTypeOK

LEMMA TypeStep ==
    ASSUME CodecTypeOK, HealthInv, [Next]_vars PROVE CodecTypeOK'
<1> USE DEF CodecTypeOK
<1>0. \A i \in Sides : IsFiniteSet(Waiting(i))
  BY DEF HealthInv
<1>1. CASE SetupStep
  <2>1. \A step : Kept(step) \subseteq Lists
    BY DEF Kept, Lists
  <2>2. Primed \subseteq Message
    BY MessageTypes DEF Primed
  <2>. QED  BY <1>1, <2>1, <2>2 DEF SetupStep, files, health
<1>2. CASE BootstrapTimesOut \/ SetupRaises
  <2>1. \A step : Kept(step) \subseteq Lists
    BY DEF Kept, Lists
  <2>. QED  BY <1>2, <2>1 DEF BootstrapTimesOut, SetupRaises, Caught, files, health
<1>3. ASSUME NEW m \in net, ReceiveFile(m) \/ ReceiveHealth(m) \/ Lose(m) PROVE CodecTypeOK'
  <2>1. m \in Message
    OBVIOUS
  <2>2. CASE ReceiveFile(m)
    BY <2>2 DEF ReceiveFile, health
  <2>3. CASE ReceiveHealth(m)
    BY <2>1, <2>3 DEF ReceiveHealth, files, Message
  <2>4. CASE Lose(m)
    BY <2>4 DEF Lose, files, health
  <2>. QED  BY <1>3, <2>2, <2>3, <2>4
<1>4. ASSUME NEW i \in Sides, WriteFile(i) \/ WriterFails(i) PROVE CodecTypeOK'
  <2>1. CASE WriteFile(i)
    <3>1. queued'[i] \in Nat /\ queued' \in [Sides -> Nat]
      BY <2>1 DEF WriteFile
    <3>2. Chunk(i, queued'[i]) \in Message
      BY <3>1, MessageTypes
    <3>. QED  BY <2>1, <3>1, <3>2 DEF WriteFile, health
  <2>2. CASE WriterFails(i)
    BY <2>2 DEF WriterFails, health
  <2>. QED  BY <1>4, <2>1, <2>2
<1>5. CASE ClockHangs \/ PolicyDies \/ PolicyHangs \/ SdkHangs \/ InterpreterExit \/ MeasureRaises
  BY <1>5 DEF ClockHangs, PolicyDies, PolicyHangs, SdkHangs, InterpreterExit, MeasureRaises, Caught, files, health
<1>6. CASE Tick
  <2>1. \A i \in Sides : Report(i, healthsent[i] + 1) \in Message
    BY MessageTypes
  <2>2. net' \subseteq Message /\ healthsent' \in [Sides -> Nat]
    BY <1>6, <2>1 DEF Tick
  <2>3. PollCompact
    BY <1>6 DEF Tick
  <2>4. writer' \in [Sides -> {"none", "writing", "done", "broken", "stuck"}]
    BY <1>6 DEF Tick
  <2>. QED  BY <1>0, <1>6, <2>2, <2>3, <2>4, PollTypes DEF Tick
<1>7. CASE CommandFails \/ CommandBlocks \/ Freeze
  <2>1. CASE UpToCommand
    <3>1. net' \subseteq Message
      BY <2>1, MessageTypes DEF UpToCommand, Primed
    <3>2. PollCompact \/ UNCHANGED <<polled, healthrecv>>
      BY <2>1 DEF UpToCommand
    <3>3. UNCHANGED <<open, clock, writer, queued, healthsent>> /\ ok' \in BOOLEAN
      BY <1>7 DEF CommandFails, CommandBlocks, Freeze, Caught, files
    <3>. QED  BY <1>0, <3>1, <3>2, <3>3, PollTypes
  <2>2. CASE Freeze
    BY <1>0, <2>2, PollTypes DEF Freeze, files
  <2>. QED  BY <1>7, <2>1, <2>2 DEF CommandFails, CommandBlocks
<1>8. CASE StopClock
  BY <1>8 DEF StopClock, Caught, files, health
<1>9. ASSUME NEW good \in BOOLEAN, Judge(good) \/ EndVideo(good) \/ EndNodes(good)
      PROVE  CodecTypeOK'
  BY <1>9 DEF Judge, EndVideo, EndNodes, files, health
<1>10. CASE EndClock \/ EndFiles \/ EndPolicy
  BY <1>10 DEF EndClock, EndFiles, EndPolicy, files, health
<1>11. CASE EndEngines \/ EndShaper \/ EndBinding
  BY <1>11 DEF EndEngines, EndShaper, EndBinding, files, health
<1>12. CASE UNCHANGED vars
  BY <1>12 DEF vars, files, health
<1>. QED  BY <1>1, <1>2, <1>3, <1>4, <1>5, <1>6, <1>7, <1>8, <1>9, <1>10, <1>11, <1>12 DEF Next

-----------------------------------------------------------------------------
(* Reports are heard at most as often as they are sent.                    *)

LEMMA FewerReports ==
    ASSUME CodecTypeOK, HealthInv, UNCHANGED <<healthrecv, healthsent>>,
           NEW i \in Sides, Coming(i)' \subseteq Coming(i), Waiting(i)' = Waiting(i)
    PROVE  /\ IsFiniteSet(Coming(i)') /\ IsFiniteSet(Waiting(i)')
           /\ healthrecv'[i] + Cardinality(Coming(i)') + Cardinality(Waiting(i)')
                 <= healthsent'[Peer[i]] + 1
<1>1. /\ IsFiniteSet(Coming(i)) /\ IsFiniteSet(Waiting(i))
      /\ healthrecv[i] + Cardinality(Coming(i)) + Cardinality(Waiting(i)) <= healthsent[Peer[i]] + 1
  BY DEF HealthInv
<1>2. IsFiniteSet(Coming(i)') /\ Cardinality(Coming(i)') <= Cardinality(Coming(i))
  BY <1>1, FS_Subset
<1>3. /\ Cardinality(Coming(i)') \in Nat /\ Cardinality(Coming(i)) \in Nat
      /\ Cardinality(Waiting(i)) \in Nat
  BY <1>1, <1>2, FS_CardinalityType
<1>4. healthrecv[i] \in Nat /\ healthsent[Peer[i]] \in Nat
  BY CodecAssumption DEF CodecTypeOK
<1>. QED  BY <1>1, <1>2, <1>3, <1>4

(* A poll counts what was waiting.                                         *)
LEMMA PolledReports ==
    ASSUME CodecTypeOK, HealthInv, PollCompact, NEW i \in Sides
    PROVE  /\ Waiting(i)' = {} /\ IsFiniteSet(Waiting(i)') /\ Cardinality(Waiting(i)') = 0
           /\ healthrecv'[i] = healthrecv[i] + Cardinality(Waiting(i))
           /\ IsFiniteSet(Coming(i)) /\ Cardinality(Coming(i)) \in Nat
           /\ Cardinality(Waiting(i)) \in Nat /\ healthrecv[i] \in Nat
           /\ healthsent[i] \in Nat /\ Peer[i] \in Sides /\ Peer[Peer[i]] = i
           /\ healthrecv[i] + Cardinality(Coming(i)) + Cardinality(Waiting(i))
                 <= healthsent[Peer[i]] + 1
<1>1. /\ IsFiniteSet(Coming(i)) /\ IsFiniteSet(Waiting(i))
      /\ healthrecv[i] + Cardinality(Coming(i)) + Cardinality(Waiting(i)) <= healthsent[Peer[i]] + 1
  BY DEF HealthInv
<1>2. Cardinality(Coming(i)) \in Nat /\ Cardinality(Waiting(i)) \in Nat
  BY <1>1, FS_CardinalityType
<1>3. polled' = {} /\ healthrecv'[i] = healthrecv[i] + Cardinality(Waiting(i))
  BY PollTypes DEF HealthInv
<1>4. Waiting(i)' = {}
  BY <1>3 DEF Waiting
<1>5. IsFiniteSet(Waiting(i)') /\ Cardinality(Waiting(i)') = 0
  BY <1>4, FS_EmptySet
<1>6. healthrecv[i] \in Nat /\ healthsent[i] \in Nat /\ Peer[i] \in Sides /\ Peer[Peer[i]] = i
  BY CodecAssumption DEF CodecTypeOK
<1>. QED  BY <1>1, <1>2, <1>3, <1>4, <1>5, <1>6

(* One more report is on its way to a side.                                *)
LEMMA OneMoreReport ==
    ASSUME NEW old, IsFiniteSet(old), NEW m, NEW new, new \subseteq old \cup {m}
    PROVE  IsFiniteSet(new) /\ Cardinality(new) \in Nat /\ Cardinality(new) <= Cardinality(old) + 1
<1>1. IsFiniteSet(old \cup {m}) /\ Cardinality(old \cup {m}) <= Cardinality(old) + 1
  <2>1. Cardinality(old) \in Nat
    BY FS_CardinalityType
  <2>. QED  BY <2>1, FS_AddElement
<1>2. IsFiniteSet(new) /\ Cardinality(new) <= Cardinality(old \cup {m})
  BY <1>1, FS_Subset
<1>3. Cardinality(new) \in Nat /\ Cardinality(old) \in Nat /\ Cardinality(old \cup {m}) \in Nat
  BY <1>1, <1>2, FS_CardinalityType
<1>. QED  BY <1>1, <1>2, <1>3

LEMMA HealthSame ==
    ASSUME CodecTypeOK, HealthInv, UNCHANGED health,
           \A i \in Sides : Coming(i)' \subseteq Coming(i)
    PROVE  HealthInv'
<1>1. UNCHANGED <<polled, healthrecv, healthsent>>
  BY DEF health
<1>2. \A i \in Sides : Waiting(i)' = Waiting(i)
  BY <1>1 DEF Waiting
<1>. QED  BY <1>1, <1>2, FewerReports DEF HealthInv

LEMMA TickHealth == CodecTypeOK /\ HealthInv /\ Tick => HealthInv'
<1> SUFFICES ASSUME CodecTypeOK, HealthInv, Tick, NEW i \in Sides
             PROVE  /\ IsFiniteSet(Coming(i)') /\ IsFiniteSet(Waiting(i)')
                    /\ healthrecv'[i] + Cardinality(Coming(i)') + Cardinality(Waiting(i)')
                          <= healthsent'[Peer[i]] + 1
  BY DEF HealthInv
<1>1. PollCompact
  BY DEF Tick
<1>2. PICK owing \in {{}, Sides} :
        /\ net' = net \cup {Report(j, healthsent[j] + 1) : j \in owing}
        /\ healthsent' = [j \in Sides |-> IF j \in owing THEN healthsent[j] + 1 ELSE healthsent[j]]
  BY DEF Tick
<1>3. /\ Peer[i] \in Sides /\ healthsent[Peer[i]] \in Nat
      /\ healthrecv[i] \in Nat /\ Cardinality(Waiting(i)) \in Nat
      /\ Cardinality(Coming(i)) \in Nat /\ IsFiniteSet(Coming(i))
      /\ Cardinality(Waiting(i)') = 0 /\ IsFiniteSet(Waiting(i)')
      /\ healthrecv'[i] = healthrecv[i] + Cardinality(Waiting(i))
      /\ healthrecv[i] + Cardinality(Coming(i)) + Cardinality(Waiting(i))
            <= healthsent[Peer[i]] + 1
  BY <1>1, PolledReports, CodecAssumption DEF CodecTypeOK
<1>4. CASE owing = {}
  <2>1. Coming(i)' = Coming(i) /\ healthsent'[Peer[i]] = healthsent[Peer[i]]
    BY <1>2, <1>3, <1>4 DEF Coming
  <2>. QED  BY <1>3, <2>1
<1>5. CASE owing = Sides
  <2>1. healthsent'[Peer[i]] = healthsent[Peer[i]] + 1
    BY <1>2, <1>3, <1>5
  <2>2. Coming(i)' \subseteq Coming(i) \cup {Report(Peer[i], healthsent[Peer[i]] + 1)}
    <3>1. ASSUME NEW j \in Sides, Report(j, healthsent[j] + 1).to = i PROVE j = Peer[i]
      BY <3>1, CodecAssumption DEF Report
    <3>. QED  BY <1>2, <1>5, <3>1 DEF Coming
  <2>3. /\ IsFiniteSet(Coming(i)') /\ Cardinality(Coming(i)') \in Nat
        /\ Cardinality(Coming(i)') <= Cardinality(Coming(i)) + 1
    BY <1>3, <2>2, OneMoreReport
  <2>. QED  BY <1>3, <2>1, <2>3
<1>. QED  BY <1>2, <1>4, <1>5

(* A report leaves the network, for a poll or for the count.               *)
LEMMA ReceiveKeepsHealth ==
    ASSUME CodecTypeOK, HealthInv, NEW m \in net, ReceiveHealth(m)
    PROVE  HealthInv'
<1> SUFFICES ASSUME NEW i \in Sides
             PROVE  /\ IsFiniteSet(Coming(i)') /\ IsFiniteSet(Waiting(i)')
                    /\ healthrecv'[i] + Cardinality(Coming(i)') + Cardinality(Waiting(i)')
                          <= healthsent'[Peer[i]] + 1
  BY DEF HealthInv
<1>1. m.kind = "health" /\ m.to \in Sides /\ net' = net \ {m} /\ healthsent' = healthsent
  BY DEF ReceiveHealth, CodecTypeOK, Message
<1>2. /\ IsFiniteSet(Coming(i)) /\ IsFiniteSet(Waiting(i))
      /\ healthrecv[i] + Cardinality(Coming(i)) + Cardinality(Waiting(i)) <= healthsent[Peer[i]] + 1
  BY DEF HealthInv
<1>3. /\ Cardinality(Coming(i)) \in Nat /\ Cardinality(Waiting(i)) \in Nat
      /\ healthrecv[i] \in Nat /\ healthsent[Peer[i]] \in Nat
  BY <1>2, FS_CardinalityType, CodecAssumption DEF CodecTypeOK
<1>4. CASE m.to # i
  <2>1. Coming(i)' = Coming(i) /\ Waiting(i)' = Waiting(i)
    BY <1>1, <1>4 DEF Coming, Waiting, ReceiveHealth
  <2>2. healthrecv'[i] = healthrecv[i]
    BY <1>1, <1>4 DEF ReceiveHealth, CodecTypeOK
  <2>. QED  BY <1>1, <1>2, <2>1, <2>2
<1>5. CASE m.to = i
  <2>1. Coming(i)' = Coming(i) \ {m} /\ m \in Coming(i)
    BY <1>1, <1>5 DEF Coming
  <2>2. IsFiniteSet(Coming(i)') /\ Cardinality(Coming(i)') = Cardinality(Coming(i)) - 1
    BY <1>2, <2>1, FS_RemoveElement
  <2>3. CASE polled' = polled \cup {m} /\ healthrecv' = healthrecv
    <3>1. Waiting(i)' \subseteq Waiting(i) \cup {m}
      BY <2>3 DEF Waiting
    <3>2. /\ IsFiniteSet(Waiting(i)') /\ Cardinality(Waiting(i)') \in Nat
          /\ Cardinality(Waiting(i)') <= Cardinality(Waiting(i)) + 1
      BY <1>2, <3>1, OneMoreReport
    <3>. QED  BY <1>1, <1>2, <1>3, <2>2, <2>3, <3>2
  <2>4. CASE polled' = polled /\ healthrecv' = [healthrecv EXCEPT ![i] = healthrecv[i] + 1]
    <3>1. Waiting(i)' = Waiting(i) /\ healthrecv'[i] = healthrecv[i] + 1
      BY <2>4 DEF Waiting, CodecTypeOK
    <3>. QED  BY <1>1, <1>2, <1>3, <2>2, <3>1
  <2>. QED  BY <1>5, <2>3, <2>4 DEF ReceiveHealth
<1>. QED  BY <1>4, <1>5

LEMMA PollKeepsHealth ==
    ASSUME CodecTypeOK, HealthInv, PollCompact, UNCHANGED <<net, healthsent>>
    PROVE  HealthInv'
<1> SUFFICES ASSUME NEW i \in Sides
             PROVE  /\ IsFiniteSet(Coming(i)') /\ IsFiniteSet(Waiting(i)')
                    /\ healthrecv'[i] + Cardinality(Coming(i)') + Cardinality(Waiting(i)')
                          <= healthsent'[Peer[i]] + 1
  BY DEF HealthInv
<1>1. Coming(i)' = Coming(i)
  BY DEF Coming
<1>2. healthsent[Peer[i]] \in Nat
  BY CodecAssumption DEF CodecTypeOK
<1>. QED  BY <1>1, <1>2, PolledReports

(* The first reports are the only ones there are.                          *)
LEMMA PrimeHealth ==
    ASSUME CodecTypeOK, PlaceInv, HealthInv, phase = "setup", Head(steps) = "prime",
           net' = Primed, UNCHANGED health
    PROVE  HealthInv'
<1>1. PICK k \in 1..Len(SetupSteps) : InSetup(k)
  BY DEF PlaceInv
<1>2. k = 13
  BY <1>1, SetupList, SetupPlaces DEF InSetup
<1>3. net = {} /\ polled = {} /\ \A i \in Sides : healthrecv[i] = 0
  BY <1>1, <1>2 DEF InSetup
<1>4. /\ net' = net \cup {Report(i, 0) : i \in Sides} /\ polled' = {} /\ healthrecv' = healthrecv
      /\ healthsent' = healthsent
  BY <1>3 DEF Primed, health
<1> SUFFICES ASSUME NEW i \in Sides
             PROVE  /\ IsFiniteSet(Coming(i)') /\ IsFiniteSet(Waiting(i)')
                    /\ healthrecv'[i] + Cardinality(Coming(i)') + Cardinality(Waiting(i)')
                          <= healthsent'[Peer[i]] + 1
  BY DEF HealthInv
<1>5. healthrecv'[i] = 0 /\ healthsent'[Peer[i]] \in Nat
  BY <1>3, <1>4, CodecAssumption DEF CodecTypeOK
<1>6. Waiting(i)' = {} /\ IsFiniteSet({}) /\ Cardinality({}) = 0
  BY <1>4, FS_EmptySet DEF Waiting
<1>7. Coming(i)' \subseteq {} \cup {Report(Peer[i], 0)}
  <2>1. ASSUME NEW j \in Sides, Report(j, 0).to = i PROVE j = Peer[i]
    BY <2>1, CodecAssumption DEF Report
  <2>. QED  BY <1>3, <1>4, <2>1 DEF Coming
<1>8. IsFiniteSet(Coming(i)') /\ Cardinality(Coming(i)') \in Nat /\ Cardinality(Coming(i)') <= 0 + 1
  BY ONLY <1>6, <1>7, OneMoreReport
<1>. QED  BY <1>5, <1>6, <1>8

LEMMA SetupHealth == CodecTypeOK /\ PlaceInv /\ HealthInv /\ SetupStep => HealthInv'
<1> SUFFICES ASSUME CodecTypeOK, PlaceInv, HealthInv, SetupStep PROVE HealthInv'
  OBVIOUS
<1>1. UNCHANGED health /\ phase = "setup"
  BY DEF SetupStep
<1>2. CASE Head(steps) # "prime"
  <2>1. net' = net
    BY <1>2 DEF SetupStep
  <2>. QED  BY <1>1, <2>1, HealthSame DEF Coming
<1>3. CASE Head(steps) = "prime"
  <2>1. net' = Primed
    BY <1>3 DEF SetupStep
  <2>. QED  BY <1>1, <1>3, <2>1, PrimeHealth
<1>. QED  BY <1>2, <1>3

LEMMA CommandHealth ==
    ASSUME CodecTypeOK, PlaceInv, HealthInv, UpToCommand, UNCHANGED healthsent PROVE HealthInv'
<1>1. CASE PollCompact /\ UNCHANGED net
  BY <1>1, PollKeepsHealth
<1>2. CASE phase = "setup" /\ Head(steps) = "prime" /\ net' \in {net, Primed} /\ UNCHANGED <<polled, healthrecv>>
  BY <1>2, PrimeHealth, HealthSame DEF health, Coming
<1>. QED  BY <1>1, <1>2 DEF UpToCommand

LEMMA HealthStep == CodecTypeOK /\ PlaceInv /\ HealthInv /\ [Next]_vars => HealthInv'
<1> SUFFICES ASSUME CodecTypeOK, PlaceInv, HealthInv, [Next]_vars PROVE HealthInv'
  OBVIOUS
<1>0. ASSUME UNCHANGED <<net, health>> PROVE HealthInv'
  BY <1>0, HealthSame DEF Coming
<1>1. CASE SetupStep
  BY <1>1, SetupHealth
<1>2. CASE BootstrapTimesOut \/ SetupRaises \/ ClockHangs \/ PolicyDies \/ MeasureRaises \/ StopClock
             \/ PolicyHangs \/ SdkHangs \/ InterpreterExit
  BY <1>0, <1>2 DEF BootstrapTimesOut, SetupRaises, ClockHangs, PolicyDies, MeasureRaises, StopClock,
                    PolicyHangs, SdkHangs, InterpreterExit
<1>3. ASSUME NEW m \in net, ReceiveFile(m) \/ ReceiveHealth(m) \/ Lose(m) PROVE HealthInv'
  <2>1. CASE ReceiveFile(m) \/ Lose(m)
    <3>1. net' = net \ {m} /\ UNCHANGED health
      BY <2>1 DEF ReceiveFile, Lose
    <3>. QED  BY <3>1, HealthSame DEF Coming
  <2>. QED  BY <1>3, <2>1, ReceiveKeepsHealth
<1>4. ASSUME NEW i \in Sides, WriteFile(i) \/ WriterFails(i) PROVE HealthInv'
  <2>1. CASE WriteFile(i)
    <3>1. \A j \in Sides : Coming(j)' = Coming(j)
      BY <2>1 DEF WriteFile, Coming, Chunk
    <3>. QED  BY <2>1, <3>1, HealthSame DEF WriteFile
  <2>2. CASE WriterFails(i)
    BY <1>0, <2>2 DEF WriterFails
  <2>. QED  BY <1>4, <2>1, <2>2
<1>5. CASE Tick
  BY <1>5, TickHealth
<1>6. CASE CommandFails \/ CommandBlocks \/ Freeze
  BY <1>6, PollKeepsHealth, CommandHealth DEF CommandFails, CommandBlocks, Freeze
<1>7. ASSUME NEW good \in BOOLEAN, Judge(good) \/ EndVideo(good) \/ EndNodes(good)
      PROVE  HealthInv'
  BY <1>0, <1>7 DEF Judge, EndVideo, EndNodes
<1>8. CASE EndClock \/ EndFiles \/ EndPolicy \/ EndEngines \/ EndShaper \/ EndBinding
  BY <1>0, <1>8 DEF EndClock, EndFiles, EndPolicy, EndEngines, EndShaper, EndBinding
<1>9. CASE UNCHANGED vars
  BY <1>0, <1>9 DEF vars, health
<1>. QED  BY <1>1, <1>2, <1>3, <1>4, <1>5, <1>6, <1>7, <1>8, <1>9 DEF Next

-----------------------------------------------------------------------------
(* The lists are worked off in order.                                      *)

LEMMA Worked ==
    ASSUME NEW k \in 1..Len(Cleanup), InCleanup(k), Done, k # 11
    PROVE  k + 1 \in 1..Len(Cleanup) /\ steps' = SubSeq(Cleanup, k + 1, Len(Cleanup))
<1>1. Len(Cleanup) = 11 /\ Tail(steps) = SubSeq(Cleanup, k + 1, Len(Cleanup))
  BY CleanupList DEF InCleanup
<1>. QED  BY <1>1 DEF Done

(* Leaving the try block, by an exception or after the verdict.            *)
LEMMA EnterCleanup ==
    ASSUME steps' = Cleanup, phase' = "finally" PROVE PlaceInv'
<1>1. Cleanup \in Seq(CleanupNames) /\ Len(Cleanup) = 11
  BY DEF Cleanup, CleanupNames
<1>2. SubSeq(Cleanup, 1, Len(Cleanup)) = Cleanup
  BY ONLY <1>1, SubSeqFull
<1>3. InCleanup(1)'
  BY <1>2 DEF InCleanup
<1>. QED  BY <1>1, <1>3 DEF PlaceInv

LEMMA PlaceSame ==
    ASSUME PlaceInv, UNCHANGED <<phase, steps>>,
           \A k \in 1..Len(SetupSteps) : phase = "setup" /\ InSetup(k) => InSetup(k)',
           \A k \in 1..Len(Cleanup) : phase = "finally" /\ InCleanup(k) => InCleanup(k)'
    PROVE  PlaceInv'
BY DEF PlaceInv

LEMMA SetupPlace == PlaceInv /\ SetupStep => PlaceInv'
<1> SUFFICES ASSUME PlaceInv, SetupStep PROVE PlaceInv'
  OBVIOUS
<1>1. PICK k \in 1..Len(SetupSteps) : InSetup(k)
  BY DEF PlaceInv, SetupStep
<1>2. /\ Len(SetupSteps) = 16 /\ Head(steps) = SetupSteps[k] /\ k \in 1..16
      /\ Tail(steps) = SubSeq(SetupSteps, k + 1, Len(SetupSteps))
      /\ k < 16 => Tail(steps) # <<>>
  BY <1>1, SetupList DEF InSetup
<1>3. steps' = Tail(steps) /\ phase = "setup" /\ (steps' # <<>> => phase' = "setup")
      /\ (steps' = <<>> => phase' = "measure")
  BY DEF SetupStep
<1>4. CASE k < 16
  <2>1. k + 1 \in 1..Len(SetupSteps) /\ phase' = "setup"
    BY <1>2, <1>3, <1>4
  <2>2. ASSUME k + 1 <= 13 PROVE net' = {} /\ polled' = {} /\ \A i \in Sides : healthrecv'[i] = 0
    <3>1. Head(steps) # "prime" /\ k <= 13
      BY <1>2, <2>2, SetupPlaces
    <3>. QED  BY <1>1, <3>1 DEF SetupStep, InSetup, health
  <2>3. \A i \in Sides : writer'[i] # "writing"
    BY <1>1 DEF SetupStep, InSetup, files
  <2>4. InSetup(k + 1)'
    BY <1>2, <1>3, <2>2, <2>3 DEF InSetup
  <2>. QED  BY <2>1, <2>4 DEF PlaceInv
<1>5. CASE k = 16
  <2>1. phase' \in {"setup", "measure"} /\ (phase' = "setup" => steps' # <<>>)
    BY <1>3
  <2>2. steps' = <<>>
    BY <1>2, <1>3, <1>5, SubSeqEmpty
  <2>. QED  BY <1>3, <2>1, <2>2 DEF PlaceInv
<1>. QED  BY <1>2, <1>4, <1>5

LEMMA CleanupPlace ==
    PlaceInv /\ CodecTypeOK /\ (EndClock \/ EndFiles \/ EndPolicy \/ EndEngines \/ EndShaper \/ EndBinding
                 \/ \E good \in BOOLEAN : EndVideo(good)) => PlaceInv'
<1> SUFFICES ASSUME PlaceInv, CodecTypeOK, phase = "finally",
                    \/ EndClock \/ EndFiles \/ EndPolicy \/ EndEngines \/ EndShaper \/ EndBinding
                    \/ \E good \in BOOLEAN : EndVideo(good)
             PROVE  PlaceInv'
  BY DEF EndClock, EndFiles, EndPolicy, EndEngines, EndShaper, EndBinding, EndVideo, Ending
<1>1. PICK k \in 1..Len(Cleanup) : InCleanup(k)
  BY DEF PlaceInv
<1>2. Head(steps) = Cleanup[k] /\ k \in 1..11
  BY <1>1, CleanupList DEF InCleanup
<1>3. ASSUME Done, k # 11, InCleanup(k + 1)' PROVE PlaceInv'
  <2>1. k + 1 \in 1..Len(Cleanup)
    BY <1>1, <1>3, Worked
  <2>. QED  BY <1>3, <2>1 DEF PlaceInv, Done
<1>4. ASSUME Aborts PROVE PlaceInv'
  BY <1>4 DEF PlaceInv, Aborts
<1>5. CASE EndClock
  <2>1. k = 1
    BY <1>2, <1>5, CleanupPlaces DEF EndClock, Ending
  <2>2. CASE ~(clock = "stuck" /\ args.native)
    <3>1. Done /\ clock' # "running" /\ (args'.native => clock' # "stuck")
      BY <1>5, <2>2 DEF EndClock
    <3>2. InCleanup(k + 1)'
      BY <1>1, <2>1, <3>1, Worked DEF InCleanup
    <3>. QED  BY <1>3, <2>1, <3>1, <3>2
  <2>. QED  BY <1>4, <1>5, <2>2 DEF EndClock
<1>6. CASE EndFiles
  <2>1. k = 2 /\ Done
    BY <1>2, <1>6, CleanupPlaces DEF EndFiles, Ending
  <2>2. \A i \in Sides : writer'[i] # "writing"
    BY <1>6 DEF EndFiles
  <2>3. ok' => Writing' = {}
    BY <1>6 DEF EndFiles, Writing, CodecTypeOK
  <2>4. InCleanup(k + 1)'
    BY <1>1, <1>6, <2>1, <2>2, <2>3, Worked DEF InCleanup, EndFiles
  <2>. QED  BY <1>3, <2>1, <2>4
<1>7. CASE EndPolicy
  <2>1. k = 3
    BY <1>2, <1>7, CleanupPlaces DEF EndPolicy, Ending
  <2>2. CASE unsent
    BY <1>4, <1>7, <2>2 DEF EndPolicy
  <2>3. CASE ~unsent
    <3>1. Done /\ open' = open \ {"policy"} /\ UNCHANGED <<args, clock, writer, ok>>
      BY <1>7, <2>3 DEF EndPolicy, files
    <3>2. Writing' = Writing
      BY <3>1 DEF Writing
    <3>3. InCleanup(k + 1)'
      BY <1>1, <2>1, <3>1, <3>2, Worked DEF InCleanup
    <3>. QED  BY <1>3, <2>1, <3>1, <3>3
  <2>. QED  BY <2>2, <2>3
<1>8. ASSUME NEW good \in BOOLEAN, EndVideo(good) PROVE PlaceInv'
  <2>1. k = 4 /\ Done
    BY <1>2, <1>8, CleanupPlaces DEF EndVideo, Ending
  <2>2. /\ UNCHANGED <<args, clock, writer, open>> /\ (ok' => ok) /\ Writing' = Writing
    BY <1>8 DEF EndVideo, files, Writing
  <2>3. InCleanup(k + 1)'
    BY <1>1, <2>1, <2>2, Worked DEF InCleanup
  <2>. QED  BY <1>3, <2>1, <2>3
<1>9. CASE EndEngines
  <2>1. k = 5 /\ Done
    BY <1>2, <1>9, CleanupPlaces DEF EndEngines, Ending
  <2>2. /\ UNCHANGED <<args, clock, writer, ok>> /\ Writing' = Writing /\ open' = open \ {"engines"}
    BY <1>9 DEF EndEngines, files, Writing
  <2>3. InCleanup(k + 1)'
    BY <1>1, <2>1, <2>2, Worked DEF InCleanup
  <2>. QED  BY <1>3, <2>1, <2>3
<1>10. CASE EndShaper
  <2>1. k = 6 /\ Done
    BY <1>2, <1>10, CleanupPlaces DEF EndShaper, Ending
  <2>2. /\ UNCHANGED <<args, clock, writer>> /\ (ok' => ok) /\ Writing' = Writing
        /\ open' = open \ {"shaper"}
    BY <1>10 DEF EndShaper, files, Writing
  <2>3. InCleanup(k + 1)'
    BY <1>1, <2>1, <2>2, Worked DEF InCleanup
  <2>. QED  BY <1>3, <2>1, <2>3
<1>11. CASE EndBinding
  <2> DEFINE binding == IF Head(steps) = "file_bindings" THEN "files" ELSE Head(steps)
  <2>1. Done /\ open' = open \ {binding} /\ UNCHANGED <<args, clock, writer, ok>>
    BY <1>11 DEF EndBinding, files
  <2>2. Writing' = Writing
    BY <2>1 DEF Writing
  <2>3. \/ k = 7 /\ binding = "channels"
        \/ k = 8 /\ binding = "files"
        \/ k = 9 /\ binding = "controls"
        \/ k = 10 /\ binding = "apps"
    BY <1>2, <1>11, CleanupPlaces DEF EndBinding
  <2> HIDE DEF binding
  <2>4. k # 11 /\ steps' = SubSeq(Cleanup, k + 1, Len(Cleanup))
    BY <1>1, <2>1, <2>3, Worked
  <2>5. InCleanup(k + 1)'
    <3>1. CASE k = 7 /\ binding = "channels"
      BY <1>1, <2>1, <2>2, <2>4, <3>1 DEF InCleanup
    <3>2. CASE k = 8 /\ binding = "files"
      BY <1>1, <2>1, <2>2, <2>4, <3>2 DEF InCleanup
    <3>3. CASE k = 9 /\ binding = "controls"
      BY <1>1, <2>1, <2>2, <2>4, <3>3 DEF InCleanup
    <3>4. CASE k = 10 /\ binding = "apps"
      BY <1>1, <2>1, <2>2, <2>4, <3>4 DEF InCleanup
    <3>. QED  BY <2>3, <3>1, <3>2, <3>3, <3>4
  <2>. QED  BY <1>3, <2>1, <2>4, <2>5
<1>. QED  BY <1>5, <1>6, <1>7, <1>8, <1>9, <1>10, <1>11

LEMMA PlaceStep == PlaceInv /\ CodecTypeOK /\ [Next]_vars => PlaceInv'
<1> SUFFICES ASSUME PlaceInv, CodecTypeOK, [Next]_vars PROVE PlaceInv'
  OBVIOUS
<1>1. CASE SetupStep
  BY <1>1, SetupPlace
<1>2. CASE BootstrapTimesOut \/ SetupRaises \/ CommandFails \/ MeasureRaises
  BY <1>2, EnterCleanup DEF BootstrapTimesOut, SetupRaises, CommandFails, MeasureRaises, Caught
<1>3. ASSUME NEW m \in net, ReceiveFile(m) \/ ReceiveHealth(m) \/ Lose(m) PROVE PlaceInv'
  <2>1. UNCHANGED <<args, phase, steps, open, clock, writer, ok>>
    BY <1>3 DEF ReceiveFile, ReceiveHealth, Lose, files
  <2>2. ASSUME NEW k \in 1..Len(SetupSteps), InSetup(k) PROVE InSetup(k)'
    BY <2>1, <2>2 DEF InSetup
  <2>3. ASSUME NEW k \in 1..Len(Cleanup), InCleanup(k) PROVE InCleanup(k)'
    BY <2>1, <2>3 DEF InCleanup, Writing
  <2>. QED  BY <2>1, <2>2, <2>3, PlaceSame
<1>4. ASSUME NEW i \in Sides, WriteFile(i) \/ WriterFails(i) PROVE PlaceInv'
  <2>1. /\ UNCHANGED <<args, phase, steps, open, clock, polled, healthrecv, ok>>
        /\ writer[i] = "writing" /\ \A j \in Sides : j # i => writer'[j] = writer[j]
    BY <1>4 DEF WriteFile, WriterFails, health, CodecTypeOK
  <2>2. ASSUME NEW k \in 1..Len(SetupSteps), InSetup(k) PROVE InSetup(k)'
    BY <2>1, <2>2 DEF InSetup
  <2>3. ASSUME NEW k \in 1..Len(Cleanup), InCleanup(k) PROVE InCleanup(k)'
    <3>1. ~(k > 2)
      BY <2>1, <2>3 DEF InCleanup
    <3>2. k \in Int /\ ~(k > 3) /\ ~(k > 5) /\ ~(k > 6) /\ ~(k > 7) /\ ~(k > 8) /\ ~(k > 9) /\ ~(k > 10)
      BY <3>1
    <3>. QED  BY <2>1, <2>3, <3>1, <3>2 DEF InCleanup
  <2>. QED  BY <2>1, <2>2, <2>3, PlaceSame
<1>5. CASE ClockHangs
  <2>1. UNCHANGED <<args, phase, steps, open, net, polled, healthrecv, writer, ok>> /\ clock = "running"
    BY <1>5 DEF ClockHangs, files, health
  <2>2. ASSUME NEW k \in 1..Len(SetupSteps), InSetup(k) PROVE InSetup(k)'
    BY <2>1, <2>2 DEF InSetup
  <2>3. ASSUME NEW k \in 1..Len(Cleanup), InCleanup(k) PROVE InCleanup(k)'
    BY <2>1, <2>3 DEF InCleanup, Writing
  <2>. QED  BY <2>1, <2>2, <2>3, PlaceSame
<1>6. CASE PolicyDies \/ PolicyHangs \/ UNCHANGED vars
  <2>1. UNCHANGED <<args, phase, steps, open, clock, net, polled, healthrecv, writer, ok>>
    BY <1>6 DEF PolicyDies, PolicyHangs, vars, files, health
  <2>2. ASSUME NEW k \in 1..Len(SetupSteps), InSetup(k) PROVE InSetup(k)'
    BY <2>1, <2>2 DEF InSetup
  <2>3. ASSUME NEW k \in 1..Len(Cleanup), InCleanup(k) PROVE InCleanup(k)'
    BY <2>1, <2>3 DEF InCleanup, Writing
  <2>. QED  BY <2>1, <2>2, <2>3, PlaceSame
<1>7. CASE Tick \/ Freeze
  BY <1>7 DEF Tick, Freeze, PlaceInv
<1>8. CASE StopClock
  <2>1. CASE clock = "stuck"
    BY <1>8, <2>1, EnterCleanup DEF StopClock, Caught
  <2>2. CASE clock # "stuck"
    BY <1>8, <2>2 DEF StopClock, PlaceInv
  <2>. QED  BY <2>1, <2>2
<1>9. ASSUME NEW good \in BOOLEAN, Judge(good) \/ EndNodes(good) PROVE PlaceInv'
  <2>1. CASE Judge(good)
    BY <2>1, EnterCleanup DEF Judge
  <2>2. CASE EndNodes(good)
    BY <2>2 DEF EndNodes, PlaceInv
  <2>. QED  BY <1>9, <2>1, <2>2
<1>10. CASE EndClock \/ EndFiles \/ EndPolicy \/ EndEngines \/ EndShaper \/ EndBinding
              \/ \E good \in BOOLEAN : EndVideo(good)
  BY <1>10, CleanupPlace
<1>11. CASE CommandBlocks \/ SdkHangs \/ InterpreterExit
  BY <1>11 DEF CommandBlocks, SdkHangs, InterpreterExit, PlaceInv
<1>. QED  BY <1>1, <1>2, <1>3, <1>4, <1>5, <1>6, <1>7, <1>8, <1>9, <1>10, <1>11 DEF Next

-----------------------------------------------------------------------------
(* The verdict, and what may still happen after it.                        *)

(* When every side has heard what its peer has sent, nothing is on its way. *)
LEMMA AllHeard ==
    ASSUME CodecTypeOK, HealthInv, \A i \in Sides : Heard(i)
    PROVE  \A m \in net \cup polled : m.kind # "health"
<1>1. ASSUME NEW i \in Sides PROVE Coming(i) = {} /\ Waiting(i) = {}
  <2>1. /\ IsFiniteSet(Coming(i)) /\ IsFiniteSet(Waiting(i))
        /\ healthrecv[i] + Cardinality(Coming(i)) + Cardinality(Waiting(i)) <= healthsent[Peer[i]] + 1
        /\ healthrecv[i] = healthsent[Peer[i]] + 1
    BY DEF HealthInv, Heard
  <2>2. Cardinality(Coming(i)) \in Nat /\ Cardinality(Waiting(i)) \in Nat /\ healthrecv[i] \in Nat
    BY <2>1, FS_CardinalityType DEF CodecTypeOK
  <2>3. Cardinality(Coming(i)) = 0 /\ Cardinality(Waiting(i)) = 0
    BY <2>1, <2>2
  <2>. QED  BY <2>1, <2>3, FS_EmptySet
<1>2. ASSUME NEW m \in net \cup polled, m.kind = "health" PROVE FALSE
  <2>1. m.to \in Sides
    BY DEF CodecTypeOK, Message
  <2>2. m \in Coming(m.to) \/ m \in Waiting(m.to)
    BY <1>2 DEF Coming, Waiting
  <2>. QED  BY <1>1, <2>1, <2>2
<1>. QED  BY <1>2

BeforeVerdict == {"setup", "measure", "frozen", "judged"}

LEMMA NoVerdictYet ==
    ASSUME VerdictInv, phase \in BeforeVerdict, ok' = ok \/ ok' = FALSE, exit' = exit, torn' = torn,
           phase' = "judged" => clock' = "stopped"
    PROVE  VerdictInv'
<1>1. ~ok /\ torn = {} /\ exit # "green"
  BY DEF VerdictInv, BeforeVerdict
<1>. QED  BY <1>1 DEF VerdictInv

(* A callback, a thread or a fault leaves a verdict as it is.              *)
LEMMA VerdictStands ==
    ASSUME VerdictInv, UNCHANGED <<args, phase, frozen, torn, ok, exit, open>>,
           clock = "stopped" => clock' = "stopped",
           ok => \A m \in net' \cup polled' : m \in net \cup polled \/ m.kind # "health"
    PROVE  VerdictInv'
<1>1. ok => Earned'
  BY DEF VerdictInv, Earned
<1>. QED  BY <1>1 DEF VerdictInv

LEMMA CleanupVerdict ==
    ASSUME VerdictInv, phase = "finally", phase' \in {"finally", "exited"},
           UNCHANGED <<args, frozen, net, polled>>, exit' # "green",
           ok' => /\ ok /\ torn' = torn
                  /\ clock = "stopped" => clock' = "stopped"
    PROVE  VerdictInv'
<1>1. ok' => ok /\ Earned' /\ clock' = "stopped"
  BY DEF VerdictInv, Earned
<1>2. phase' \notin {"setup", "measure", "frozen", "judged"}
  OBVIOUS
<1>. QED  BY <1>1, <1>2 DEF VerdictInv

LEMMA EndingVerdict ==
    ASSUME CodecTypeOK, PlaceInv, VerdictInv,
           \/ EndClock \/ EndFiles \/ EndPolicy \/ EndEngines \/ EndShaper \/ EndBinding
           \/ \E good \in BOOLEAN : EndVideo(good)
    PROVE  VerdictInv'
<1>1. phase = "finally" /\ UNCHANGED <<args, frozen, net, polled>> /\ exit # "green"
  BY DEF EndClock, EndFiles, EndPolicy, EndEngines, EndShaper, EndBinding, EndVideo, Ending,
         evidence, health, VerdictInv
<1>2. phase' \in {"finally", "exited"} /\ exit' # "green"
  BY <1>1 DEF EndClock, EndFiles, EndPolicy, EndEngines, EndShaper, EndBinding, EndVideo, Done, Aborts
<1>3. ok' => ok /\ (clock = "stopped" => clock' = "stopped")
  BY DEF EndClock, EndFiles, EndPolicy, EndEngines, EndShaper, EndBinding, EndVideo, CodecTypeOK
<1>4. ASSUME ok' PROVE torn' = torn
  <2>1. clock = "stopped"
    BY <1>3, <1>4 DEF VerdictInv
  <2>2. CASE EndEngines
    BY <2>1, <2>2 DEF EndEngines, Running
  <2>3. CASE EndBinding
    <3>1. PICK k \in 1..Len(Cleanup) : InCleanup(k)
      BY <1>1 DEF PlaceInv
    <3>2. Head(steps) = Cleanup[k] /\ k \in 1..11
      BY <3>1, CleanupList DEF InCleanup
    <3>3. CASE Head(steps) = "file_bindings"
      <4>1. k = 8
        BY <3>2, <3>3, CleanupPlaces
      <4>2. Writing = {}
        BY <1>3, <1>4, <3>1, <4>1 DEF InCleanup
      <4>. QED  BY <2>3, <4>2 DEF EndBinding
    <3>4. CASE Head(steps) # "file_bindings"
      BY <2>3, <3>4 DEF EndBinding
    <3>. QED  BY <3>3, <3>4
  <2>4. CASE EndClock \/ EndFiles \/ EndPolicy \/ EndShaper \/ \E good \in BOOLEAN : EndVideo(good)
    BY <2>4 DEF EndClock, EndFiles, EndPolicy, EndShaper, EndVideo
  <2>. QED  BY <2>2, <2>3, <2>4
<1>. QED  BY <1>1, <1>2, <1>3, <1>4, CleanupVerdict

LEMMA VerdictStep ==
    CodecTypeOK /\ PlaceInv /\ HealthInv /\ VerdictInv /\ [Next]_vars => VerdictInv'
<1> SUFFICES ASSUME CodecTypeOK, PlaceInv, HealthInv, VerdictInv, [Next]_vars PROVE VerdictInv'
  OBVIOUS
<1>1. CASE SetupStep
  <2>1. phase \in BeforeVerdict /\ UNCHANGED <<ok, exit, torn>> /\ phase' # "judged"
    BY <1>1 DEF SetupStep, BeforeVerdict
  <2>. QED  BY <2>1, NoVerdictYet
<1>2. CASE BootstrapTimesOut \/ SetupRaises \/ CommandFails \/ MeasureRaises
  <2>1. /\ phase \in BeforeVerdict /\ ok' = FALSE /\ UNCHANGED <<exit, torn>> /\ phase' # "judged"
    BY <1>2 DEF BootstrapTimesOut, SetupRaises, CommandFails, UpToCommand, MeasureRaises, Caught, BeforeVerdict
  <2>. QED  BY <2>1, NoVerdictYet
<1>3. ASSUME NEW m \in net, ReceiveFile(m) \/ ReceiveHealth(m) \/ Lose(m) PROVE VerdictInv'
  <2>1. UNCHANGED <<args, phase, frozen, torn, ok, exit, open, clock>>
    BY <1>3 DEF ReceiveFile, ReceiveHealth, Lose, evidence
  <2>2. \A x \in net' \cup polled' : x \in net \cup polled
    BY <1>3 DEF ReceiveFile, ReceiveHealth, Lose, health
  <2>. QED  BY <2>1, <2>2, VerdictStands
<1>4. ASSUME NEW i \in Sides, WriteFile(i) \/ WriterFails(i) PROVE VerdictInv'
  <2>1. UNCHANGED <<args, phase, frozen, torn, ok, exit, open, clock>>
    BY <1>4 DEF WriteFile, WriterFails, evidence
  <2>2. \A x \in net' \cup polled' : x \in net \cup polled \/ x.kind # "health"
    BY <1>4 DEF WriteFile, WriterFails, health, Chunk
  <2>. QED  BY <2>1, <2>2, VerdictStands
<1>5. CASE ClockHangs \/ PolicyDies \/ PolicyHangs
  <2>1. UNCHANGED <<args, phase, frozen, torn, ok, exit, open, net, polled>>
    BY <1>5 DEF ClockHangs, PolicyDies, PolicyHangs, evidence, health
  <2>2. clock = "stopped" => clock' = "stopped"
    BY <1>5 DEF ClockHangs, PolicyDies, PolicyHangs
  <2>. QED  BY <2>1, <2>2, VerdictStands
<1>6. CASE Tick \/ Freeze
  <2>1. phase \in BeforeVerdict /\ UNCHANGED <<ok, exit, torn>> /\ phase' # "judged"
    BY <1>6 DEF Tick, Freeze, BeforeVerdict
  <2>. QED  BY <2>1, NoVerdictYet
<1>7. CASE StopClock
  <2>1. /\ phase \in BeforeVerdict /\ (ok' = ok \/ ok' = FALSE) /\ UNCHANGED <<exit, torn>>
        /\ phase' = "judged" => clock' = "stopped"
    BY <1>7 DEF StopClock, Caught, BeforeVerdict
  <2>. QED  BY <2>1, NoVerdictYet
<1>8. ASSUME NEW good \in BOOLEAN, Judge(good) PROVE VerdictInv'
  <2>1. /\ phase = "judged" /\ phase' = "finally" /\ exit' = exit
        /\ UNCHANGED <<args, net, polled, frozen, torn, clock>>
    BY <1>8 DEF Judge, health, evidence
  <2>2. torn = {} /\ clock = "stopped" /\ exit # "green"
    BY <2>1 DEF VerdictInv
  <2>3. ok' => (\A i \in Sides : Heard(i)) /\ (args.files => frozen.complete = Sides)
    BY <1>8 DEF Judge, FilesOk, Judged
  <2>4. ok' => Earned'
    BY <2>1, <2>2, <2>3, AllHeard DEF Earned
  <2>. QED  BY <2>1, <2>2, <2>4 DEF VerdictInv
<1>9. ASSUME NEW good \in BOOLEAN, EndNodes(good) PROVE VerdictInv'
  <2>1. /\ phase = "finally" /\ phase' = "exited" /\ open' = open \ {"nodes"}
        /\ UNCHANGED <<args, net, polled, frozen, torn, clock>> /\ (ok' => ok)
        /\ exit' = "green" => ok'
    BY <1>9 DEF EndNodes, Ending, health, evidence
  <2>2. PICK k \in 1..Len(Cleanup) : InCleanup(k)
    BY <2>1 DEF PlaceInv
  <2>3. k = 11
    BY <1>9, <2>2, CleanupList, CleanupPlaces DEF EndNodes, Ending, InCleanup
  <2>4. open' = {}
    <3>1. /\ "policy" \notin open /\ "engines" \notin open /\ "shaper" \notin open
          /\ "channels" \notin open /\ "files" \notin open /\ "controls" \notin open
          /\ "apps" \notin open
      BY <2>2, <2>3 DEF InCleanup
    <3>2. \A x \in open : x \in Lists
      BY DEF CodecTypeOK
    <3>3. \A x \in open : x = "nodes"
      BY <3>1, <3>2 DEF Lists
    <3>. QED  BY <2>1, <3>3
  <2>5. ok' => Earned' /\ clock' = "stopped"
    BY <2>1 DEF VerdictInv, Earned
  <2>. QED  BY <2>1, <2>4, <2>5 DEF VerdictInv
<1>10. CASE EndClock \/ EndFiles \/ EndPolicy \/ EndEngines \/ EndShaper \/ EndBinding
              \/ \E good \in BOOLEAN : EndVideo(good)
  BY <1>10, EndingVerdict
<1>11. CASE UNCHANGED vars
  BY <1>11, VerdictStands DEF vars, health, evidence
<1>12. CASE CommandBlocks
  <2>1. phase \in BeforeVerdict /\ UNCHANGED <<ok, exit, torn>> /\ phase' # "judged"
    BY <1>12 DEF CommandBlocks, UpToCommand, BeforeVerdict
  <2>. QED  BY <2>1, NoVerdictYet
<1>13. CASE SdkHangs \/ InterpreterExit
  <2>1. /\ UNCHANGED <<args, open, clock, net, polled, frozen, ok, exit, torn>>
        /\ phase' \in {"blocked", "gone"} /\ (phase' = "blocked" => phase \notin {"exited", "gone"})
    BY <1>13 DEF SdkHangs, InterpreterExit, health, evidence
  <2>2. ok => Earned'
    BY <2>1 DEF VerdictInv, Earned
  <2>. QED  BY <2>1, <2>2 DEF VerdictInv
<1>. QED  BY <1>1, <1>2, <1>3, <1>4, <1>5, <1>6, <1>7, <1>8, <1>9, <1>10, <1>11, <1>12, <1>13 DEF Next

(* Engines are closed only by a teardown that got past the clock.          *)
LEMMA DriverStep == PlaceInv /\ DriverKeepsItsEngines /\ [Next]_vars => DriverKeepsItsEngines'
<1> SUFFICES ASSUME PlaceInv, DriverKeepsItsEngines, [Next]_vars PROVE DriverKeepsItsEngines'
  OBVIOUS
<1>1. CASE EndEngines
  <2>1. PICK k \in 1..Len(Cleanup) : InCleanup(k)
    BY <1>1 DEF PlaceInv, EndEngines, Ending
  <2>2. k = 5
    BY <1>1, <2>1, CleanupList, CleanupPlaces DEF EndEngines, Ending, InCleanup
  <2>3. args.native => Running = {}
    BY <2>1, <2>2 DEF InCleanup, Running
  <2>. QED  BY <1>1, <2>3 DEF EndEngines, DriverKeepsItsEngines
<1>2. CASE EndBinding
  <2>1. args' = args /\ torn' \subseteq torn \cup {"files"}
    BY <1>2 DEF EndBinding
  <2>. QED  BY <2>1 DEF DriverKeepsItsEngines
<1>3. ASSUME UNCHANGED <<args, torn>> PROVE DriverKeepsItsEngines'
  BY <1>3 DEF DriverKeepsItsEngines
<1>4. CASE SetupStep \/ BootstrapTimesOut \/ SetupRaises \/ ClockHangs \/ PolicyDies \/ Tick
             \/ PolicyHangs \/ SdkHangs \/ CommandBlocks \/ InterpreterExit \/ CommandFails \/ MeasureRaises \/ Freeze \/ StopClock
  BY <1>3, <1>4 DEF SetupStep, BootstrapTimesOut, SetupRaises, ClockHangs, PolicyDies, Tick,
                    PolicyHangs, SdkHangs, CommandBlocks, InterpreterExit,
                    CommandFails, MeasureRaises, Freeze, StopClock
<1>5. CASE \E m \in net : ReceiveFile(m) \/ ReceiveHealth(m) \/ Lose(m)
  BY <1>3, <1>5 DEF ReceiveFile, ReceiveHealth, Lose
<1>6. CASE \E i \in Sides : WriteFile(i) \/ WriterFails(i)
  BY <1>3, <1>6 DEF WriteFile, WriterFails
<1>7. CASE \E good \in BOOLEAN : Judge(good) \/ EndVideo(good) \/ EndNodes(good)
  BY <1>3, <1>7 DEF Judge, EndVideo, EndNodes
<1>8. CASE EndClock \/ EndFiles \/ EndPolicy \/ EndShaper
  BY <1>3, <1>8 DEF EndClock, EndFiles, EndPolicy, EndShaper
<1>9. CASE UNCHANGED vars
  BY <1>3, <1>9 DEF vars
<1>. QED  BY <1>1, <1>2, <1>4, <1>5, <1>6, <1>7, <1>8, <1>9 DEF Next

-----------------------------------------------------------------------------
LEMMA CodecInitInv == Init => CodecInv
<1> SUFFICES ASSUME Init PROVE CodecInv
  OBVIOUS
<1>1. CodecTypeOK
  BY DEF Init, CodecTypeOK
<1>2. PlaceInv
  <2>1. SetupSteps \in Seq(SetupNames) /\ Len(SetupSteps) = 16
    BY DEF SetupSteps, SetupNames
  <2>2. SubSeq(SetupSteps, 1, Len(SetupSteps)) = SetupSteps /\ 1 \in 1..Len(SetupSteps)
    BY ONLY <2>1, SubSeqFull
  <2>3. InSetup(1)
    BY <2>2 DEF Init, InSetup
  <2>. QED  BY <2>2, <2>3 DEF Init, PlaceInv
<1>3. HealthInv
  <2>1. \A i \in Sides : Coming(i) = {} /\ Waiting(i) = {}
    BY DEF Init, Coming, Waiting
  <2>2. \A i \in Sides : healthrecv[i] = 0 /\ healthsent[Peer[i]] = 0
    BY CodecAssumption DEF Init
  <2>. QED  BY <2>1, <2>2, FS_EmptySet DEF HealthInv
<1>4. VerdictInv /\ DriverKeepsItsEngines
  BY DEF Init, VerdictInv, DriverKeepsItsEngines
<1>. QED  BY <1>1, <1>2, <1>3, <1>4 DEF CodecInv

LEMMA CodecStepInv == CodecInv /\ [Next]_vars => CodecInv'
BY TypeStep, PlaceStep, HealthStep, VerdictStep, DriverStep DEF CodecInv

(* The verdict counts what the files and the reports were when the         *)
(* workload ended, and the teardown can only take it back: finally block   *)
(* and summary of relay-codec-control.py.                                  *)
THEOREM GreenIsEarned == CodecSpec => []CodecGreenIsEarned
<1>1. CodecInv => CodecGreenIsEarned
  BY DEF CodecInv, VerdictInv, Earned, CodecGreenIsEarned
<1>. QED  BY CodecInitInv, CodecStepInv, <1>1, PTL DEF CodecSpec

(* A native driver that is stuck in a callback keeps its engines: the      *)
(* teardown ends before it gets to them.                                   *)
THEOREM EnginesAreKept == CodecSpec => []DriverKeepsItsEngines
<1>1. CodecInv => DriverKeepsItsEngines
  BY DEF CodecInv
<1>. QED  BY CodecInitInv, CodecStepInv, <1>1, PTL DEF CodecSpec
=============================================================================
