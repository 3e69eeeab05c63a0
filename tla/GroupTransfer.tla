---------------------------- MODULE GroupTransfer ----------------------------
(***************************************************************************)
(* A group snapshot that travels in slices to one member: the sender's     *)
(* sendGroupSnapshot, retireGroupTransfer and _collectGroupSliceAck        *)
(* (lib/state/messaging_replication.dart, messaging_outbox.dart) and the   *)
(* receiver's ingestGroupChunk.                                            *)
(*                                                                         *)
(* Every slice is a row of the outbox, sent again until it is retired.  A  *)
(* receiver acknowledges the transfer as a whole once the joined snapshot  *)
(* is durable; an older one, which ignores the mode of the transfer, then  *)
(* acknowledges every slice.  Storage runs its operations one at a time,   *)
(* each together with the continuation that awaits it.  The network is the *)
(* set of slices and acknowledgements ever sent.                           *)
(***************************************************************************)
EXTENDS Naturals, FiniteSets, SequencesExt

CONSTANTS
    Transfers,    \* transfer ids: group, digest of the snapshot, destination
    N,            \* slices of a transfer
    MaxReasm,     \* _kMaxGroupReasmConcurrent
    MaxProgress,  \* _maxGroupSliceAckTransfers
    Drops,        \* whether rows are given up, by age or to trim a backlog
    MayBeOld,     \* whether the receiver may be an older version
    MaxSends,     \* bound: calls of sendGroupSnapshot for a transfer
    MaxCrashes,   \* bound: crashes of the sender
    MaxRestarts,  \* bound: restarts of the receiver
    MaxRefusals,  \* bound: refused commits and declined snapshots
    MaxGate       \* bound: queued storage operations when an acknowledgement arrives

Indices == 0..(N - 1)
Slices  == Transfers \X Indices
Acks    == Transfers \X (0..N)          \* <<t, N>> acknowledges t as a whole
Of(t)   == {t} \X Indices

ASSUME GroupTransferAssumption ==
    /\ IsFiniteSet(Transfers) /\ N \in Nat \ {0}
    /\ MaxReasm \in Nat \ {0} /\ MaxProgress \in Nat \ {0}
    /\ Drops \in BOOLEAN /\ MayBeOld \in BOOLEAN
    /\ MaxSends \in Nat /\ MaxCrashes \in Nat /\ MaxRestarts \in Nat
    /\ MaxRefusals \in Nat /\ MaxGate \in Nat

VARIABLES
    rows,      \* stored slices
    gate,      \* _outboxGate: storage operations not yet performed
    next,      \* next slice sendGroupSnapshot queues; N when it is not running
    progress,  \* _groupSliceAcks, in order of insertion
    reasm,     \* _groupReasm of the receiver, in order of last progress
    completed, \* _completedGroupTransfers of the receiver
    old,       \* whether the receiver ignores the mode of a transfer
    net,       \* slices ever sent
    acks,      \* acknowledgements ever sent
    applied,   \* snapshots the receiver has made durable
    given,     \* history: slices given up at some time
    stored,    \* history: slices stored at some time
    sends, crashes, restarts, refusals   \* numbers of each so far

sender   == <<rows, gate, next, progress>>
receiver == <<reasm, completed, old, applied>>
network  == <<net, acks>>
history  == <<given, stored>>
bounds   == <<sends, crashes, restarts, refusals>>
vars == <<sender, receiver, network, history, bounds>>

Op == [op : {"enqueue", "scan", "ack one"}, slice : Slices]
      \cup [op : {"collect"}, of : Transfers, whole : BOOLEAN]
      \cup [op : {"ack all"}, of : Transfers, ids : SUBSET Slices]
Progress == [of : Transfers, known : SUBSET Indices, acked : SUBSET Indices]
Partial  == [of : Transfers, parts : SUBSET Indices]

Init ==
    /\ rows = {} /\ gate = <<>> /\ next = [t \in Transfers |-> N] /\ progress = <<>>
    /\ reasm = <<>> /\ completed = {} /\ old \in {FALSE, MayBeOld} /\ applied = {}
    /\ net = {} /\ acks = {} /\ given = {} /\ stored = {}
    /\ sends = [t \in Transfers |-> 0] /\ crashes = 0 /\ restarts = 0 /\ refusals = 0

Without(s, t) == RemoveFirstMatch(s, LAMBDA e : e.of = t)   \* a map has one entry at most
Entries(s, t) == {i \in DOMAIN s : s[i].of = t}
Performs(kind) == gate # <<>> /\ Head(gate).op = kind
Refused == refusals < MaxRefusals /\ refusals' = refusals + 1

-----------------------------------------------------------------------------
(* The sender.                                                             *)

StartSend(t) ==
    /\ sends[t] < MaxSends /\ sends' = [sends EXCEPT ![t] = @ + 1]
    /\ next[t] = N /\ next' = [next EXCEPT ![t] = 0]
    /\ UNCHANGED <<rows, gate, progress, receiver, network, history, crashes, restarts,
                   refusals>>

\* Mutant: the loop over the slices runs once too often.
SendNextPast(t) ==
    /\ next[t] <= N /\ sends[t] > 0 /\ next' = [next EXCEPT ![t] = @ + 1]
    /\ \A j \in DOMAIN gate : gate[j].op = "enqueue" => gate[j].slice[1] # t
    /\ gate' = Append(gate, [op |-> "enqueue", slice |-> <<t, next[t]>>])
    /\ UNCHANGED <<rows, progress, receiver, network, history, bounds>>

\* The next slice is queued when the first copy of the one before has been sent.
SendNext(t) ==
    /\ next[t] < N /\ next' = [next EXCEPT ![t] = @ + 1]
    /\ \A j \in DOMAIN gate : gate[j].op = "enqueue" => gate[j].slice[1] # t
    /\ gate' = Append(gate, [op |-> "enqueue", slice |-> <<t, next[t]>>])
    /\ UNCHANGED <<rows, progress, receiver, network, history, bounds>>

\* Noting slices in the entry of a transfer, if it has one.
Noted(s, t, known, acked) ==
    [i \in DOMAIN s |-> IF s[i].of = t
                        THEN [s[i] EXCEPT !.known = @ \cup known, !.acked = @ \cup acked]
                        ELSE s[i]]

\* enqueue: the slice is known to a running count of acknowledgements, and a copy goes out.
EnqueueDone ==
    /\ Performs("enqueue")
    /\ LET s == Head(gate).slice IN
       /\ rows' = rows \cup {s} /\ net' = net \cup {s} /\ stored' = stored \cup {s}
       /\ progress' = Noted(progress, s[1], {s[2]}, {})
    /\ gate' = Tail(gate)
    /\ UNCHANGED <<next, receiver, acks, given, bounds>>

\* sendGroupSnapshot throws, and the rest of the snapshot is not sent.
EnqueueFails ==
    /\ Performs("enqueue") /\ Refused
    /\ next' = [next EXCEPT ![Head(gate).slice[1]] = N]
    /\ gate' = Tail(gate)
    /\ UNCHANGED <<rows, progress, receiver, network, history, sends, crashes, restarts>>

\* An acknowledgement of one slice is noted; after the last one the transfer is collected.
NoteAck(s, q, p) ==
    LET noted == Noted(p, s[1], {}, {s[2]}) IN
    /\ progress' = noted
    /\ gate' = IF \E i \in Entries(noted, s[1]) : noted[i].acked = Indices
               THEN Append(q, [op |-> "collect", of |-> s[1], whole |-> TRUE])
               ELSE q

\* _retirePersisted of a slice: counted at once if the slice is known, else after a scan.
Retire(s) ==
    IF \E i \in Entries(progress, s[1]) : s[2] \in progress[i].known
    THEN NoteAck(s, gate, progress)
    ELSE /\ gate' = Append(gate, [op |-> "scan", slice |-> s])
         /\ UNCHANGED progress

\* The entry of a transfer, made at the expense of the oldest one.
Opened(t) ==
    IF Entries(progress, t) # {} THEN progress
    ELSE Append(IF Len(progress) >= MaxProgress THEN Tail(progress) ELSE progress,
                [of |-> t, known |-> {}, acked |-> {}])

\* Mutant: an acknowledged slice is retired by itself.
ScanAlone ==
    /\ Performs("scan")
    /\ gate' = Append(Tail(gate), [op |-> "ack one", slice |-> Head(gate).slice])
    /\ UNCHANGED <<rows, next, progress, receiver, network, history, bounds>>

\* _collectGroupSliceAck after its read: a slice that is not stored takes the ordinary way.
Scan ==
    /\ Performs("scan")
    /\ LET s == Head(gate).slice
           known == {j \in Indices : <<s[1], j>> \in rows} IN
       IF s \in rows
       THEN NoteAck(s, Tail(gate), Noted(Opened(s[1]), s[1], known, {}))
       ELSE /\ gate' = Append(Tail(gate), [op |-> "ack one", slice |-> s])
            /\ UNCHANGED progress
    /\ UNCHANGED <<rows, next, receiver, network, history, bounds>>

\* After a count of slices every slice must be there; the receiver's own word is enough.
Retirable(ids, whole) == ids # {} /\ (whole => Cardinality(ids) = N)

\* retireGroupTransfer after its read.
Collect ==
    /\ Performs("collect")
    /\ LET t == Head(gate).of
           ids == rows \cap Of(t) IN
       gate' = IF Retirable(ids, Head(gate).whole)
               THEN Append(Tail(gate), [op |-> "ack all", of |-> t, ids |-> ids])
               ELSE Tail(gate)
    /\ UNCHANGED <<rows, next, progress, receiver, network, history, bounds>>

\* ackOutboxFrames: one commit for all of them.
AckAll ==
    /\ Performs("ack all")
    /\ rows' = rows \ Head(gate).ids
    /\ progress' = IF rows \cap Head(gate).ids = {} THEN progress
                   ELSE Without(progress, Head(gate).of)
    /\ gate' = Tail(gate)
    /\ UNCHANGED <<next, receiver, network, history, bounds>>

AckOne ==
    /\ Performs("ack one")
    /\ rows' = rows \ {Head(gate).slice} /\ gate' = Tail(gate)
    /\ UNCHANGED <<next, progress, receiver, network, history, bounds>>

AckFails ==
    /\ Performs("ack all") \/ Performs("ack one")
    /\ Refused /\ gate' = Tail(gate)
    /\ UNCHANGED <<rows, next, progress, receiver, network, history, sends, crashes,
                   restarts>>

\* The ack arm: the acknowledgement of a transfer collects it, one of a slice is counted.
AckArrives(a) ==
    /\ a \in acks /\ Len(gate) < MaxGate
    /\ IF a[2] = N
       THEN /\ gate' = Append(gate, [op |-> "collect", of |-> a[1], whole |-> FALSE])
            /\ UNCHANGED progress
       ELSE Retire(a)
    /\ UNCHANGED <<rows, next, receiver, network, history, bounds>>

\* A row is too old, or part of a backlog that is let go of (_retireStaleReplication,
\* dropReplicationBacklogFor): it is retired as by an acknowledgement.
GiveUp(s) ==
    /\ Drops /\ s \in rows /\ Len(gate) < MaxGate
    /\ given' = given \cup {s} /\ Retire(s)
    /\ UNCHANGED <<rows, next, receiver, network, stored, bounds>>

SenderCrash ==
    /\ crashes < MaxCrashes /\ crashes' = crashes + 1
    /\ \/ UNCHANGED <<rows, stored>>
       \/ /\ Performs("enqueue")
          /\ rows' = rows \cup {Head(gate).slice} /\ stored' = stored \cup {Head(gate).slice}
       \/ Performs("ack all") /\ rows' = rows \ Head(gate).ids /\ UNCHANGED stored
       \/ Performs("ack one") /\ rows' = rows \ {Head(gate).slice} /\ UNCHANGED stored
    /\ gate' = <<>> /\ next' = [t \in Transfers |-> N] /\ progress' = <<>>
    /\ UNCHANGED <<receiver, network, given, sends, restarts, refusals>>

-----------------------------------------------------------------------------
(* The receiver.                                                           *)

\* Every flush sends a stored slice again.
InFlight == net \cup rows

\* The parts of a transfer with slice s; a new one takes the place of the least recently
\* advanced.
PartsWith(s) == {s[2]} \cup UNION {reasm[i].parts : i \in Entries(reasm, s[1])}
Advanced(s) ==
    Append(IF Entries(reasm, s[1]) = {} /\ Len(reasm) >= MaxReasm THEN Tail(reasm)
           ELSE Without(reasm, s[1]),
           [of |-> s[1], parts |-> PartsWith(s)])

\* A version that ignores the mode acknowledges a slice of a snapshot it has completed.
TakeCompleted(s) ==
    /\ s \in InFlight /\ old /\ s[1] \in completed
    /\ acks' = acks \cup {s}
    /\ UNCHANGED <<sender, receiver, net, history, bounds>>

Assembles(s) ==
    /\ s \in InFlight /\ ~(old /\ s[1] \in completed)
    /\ \A i \in Entries(reasm, s[1]) : s[2] \notin reasm[i].parts

TakePart(s) ==
    /\ Assembles(s) /\ PartsWith(s) # Indices
    /\ reasm' = Advanced(s)
    /\ UNCHANGED <<sender, completed, old, applied, network, history, bounds>>

\* What a receiver acknowledges when the snapshot is durable.
Answer(t) == IF old THEN Of(t) ELSE {<<t, N>>}

\* The last slice: the joined snapshot is applied, unless it has been since the last restart...
TakeLast(s) ==
    /\ Assembles(s) /\ PartsWith(s) = Indices
    /\ reasm' = Without(reasm, s[1])
    /\ applied' = applied \cup {s[1]} /\ completed' = completed \cup {s[1]}
    /\ acks' = acks \cup Answer(s[1])
    /\ UNCHANGED <<sender, old, net, history, bounds>>

\* Mutant: the slices of a snapshot that could not be applied are acknowledged.
DeclineWithAnswer(s) ==
    /\ Assembles(s) /\ PartsWith(s) = Indices /\ s[1] \notin completed /\ Refused
    /\ reasm' = Without(reasm, s[1]) /\ acks' = acks \cup Answer(s[1])
    /\ UNCHANGED <<sender, completed, old, applied, net, history, sends, crashes,
                   restarts>>

\* ... or it cannot be applied, and its slices are gone without an answer.
Decline(s) ==
    /\ Assembles(s) /\ PartsWith(s) = Indices /\ s[1] \notin completed /\ Refused
    /\ reasm' = Without(reasm, s[1])
    /\ UNCHANGED <<sender, completed, old, applied, network, history, sends, crashes,
                   restarts>>

\* The receiver restarts, perhaps as a newer version.
Restart ==
    /\ restarts < MaxRestarts /\ restarts' = restarts + 1
    /\ reasm' = <<>> /\ completed' = {} /\ old' \in {old, FALSE}
    /\ UNCHANGED <<sender, applied, network, history, sends, crashes, refusals>>

-----------------------------------------------------------------------------
StorageStep == EnqueueDone \/ Scan \/ Collect \/ AckAll \/ AckOne
Take(s) == TakeCompleted(s) \/ TakePart(s) \/ TakeLast(s)

TakeStored(s) == s \in rows /\ Take(s)
GiveUpAgain(s) == s \in given /\ GiveUp(s)

Next ==
    \/ StorageStep \/ EnqueueFails \/ AckFails \/ SenderCrash \/ Restart
    \/ \E t \in Transfers : StartSend(t) \/ SendNext(t)
    \/ \E s \in Slices : GiveUp(s) \/ Take(s) \/ Decline(s)
    \/ \E a \in Acks : AckArrives(a)

Spec == Init /\ [][Next]_vars

-----------------------------------------------------------------------------
(* Safety.                                                                 *)

\* Every variable stays in its set, and the two tables keep to their size.
TypeOK ==
    /\ rows \subseteq Slices /\ gate \in Seq(Op) /\ next \in [Transfers -> 0..N]
    /\ progress \in Seq(Progress) /\ Len(progress) <= MaxProgress
    /\ reasm \in Seq(Partial) /\ Len(reasm) <= MaxReasm
    /\ completed \subseteq Transfers /\ old \in BOOLEAN /\ applied \subseteq Transfers
    /\ net \subseteq Slices /\ acks \subseteq Acks
    /\ given \subseteq Slices /\ stored \subseteq Slices
    /\ sends \in [Transfers -> 0..MaxSends] /\ crashes \in 0..MaxCrashes
    /\ restarts \in 0..MaxRestarts /\ refusals \in 0..MaxRefusals

\* No slice leaves the outbox before its receiver has made the whole snapshot durable, unless
\* the sender gave slices of it up: whatever was acknowledged, by whichever version of the
\* receiver, and however often either side restarted, the bytes a receiver needs to start over
\* are all there (_groupSliceAcks, retireGroupTransfer, ingestGroupChunk).
RetiredIsApplied ==
    \A t \in Transfers : given \cap Of(t) = {} /\ t \notin applied
                         => stored \cap Of(t) \subseteq rows

-----------------------------------------------------------------------------
(* Liveness.                                                               *)

\* Storage and calls go on, a stored slice and an acknowledgement get through in the end, and
\* every flush pass gives an old row up again.
Fairness ==
    /\ WF_vars(StorageStep) /\ \A t \in Transfers : WF_vars(SendNext(t))
    /\ \A s \in Slices : SF_vars(TakeStored(s)) /\ SF_vars(GiveUpAgain(s))
    /\ \A a \in Acks : SF_vars(AckArrives(a))

LiveSpec == Spec /\ Fairness

\* A snapshot that is stored whole is retired whole in the end.
WholeIsRetired == \A t \in Transfers : Of(t) \subseteq rows ~> rows \cap Of(t) = {}

\* A slice that is given up goes: "a peer that stops accepting no longer leaves an unbounded,
\* permanent backlog behind it" (_retireStaleReplication).
GivenUpGoes == \A s \in Slices : s \in given /\ s \in rows ~> ~(s \in given /\ s \in rows)
=============================================================================
