------------------------ MODULE GroupTransferProofs ------------------------
(***************************************************************************)
(* Proof that a slice leaves the outbox only for a snapshot its receiver   *)
(* has made durable, or that the sender gave up.  RetiredIsApplied is not  *)
(* inductive: the invariant adds that every acknowledgement in the network *)
(* and every retirement waiting for the storage is of such a snapshot.     *)
(* With it every variable stays in its set: what a storage operation takes *)
(* out of the queue is of a transfer there is.                             *)
(***************************************************************************)
EXTENDS GroupTransfer, SequenceTheorems, WellFoundedInduction, TLAPS

\* The transfers a slice may be retired of.
Done == {t \in Transfers : t \in applied \/ given \cap Of(t) # {}}

\* The transfer of a storage operation.
Subject(e) == IF e.op \in {"collect", "ack all"} THEN e.of ELSE e.slice[1]

\* A storage operation that may take slices of the transfers of D only.
Fit(e, D) ==
    /\ e \in Op
    /\ e.op # "enqueue" => Subject(e) \in D
    /\ e.op = "ack all" => e.ids \subseteq Of(e.of)

GateOK(g, D) == g \in Seq(Op) /\ \A j \in 1..Len(g) : Fit(g[j], D)

Kinds ==
    /\ rows \subseteq Slices /\ acks \subseteq Acks
    /\ next \in [Transfers -> 0..N] /\ completed \subseteq applied
    /\ applied \subseteq Transfers

AckedIsApplied == \A a \in acks : a[1] \in applied

RetiredInv == Kinds /\ AckedIsApplied /\ GateOK(gate, Done) /\ RetiredIsApplied

-----------------------------------------------------------------------------
(* Queues of storage operations.                                           *)

LEMMA GatePush ==
  ASSUME NEW D, NEW g, GateOK(g, D), NEW e, Fit(e, D)
  PROVE  GateOK(Append(g, e), D)
  <1>1. g \in Seq(Op) /\ e \in Op
    BY DEF GateOK, Fit
  <1>2. /\ Append(g, e) \in Seq(Op)
        /\ \A j \in 1..Len(Append(g, e)) :
             Append(g, e)[j] = e \/ (j \in 1..Len(g) /\ Append(g, e)[j] = g[j])
    BY <1>1
  <1>3. QED
    BY <1>2 DEF GateOK

LEMMA GatePop ==
  ASSUME NEW D, NEW g, GateOK(g, D), g # <<>>
  PROVE  GateOK(Tail(g), D) /\ Fit(Head(g), D)
  <1>1. 1 \in 1..Len(g) /\ Head(g) = g[1]
    BY DEF GateOK
  <1>2. Tail(g) \in Seq(Op) /\ Len(Tail(g)) = Len(g) - 1 /\ Len(g) \in Nat
    BY DEF GateOK
  <1>3. \A j \in 1..Len(Tail(g)) : j + 1 \in 1..Len(g) /\ Tail(g)[j] = g[j + 1]
    BY <1>2 DEF GateOK
  <1>4. QED
    BY <1>1, <1>2, <1>3 DEF GateOK

LEMMA GateGrows ==
  ASSUME NEW D, NEW E, D \subseteq E, NEW g, GateOK(g, D)
  PROVE  GateOK(g, E)
  BY DEF GateOK, Fit

LEMMA GateEmpty ==
  ASSUME NEW D
  PROVE  GateOK(<<>>, D)
  BY DEF GateOK

\* The transfers that may be retired only grow in number.
LEMMA DoneGrows ==
  ASSUME applied \subseteq applied', given \subseteq given'
  PROVE  Done \subseteq Done'
  BY DEF Done

\* A step that takes no row of a transfer which is not done.
LEMMA KeepsRows ==
  ASSUME RetiredInv, Kinds', AckedIsApplied', GateOK(gate', Done),
         applied \subseteq applied', given \subseteq given',
         \A s \in rows \ rows' : s[1] \in Done,
         \A s \in stored' \ stored : s \in rows'
  PROVE  RetiredInv'
  <1>1. Done \subseteq Done'
    BY DoneGrows
  <1>2. GateOK(gate', Done')
    BY <1>1, GateGrows
  <1>3. RetiredIsApplied'
    <2> SUFFICES ASSUME NEW t \in Transfers, given' \cap Of(t) = {}, t \notin applied',
                        NEW s \in stored' \cap Of(t)
                 PROVE  s \in rows'
      BY DEF RetiredIsApplied
    <2>1. t \notin Done /\ given \cap Of(t) = {} /\ t \notin applied
      BY DEF Done
    <2>2. s[1] = t
      BY DEF Of
    <2>3. QED
      BY <2>1, <2>2 DEF RetiredInv, RetiredIsApplied
  <1>4. QED
    BY <1>2, <1>3 DEF RetiredInv

\* Counting an acknowledgement of a slice queues at most the collection of its transfer.
LEMMA NoteAckOK ==
  ASSUME NEW D, NEW s \in Slices, NEW q, NEW p, GateOK(q, D), s[1] \in D, NoteAck(s, q, p)
  PROVE  GateOK(gate', D)
  <1> DEFINE e == [op |-> "collect", of |-> s[1], whole |-> TRUE]
  <1>1. Fit(e, D)
    BY DEF Fit, Op, Subject, Slices
  <1>2. gate' = q \/ gate' = Append(q, e)
    BY DEF NoteAck
  <1>3. QED
    BY <1>1, <1>2, GatePush

LEMMA RetireOK ==
  ASSUME NEW D, NEW s \in Slices, GateOK(gate, D), s[1] \in D, Retire(s)
  PROVE  GateOK(gate', D)
  <1>1. CASE NoteAck(s, gate, progress)
    BY <1>1, NoteAckOK
  <1>2. CASE gate' = Append(gate, [op |-> "scan", slice |-> s])
    <2>1. Fit([op |-> "scan", slice |-> s], D)
      BY DEF Fit, Op, Subject
    <2>2. QED
      BY <1>2, <2>1, GatePush
  <1>3. QED
    BY <1>1, <1>2 DEF Retire

-----------------------------------------------------------------------------
(* The steps.                                                              *)

LEMMA InitRetired == Init => RetiredInv
  <1> SUFFICES ASSUME Init PROVE RetiredInv
    OBVIOUS
  <1>1. Kinds
    BY GroupTransferAssumption DEF Init, Kinds
  <1>2. GateOK(gate, Done)
    BY GateEmpty DEF Init
  <1>3. QED
    BY <1>1, <1>2 DEF Init, RetiredInv, AckedIsApplied, RetiredIsApplied

\* A step that only advances the sender's program or its queue.
LEMMA OnlyGate ==
  ASSUME RetiredInv, GateOK(gate', Done), next' \in [Transfers -> 0..N],
         UNCHANGED <<rows, stored, given, acks, completed, applied>>
  PROVE  RetiredInv'
  <1>1. Kinds' /\ AckedIsApplied'
    BY DEF RetiredInv, Kinds, AckedIsApplied
  <1>2. QED
    BY <1>1, KeepsRows

LEMMA HeadFit ==
  ASSUME RetiredInv, NEW kind, Performs(kind)
  PROVE  /\ GateOK(Tail(gate), Done) /\ Fit(Head(gate), Done) /\ Head(gate).op = kind
         /\ gate \in Seq(Op) /\ gate # <<>>
  BY GatePop DEF RetiredInv, Performs, GateOK

LEMMA StartSendStep == ASSUME RetiredInv, NEW t \in Transfers, StartSend(t) PROVE RetiredInv'
  <1>1. next' \in [Transfers -> 0..N]
    BY GroupTransferAssumption DEF StartSend, RetiredInv, Kinds
  <1>2. GateOK(gate', Done)
    BY DEF StartSend, RetiredInv
  <1>3. QED
    BY <1>1, <1>2, OnlyGate DEF StartSend, receiver, network, history

LEMMA SendNextStep == ASSUME RetiredInv, NEW t \in Transfers, SendNext(t) PROVE RetiredInv'
  <1> DEFINE e == [op |-> "enqueue", slice |-> <<t, next[t]>>]
  <1>1. next[t] \in Indices /\ next' \in [Transfers -> 0..N]
    BY GroupTransferAssumption DEF SendNext, RetiredInv, Kinds, Indices
  <1>2. Fit(e, Done)
    BY <1>1 DEF Fit, Op, Slices
  <1>3. GateOK(gate', Done)
    BY <1>2, GatePush DEF SendNext, RetiredInv
  <1>4. QED
    BY <1>1, <1>3, OnlyGate DEF SendNext, receiver, network, history

LEMMA EnqueueDoneStep == ASSUME RetiredInv, EnqueueDone PROVE RetiredInv'
  <1> DEFINE s == Head(gate).slice
  <1>1. GateOK(gate', Done) /\ Fit(Head(gate), Done) /\ Head(gate).op = "enqueue"
    BY HeadFit DEF EnqueueDone
  <1>2. s \in Slices
    BY <1>1 DEF Fit, Op
  <1>3. /\ rows' = rows \cup {s} /\ stored' = stored \cup {s}
        /\ UNCHANGED <<next, acks, completed, applied, given>>
    BY DEF EnqueueDone, receiver
  <1>4. Kinds' /\ AckedIsApplied'
    BY <1>2, <1>3 DEF RetiredInv, Kinds, AckedIsApplied
  <1>5. QED
    BY <1>1, <1>3, <1>4, KeepsRows

LEMMA EnqueueFailsStep == ASSUME RetiredInv, EnqueueFails PROVE RetiredInv'
  <1>1. GateOK(gate', Done)
    BY HeadFit DEF EnqueueFails
  <1>2. N \in 0..N /\ next \in [Transfers -> 0..N]
    BY GroupTransferAssumption DEF RetiredInv, Kinds
  <1>3. next' \in [Transfers -> 0..N]
    BY <1>2 DEF EnqueueFails
  <1>4. QED
    BY <1>1, <1>3, OnlyGate DEF EnqueueFails, receiver, network, history

LEMMA ScanStep == ASSUME RetiredInv, Scan PROVE RetiredInv'
  <1> DEFINE s == Head(gate).slice
             e == [op |-> "ack one", slice |-> s]
             known == {j \in Indices : <<s[1], j>> \in rows}
  <1>1. GateOK(Tail(gate), Done) /\ Fit(Head(gate), Done) /\ Head(gate).op = "scan"
    BY HeadFit DEF Scan
  <1>2. s \in Slices /\ s[1] \in Done
    BY <1>1 DEF Fit, Op, Subject
  <1>3. GateOK(gate', Done)
    <2>1. CASE s \in rows
      <3>1. NoteAck(s, Tail(gate), Noted(Opened(s[1]), s[1], known, {}))
        BY <2>1 DEF Scan
      <3>2. QED
        BY <1>1, <1>2, <3>1, NoteAckOK
    <2>2. CASE s \notin rows
      <3>1. Fit(e, Done)
        BY <1>2 DEF Fit, Op, Subject
      <3>2. QED
        BY <1>1, <2>2, <3>1, GatePush DEF Scan
    <2>3. QED
      BY <2>1, <2>2
  <1>4. QED
    BY <1>3, OnlyGate DEF Scan, receiver, network, history, RetiredInv, Kinds

LEMMA CollectStep == ASSUME RetiredInv, Collect PROVE RetiredInv'
  <1> DEFINE t == Head(gate).of
             ids == rows \cap Of(t)
             e == [op |-> "ack all", of |-> t, ids |-> ids]
  <1>1. GateOK(Tail(gate), Done) /\ Fit(Head(gate), Done) /\ Head(gate).op = "collect"
    BY HeadFit DEF Collect
  <1>2. t \in Transfers /\ t \in Done
    BY <1>1 DEF Fit, Op, Subject
  <1>3. Fit(e, Done)
    BY <1>2 DEF Fit, Op, Subject, RetiredInv, Kinds
  <1>4. GateOK(gate', Done)
    BY <1>1, <1>3, GatePush DEF Collect
  <1>5. QED
    BY <1>4, OnlyGate DEF Collect, receiver, network, history, RetiredInv, Kinds

LEMMA AckAllStep == ASSUME RetiredInv, AckAll PROVE RetiredInv'
  <1>1. GateOK(gate', Done) /\ Fit(Head(gate), Done) /\ Head(gate).op = "ack all"
    BY HeadFit DEF AckAll
  <1>2. \A s \in Head(gate).ids : s[1] \in Done
    BY <1>1 DEF Fit, Subject, Of
  <1>3. /\ rows' = rows \ Head(gate).ids
        /\ UNCHANGED <<next, stored, acks, completed, applied, given>>
    BY DEF AckAll, receiver, network, history
  <1>4. Kinds' /\ AckedIsApplied'
    BY <1>3 DEF RetiredInv, Kinds, AckedIsApplied
  <1>5. QED
    BY <1>1, <1>2, <1>3, <1>4, KeepsRows

LEMMA AckOneStep == ASSUME RetiredInv, AckOne PROVE RetiredInv'
  <1>1. GateOK(gate', Done) /\ Fit(Head(gate), Done) /\ Head(gate).op = "ack one"
    BY HeadFit DEF AckOne
  <1>2. Head(gate).slice[1] \in Done
    BY <1>1 DEF Fit, Subject
  <1>3. /\ rows' = rows \ {Head(gate).slice}
        /\ UNCHANGED <<next, stored, acks, completed, applied, given>>
    BY DEF AckOne, receiver, network, history
  <1>4. Kinds' /\ AckedIsApplied'
    BY <1>3 DEF RetiredInv, Kinds, AckedIsApplied
  <1>5. QED
    BY <1>1, <1>2, <1>3, <1>4, KeepsRows

LEMMA AckFailsStep == ASSUME RetiredInv, AckFails PROVE RetiredInv'
  <1>1. GateOK(gate', Done)
    BY HeadFit DEF AckFails
  <1>2. QED
    BY <1>1, OnlyGate DEF AckFails, receiver, network, history, RetiredInv, Kinds

LEMMA AckArrivesStep == ASSUME RetiredInv, NEW a \in Acks, AckArrives(a) PROVE RetiredInv'
  <1>1. a[1] \in Transfers /\ a[1] \in Done
    BY DEF AckArrives, RetiredInv, AckedIsApplied, Kinds, Done
  <1>2. CASE a[2] = N
    <2>1. Fit([op |-> "collect", of |-> a[1], whole |-> FALSE], Done)
      BY <1>1 DEF Fit, Op, Subject
    <2>2. GateOK(gate', Done)
      BY <1>2, <2>1, GatePush DEF AckArrives, RetiredInv
    <2>3. QED
      BY <2>2, OnlyGate DEF AckArrives, receiver, network, history, RetiredInv, Kinds
  <1>3. CASE a[2] # N
    <2>1. a \in Slices
      BY <1>3, GroupTransferAssumption DEF Acks, Slices, Indices
    <2>2. GateOK(gate', Done)
      BY <1>1, <1>3, <2>1, RetireOK DEF AckArrives, RetiredInv
    <2>3. QED
      BY <2>2, OnlyGate DEF AckArrives, receiver, network, history, RetiredInv, Kinds
  <1>4. QED
    BY <1>2, <1>3

\* What is given up is done: its sender owes it to nobody.
LEMMA GiveUpStep == ASSUME RetiredInv, NEW s \in Slices, GiveUp(s) PROVE RetiredInv'
  <1>1. /\ given' = given \cup {s} /\ Retire(s)
        /\ UNCHANGED <<rows, next, acks, completed, applied, stored>>
    BY DEF GiveUp, receiver, network
  <1>2. s[1] \in Done'
    <2>1. s[1] \in Transfers /\ s \in Of(s[1])
      BY DEF Slices, Of
    <2>2. QED
      BY <1>1, <2>1 DEF Done
  <1>3. GateOK(gate, Done')
    BY <1>1, DoneGrows, GateGrows DEF RetiredInv
  <1>4. GateOK(gate', Done')
    BY <1>1, <1>2, <1>3, RetireOK
  <1>5. Kinds' /\ AckedIsApplied' /\ RetiredIsApplied'
    BY <1>1 DEF RetiredInv, Kinds, AckedIsApplied, RetiredIsApplied
  <1>6. QED
    BY <1>4, <1>5 DEF RetiredInv

LEMMA SenderCrashStep == ASSUME RetiredInv, SenderCrash PROVE RetiredInv'
  <1>1. /\ gate' = <<>> /\ next' = [t \in Transfers |-> N]
        /\ UNCHANGED <<acks, completed, applied, given>>
    BY DEF SenderCrash, receiver, network
  <1>2. GateOK(gate', Done)
    BY <1>1, GateEmpty
  <1>3. \A s \in rows \ rows' : s[1] \in Done
    <2>1. CASE UNCHANGED rows
      BY <2>1
    <2>2. CASE Performs("enqueue") /\ rows' = rows \cup {Head(gate).slice}
      BY <2>2
    <2>3. CASE Performs("ack all") /\ rows' = rows \ Head(gate).ids
      <3>1. Fit(Head(gate), Done) /\ Head(gate).op = "ack all"
        BY <2>3, HeadFit
      <3>2. QED
        BY <2>3, <3>1 DEF Fit, Subject, Of
    <2>4. CASE Performs("ack one") /\ rows' = rows \ {Head(gate).slice}
      <3>1. Fit(Head(gate), Done) /\ Head(gate).op = "ack one"
        BY <2>4, HeadFit
      <3>2. QED
        BY <2>4, <3>1 DEF Fit, Subject
    <2>5. QED
      BY <2>1, <2>2, <2>3, <2>4 DEF SenderCrash
  <1>4. rows' \subseteq Slices /\ \A s \in stored' \ stored : s \in rows'
    <2>1. CASE Performs("enqueue") /\ rows' = rows \cup {Head(gate).slice}
               /\ stored' = stored \cup {Head(gate).slice}
      <3>1. Head(gate).slice \in Slices
        <4>1. Fit(Head(gate), Done) /\ Head(gate).op = "enqueue"
          BY <2>1, HeadFit
        <4>2. QED
          BY <4>1 DEF Fit, Op
      <3>2. QED
        BY <2>1, <3>1 DEF RetiredInv, Kinds
    <2>2. CASE rows' \subseteq rows /\ UNCHANGED stored
      BY <2>2 DEF RetiredInv, Kinds
    <2>3. QED
      BY <2>1, <2>2 DEF SenderCrash
  <1>5. Kinds' /\ AckedIsApplied'
    BY <1>1, <1>4, GroupTransferAssumption DEF RetiredInv, Kinds, AckedIsApplied
  <1>6. QED
    BY <1>1, <1>2, <1>3, <1>4, <1>5, KeepsRows

\* A step of the receiver: what it acknowledges, it has applied.
LEMMA ReceiverStep ==
  ASSUME RetiredInv, UNCHANGED <<sender, history>>,
         applied \subseteq applied', applied' \subseteq Transfers,
         completed' \subseteq applied', acks' \subseteq Acks,
         \A a \in acks' \ acks : a[1] \in applied'
  PROVE  RetiredInv'
  <1>1. Kinds' /\ AckedIsApplied'
    BY DEF RetiredInv, Kinds, AckedIsApplied, sender
  <1>2. GateOK(gate', Done)
    BY DEF RetiredInv, sender
  <1>3. QED
    BY <1>1, <1>2, KeepsRows DEF sender, history

LEMMA TakeCompletedStep ==
  ASSUME RetiredInv, NEW s \in Slices, TakeCompleted(s) PROVE RetiredInv'
  <1>1. s \in Acks
    BY GroupTransferAssumption DEF Slices, Acks, Indices
  <1>2. QED
    BY <1>1, ReceiverStep DEF TakeCompleted, receiver, RetiredInv, Kinds

LEMMA TakePartStep == ASSUME RetiredInv, NEW s \in Slices, TakePart(s) PROVE RetiredInv'
  BY ReceiverStep DEF TakePart, network, RetiredInv, Kinds

LEMMA TakeLastStep == ASSUME RetiredInv, NEW s \in Slices, TakeLast(s) PROVE RetiredInv'
  <1>1. s[1] \in Transfers
    BY DEF Slices
  <1>2. Answer(s[1]) \subseteq Acks /\ \A a \in Answer(s[1]) : a[1] = s[1]
    BY <1>1, GroupTransferAssumption DEF Answer, Of, Acks, Indices
  <1>3. QED
    BY <1>1, <1>2, ReceiverStep DEF TakeLast, RetiredInv, Kinds

LEMMA DeclineStep == ASSUME RetiredInv, NEW s \in Slices, Decline(s) PROVE RetiredInv'
  BY ReceiverStep DEF Decline, network, RetiredInv, Kinds

LEMMA RestartStep == ASSUME RetiredInv, Restart PROVE RetiredInv'
  BY ReceiverStep DEF Restart, network, RetiredInv, Kinds

LEMMA NextRetired == RetiredInv /\ [Next]_vars => RetiredInv'
  <1> SUFFICES ASSUME RetiredInv, [Next]_vars PROVE RetiredInv'
    OBVIOUS
  <1>1. CASE StorageStep
    BY <1>1, EnqueueDoneStep, ScanStep, CollectStep, AckAllStep, AckOneStep DEF StorageStep
  <1>2. CASE EnqueueFails \/ AckFails \/ SenderCrash \/ Restart
    BY <1>2, EnqueueFailsStep, AckFailsStep, SenderCrashStep, RestartStep
  <1>3. CASE \E t \in Transfers : StartSend(t) \/ SendNext(t)
    BY <1>3, StartSendStep, SendNextStep
  <1>4. CASE \E s \in Slices : GiveUp(s) \/ Take(s) \/ Decline(s)
    BY <1>4, GiveUpStep, TakeCompletedStep, TakePartStep, TakeLastStep, DeclineStep DEF Take
  <1>5. CASE \E a \in Acks : AckArrives(a)
    BY <1>5, AckArrivesStep
  <1>6. CASE UNCHANGED vars
    BY <1>6, ReceiverStep DEF vars, receiver, network, RetiredInv, Kinds
  <1>7. QED
    BY <1>1, <1>2, <1>3, <1>4, <1>5, <1>6 DEF Next

\* No slice leaves the outbox before its receiver has made the whole snapshot durable, unless
\* slices of it were given up, for any number of transfers, slices, crashes and versions
\* (retireGroupTransfer, _collectGroupSliceAck, ingestGroupChunk).
THEOREM RetiredOnlyApplied == Spec => []RetiredIsApplied
  <1>1. RetiredInv => RetiredIsApplied
    BY DEF RetiredInv
  <1>2. QED
    BY <1>1, InitRetired, NextRetired, PTL DEF Spec

-----------------------------------------------------------------------------
(* Tables: the code's maps, as sequences of entries in their order.        *)

\* A set of numbers has a least one.
LEMMA LeastElement ==
  ASSUME NEW I, I \subseteq Nat, I # {}
  PROVE  Min(I) \in I
  <1> DEFINE less == {ss \in Nat \X Nat : ss[1] < ss[2]}
  <1>1. PICK x \in I : \A y \in I : ~ (<<y, x>> \in less)
    <2>1. IsWellFoundedOn(less, Nat)
      BY NatLessThanWellFounded DEF OpToRel
    <2> HIDE DEF less
    <2>2. QED
      BY <2>1, WFMin
  <1>2. ASSUME NEW y \in I PROVE x <= y
    <2>1. <<y, x>> \notin less /\ x \in Nat /\ y \in Nat
      BY <1>1
    <2>2. <<y, x>> \in Nat \X Nat /\ <<y, x>>[1] = y /\ <<y, x>>[2] = x
      BY <2>1
    <2>3. ~(y < x)
      BY <2>1, <2>2
    <2>4. QED
      BY <2>1, <2>3
  <1>3. QED
    BY <1>2 DEF Min

\* A sequence without its k-th element.
LEMMA RemoveOne ==
  ASSUME NEW S, NEW s \in Seq(S), NEW k \in 1..Len(s)
  PROVE  RemoveAt(s, k) \in Seq(S) /\ Len(RemoveAt(s, k)) = Len(s) - 1
  <1> DEFINE a == SubSeq(s, 1, k - 1)
             b == SubSeq(s, k + 1, Len(s))
  <1>1. Len(s) \in Nat /\ k \in Nat /\ 1 <= k /\ k <= Len(s) /\ \A i \in 1..Len(s) : s[i] \in S
    OBVIOUS
  <1>2. a \in Seq(S) /\ Len(a) = k - 1
    BY <1>1, SubSeqProperties
  <1>3. b \in Seq(S) /\ Len(b) = Len(s) - k
    BY <1>1, SubSeqProperties
  <1> HIDE DEF a, b
  <1>4. a \o b \in Seq(S) /\ Len(a \o b) = Len(a) + Len(b)
    BY <1>2, <1>3, ConcatProperties
  <1>5. RemoveAt(s, k) = a \o b
    BY DEF RemoveAt, a, b
  <1>6. Len(a \o b) = Len(s) - 1
    BY <1>1, <1>2, <1>3, <1>4
  <1> DEFINE c == a \o b
  <1>7. QED
    <2>1. c \in Seq(S) /\ Len(c) = Len(s) - 1 /\ RemoveAt(s, k) = c
      BY <1>4, <1>5, <1>6
    <2> HIDE DEF c
    <2>2. QED
      BY <2>1

\* An entry less, if there is one.
LEMMA WithoutOne ==
  ASSUME NEW S, NEW s \in Seq(S), NEW t
  PROVE  /\ Without(s, t) \in Seq(S) /\ Len(Without(s, t)) <= Len(s)
         /\ Entries(s, t) # {} => Len(Without(s, t)) = Len(s) - 1
  <1>1. CASE Entries(s, t) = {}
    <2>1. \A i \in 1..Len(s) : s[i].of # t
      BY <1>1 DEF Entries
    <2>2. Without(s, t) = s
      BY <2>1 DEF Without, RemoveFirstMatch, SelectInSeq
    <2>3. QED
      BY <1>1, <2>2
  <1>2. CASE Entries(s, t) # {}
    <2> DEFINE I == {i \in 1..Len(s) : s[i].of = t}
    <2>1. I # {} /\ \E i \in 1..Len(s) : s[i].of = t
      BY <1>2 DEF Entries
    <2>2. Without(s, t) = RemoveAt(s, Min(I))
      BY <2>1 DEF Without, RemoveFirstMatch, SelectInSeq
    <2>3. Min(I) \in 1..Len(s)
      <3> HIDE DEF I
      <3>1. I \subseteq Nat /\ I \subseteq 1..Len(s)
        BY DEF I
      <3>2. QED
        BY <2>1, <3>1, LeastElement
    <2> HIDE DEF I
    <2>4. QED
      BY <2>2, <2>3, RemoveOne
  <1>3. QED
    BY <1>1, <1>2

-----------------------------------------------------------------------------
(* The types: the tables of the two sides, of bounded size, and what else  *)
(* the invariant above leaves out.                                         *)

ProgressOK(p) == p \in Seq(Progress) /\ Len(p) <= MaxProgress
ReasmOK(r)    == r \in Seq(Partial) /\ Len(r) <= MaxReasm

Counted ==
    /\ old \in BOOLEAN /\ net \subseteq Slices /\ given \subseteq Slices /\ stored \subseteq Slices
    /\ sends \in [Transfers -> 0..MaxSends] /\ crashes \in 0..MaxCrashes
    /\ restarts \in 0..MaxRestarts /\ refusals \in 0..MaxRefusals

\* One more, below a bound.
LEMMA OneMore ==
  ASSUME NEW M \in Nat, NEW c \in 0..M
  PROVE  0 \in 0..M /\ (c < M => c + 1 \in 0..M)
  OBVIOUS

\* The slice of the storage operation under way.
LEMMA HeadSlice ==
  ASSUME RetiredInv, NEW kind \in {"enqueue", "scan", "ack one"}, Performs(kind)
  PROVE  Head(gate).slice \in Slices
  <1>1. Head(gate) \in Op /\ Head(gate).op = kind
    BY HeadFit DEF Fit
  <1>2. QED
    BY <1>1 DEF Op

LEMMA AppendOne ==
  ASSUME NEW S, NEW s \in Seq(S), NEW e \in S
  PROVE  Append(s, e) \in Seq(S) /\ Len(Append(s, e)) = Len(s) + 1
  OBVIOUS

LEMMA TailOne ==
  ASSUME NEW S, NEW s \in Seq(S), Len(s) > 0
  PROVE  Tail(s) \in Seq(S) /\ Len(Tail(s)) = Len(s) - 1
  OBVIOUS

LEMMA NotedOK ==
  ASSUME NEW p, ProgressOK(p), NEW t, NEW known \in SUBSET Indices, NEW acked \in SUBSET Indices
  PROVE  ProgressOK(Noted(p, t, known, acked))
  <1> DEFINE q == Noted(p, t, known, acked)
  <1>1. p \in Seq(Progress) /\ Len(p) \in Nat /\ Len(p) <= MaxProgress /\ DOMAIN p = 1..Len(p)
    BY DEF ProgressOK
  <1>2. ASSUME NEW i \in 1..Len(p) PROVE q[i] \in Progress
    <2>1. p[i] \in Progress
      BY <1>1
    <2>2. [p[i] EXCEPT !.known = @ \cup known, !.acked = @ \cup acked] \in Progress
      BY <2>1 DEF Progress
    <2>3. QED
      BY <1>1, <2>1, <2>2 DEF Noted
  <1>3. q = [i \in 1..Len(p) |-> q[i]]
    BY <1>1 DEF Noted
  <1> HIDE DEF q
  <1>4. q \in [1..Len(p) -> Progress]
    BY <1>2, <1>3
  <1>5. q \in Seq(Progress) /\ Len(q) = Len(p)
    BY <1>1, <1>4
  <1>6. ProgressOK(q)
    BY <1>1, <1>5 DEF ProgressOK
  <1>7. QED
    BY <1>6 DEF q

LEMMA OpenedOK ==
  ASSUME ProgressOK(progress), NEW t \in Transfers
  PROVE  ProgressOK(Opened(t))
  <1> DEFINE e == [of |-> t, known |-> {}, acked |-> {}]
  <1>1. e \in Progress
    BY DEF Progress
  <1>2. progress \in Seq(Progress) /\ Len(progress) \in Nat /\ Len(progress) <= MaxProgress
    BY DEF ProgressOK
  <1>3. MaxProgress \in Nat /\ MaxProgress > 0
    BY GroupTransferAssumption
  <1> HIDE DEF e
  <1>4. CASE Len(progress) >= MaxProgress
    <2>1. Tail(progress) \in Seq(Progress) /\ Len(Tail(progress)) = Len(progress) - 1
      BY <1>2, <1>3, <1>4, TailOne
    <2>2. ProgressOK(Append(Tail(progress), e))
      BY <1>1, <1>2, <1>3, <2>1, AppendOne DEF ProgressOK
    <2>3. QED
      BY <1>4, <2>2 DEF Opened, e
  <1>5. CASE ~(Len(progress) >= MaxProgress)
    <2>1. ProgressOK(Append(progress, e))
      BY <1>1, <1>2, <1>3, <1>5, AppendOne DEF ProgressOK
    <2>2. QED
      BY <1>5, <2>1 DEF Opened, e
  <1>6. QED
    BY <1>4, <1>5

LEMMA AdvancedOK ==
  ASSUME ReasmOK(reasm), NEW s \in Slices
  PROVE  ReasmOK(Advanced(s))
  <1> DEFINE e == [of |-> s[1], parts |-> PartsWith(s)]
             r == Without(reasm, s[1])
  <1>1. s[1] \in Transfers /\ s[2] \in Indices
    BY DEF Slices
  <1>2. reasm \in Seq(Partial) /\ Len(reasm) \in Nat /\ Len(reasm) <= MaxReasm
    BY DEF ReasmOK
  <1>3. e \in Partial
    <2>1. ASSUME NEW i \in Entries(reasm, s[1]) PROVE reasm[i].parts \in SUBSET Indices
      <3>1. i \in 1..Len(reasm)
        BY <1>2 DEF Entries
      <3>2. reasm[i] \in Partial
        BY <1>2, <3>1
      <3>3. QED
        BY <3>2 DEF Partial
    <2>2. PartsWith(s) \in SUBSET Indices
      BY <1>1, <2>1 DEF PartsWith
    <2>3. QED
      BY <1>1, <2>2 DEF Partial
  <1>4. MaxReasm \in Nat /\ MaxReasm > 0
    BY GroupTransferAssumption
  <1>5. /\ r \in Seq(Partial) /\ Len(r) <= Len(reasm)
        /\ Entries(reasm, s[1]) # {} => Len(r) = Len(reasm) - 1
    BY <1>2, WithoutOne
  <1> HIDE DEF e, r
  <1>6. CASE Entries(reasm, s[1]) = {} /\ Len(reasm) >= MaxReasm
    <2>1. Tail(reasm) \in Seq(Partial) /\ Len(Tail(reasm)) = Len(reasm) - 1
      BY <1>2, <1>4, <1>6, TailOne
    <2>2. ReasmOK(Append(Tail(reasm), e))
      BY <1>2, <1>3, <1>4, <2>1, AppendOne DEF ReasmOK
    <2>3. QED
      BY <1>6, <2>2 DEF Advanced, e
  <1>7. CASE ~(Entries(reasm, s[1]) = {} /\ Len(reasm) >= MaxReasm)
    <2>1. Len(r) \in Nat /\ Len(r) + 1 <= MaxReasm
      BY <1>2, <1>4, <1>5, <1>7
    <2>2. ReasmOK(Append(r, e))
      BY <1>3, <1>5, <2>1, AppendOne DEF ReasmOK
    <2>3. QED
      BY <1>7, <2>2 DEF Advanced, e, r
  <1>8. QED
    BY <1>6, <1>7

LEMMA NoteAckTypes ==
  ASSUME NEW s \in Slices, NEW q, NEW p, ProgressOK(p), NoteAck(s, q, p)
  PROVE  ProgressOK(progress')
  <1>1. s[2] \in Indices
    BY DEF Slices
  <1>2. ProgressOK(Noted(p, s[1], {}, {s[2]}))
    BY <1>1, NotedOK
  <1>3. QED
    BY <1>2 DEF NoteAck

LEMMA RetireTypes ==
  ASSUME NEW s \in Slices, ProgressOK(progress), Retire(s)
  PROVE  ProgressOK(progress')
  BY NoteAckTypes DEF Retire

\* The running counts of the sender stay in their set and within their number.
LEMMA ProgressStep ==
  ASSUME RetiredInv, ProgressOK(progress), [Next]_vars
  PROVE  ProgressOK(progress')
  <1>1. CASE EnqueueDone
    <2>1. Head(gate).slice \in Slices
      BY <1>1, HeadSlice DEF EnqueueDone
    <2>2. {Head(gate).slice[2]} \in SUBSET Indices /\ {} \in SUBSET Indices
      BY <2>1 DEF Slices
    <2>3. ProgressOK(Noted(progress, Head(gate).slice[1], {Head(gate).slice[2]}, {}))
      BY <2>2, NotedOK
    <2>4. QED
      BY <1>1, <2>3 DEF EnqueueDone
  <1>2. CASE Scan
    <2> DEFINE s == Head(gate).slice
               known == {j \in Indices : <<s[1], j>> \in rows}
    <2>1. s \in Slices /\ s[1] \in Transfers
      <3>1. s \in Slices
        BY <1>2, HeadSlice DEF Scan
      <3>2. QED
        BY <3>1 DEF Slices
    <2>2. known \in SUBSET Indices /\ {} \in SUBSET Indices
      OBVIOUS
    <2>3. ProgressOK(Noted(Opened(s[1]), s[1], known, {}))
      BY <2>1, <2>2, OpenedOK, NotedOK
    <2>4. CASE s \in rows
      <3>1. NoteAck(s, Tail(gate), Noted(Opened(s[1]), s[1], known, {}))
        BY <1>2, <2>4 DEF Scan
      <3>2. QED
        BY <2>1, <2>3, <3>1, NoteAckTypes
    <2>5. CASE s \notin rows
      BY <1>2, <2>5 DEF Scan
    <2>6. QED
      BY <2>4, <2>5
  <1>3. CASE AckAll
    <2>1. progress \in Seq(Progress) /\ Len(progress) <= MaxProgress
      BY DEF ProgressOK
    <2> DEFINE r == Without(progress, Head(gate).of)
    <2>2. r \in Seq(Progress) /\ Len(r) <= Len(progress)
      BY <2>1, WithoutOne
    <2>3. progress' = progress \/ progress' = r
      BY <1>3 DEF AckAll
    <2>4. Len(r) \in Nat /\ Len(progress) \in Nat /\ MaxProgress \in Nat
      BY <2>1, <2>2, GroupTransferAssumption
    <2> HIDE DEF r
    <2>5. QED
      BY <2>1, <2>2, <2>3, <2>4 DEF ProgressOK
  <1>4. CASE \E s \in Slices : GiveUp(s)
    BY <1>4, RetireTypes DEF GiveUp
  <1>5. CASE \E a \in Acks : AckArrives(a)
    <2>1. PICK a \in Acks : AckArrives(a)
      BY <1>5
    <2>2. CASE a[2] = N
      BY <2>1, <2>2 DEF AckArrives
    <2>3. CASE a[2] # N
      <3>1. a \in Slices
        BY <2>3, GroupTransferAssumption DEF Acks, Slices, Indices
      <3>2. QED
        BY <2>1, <2>3, <3>1, RetireTypes DEF AckArrives
    <2>4. QED
      BY <2>2, <2>3
  <1>6. CASE SenderCrash
    <2>1. progress' = <<>>
      BY <1>6 DEF SenderCrash
    <2>2. QED
      BY <2>1, GroupTransferAssumption DEF ProgressOK
  <1>7. CASE UNCHANGED progress
    BY <1>7
  <1>8. QED
    <2>1. CASE Collect \/ AckOne \/ EnqueueFails \/ AckFails \/ Restart
      BY <1>7, <2>1 DEF Collect, AckOne, EnqueueFails, AckFails, Restart, sender
    <2>2. CASE \E t \in Transfers : StartSend(t) \/ SendNext(t)
      BY <1>7, <2>2 DEF StartSend, SendNext
    <2>3. CASE \E s \in Slices : Take(s) \/ Decline(s)
      BY <1>7, <2>3 DEF Take, TakeCompleted, TakePart, TakeLast, Decline, sender
    <2>4. CASE UNCHANGED vars
      BY <1>7, <2>4 DEF vars, sender
    <2>5. QED
      BY <1>1, <1>2, <1>3, <1>4, <1>5, <1>6, <2>1, <2>2, <2>3, <2>4 DEF Next, StorageStep

\* So do the snapshots the receiver is joining.
LEMMA ReasmStep ==
  ASSUME ReasmOK(reasm), [Next]_vars
  PROVE  ReasmOK(reasm')
  <1>1. CASE \E s \in Slices : TakePart(s)
    BY <1>1, AdvancedOK DEF TakePart
  <1>2. CASE \E s \in Slices : TakeLast(s) \/ Decline(s)
    <2>1. PICK s \in Slices : TakeLast(s) \/ Decline(s)
      BY <1>2
    <2> DEFINE r == Without(reasm, s[1])
    <2>2. reasm' = r
      BY <2>1 DEF TakeLast, Decline
    <2>3. reasm \in Seq(Partial) /\ Len(reasm) <= MaxReasm /\ Len(reasm) \in Nat
      BY DEF ReasmOK
    <2>4. r \in Seq(Partial) /\ Len(r) <= Len(reasm)
      BY <2>3, WithoutOne
    <2>5. Len(r) \in Nat /\ MaxReasm \in Nat
      BY <2>4, GroupTransferAssumption
    <2> HIDE DEF r
    <2>6. QED
      BY <2>2, <2>3, <2>4, <2>5 DEF ReasmOK
  <1>3. CASE Restart
    <2>1. reasm' = <<>>
      BY <1>3 DEF Restart
    <2>2. QED
      BY <2>1, GroupTransferAssumption DEF ReasmOK
  <1>4. CASE UNCHANGED reasm
    BY <1>4
  <1>5. QED
    <2>1. CASE StorageStep
      BY <1>4, <2>1 DEF StorageStep, EnqueueDone, Scan, Collect, AckAll, AckOne, receiver
    <2>2. CASE EnqueueFails \/ AckFails \/ SenderCrash
      BY <1>4, <2>2 DEF EnqueueFails, AckFails, SenderCrash, receiver
    <2>3. CASE \E t \in Transfers : StartSend(t) \/ SendNext(t)
      BY <1>4, <2>3 DEF StartSend, SendNext, receiver
    <2>4. CASE \E s \in Slices : GiveUp(s) \/ TakeCompleted(s)
      BY <1>4, <2>4 DEF GiveUp, TakeCompleted, receiver
    <2>5. CASE \E a \in Acks : AckArrives(a)
      BY <1>4, <2>5 DEF AckArrives, receiver
    <2>6. CASE UNCHANGED vars
      BY <1>4, <2>6 DEF vars, receiver
    <2>7. QED
      BY <1>1, <1>2, <1>3, <2>1, <2>2, <2>3, <2>4, <2>5, <2>6 DEF Next, Take

\* The history and the counters of the bounds.
LEMMA CountedStep ==
  ASSUME RetiredInv, Counted, [Next]_vars
  PROVE  Counted'
  <1> USE GroupTransferAssumption
  <1>1. CASE EnqueueDone
    <2>1. Head(gate).slice \in Slices
      BY <1>1, HeadSlice DEF EnqueueDone
    <2>2. QED
      BY <1>1, <2>1 DEF EnqueueDone, Counted, receiver, bounds
  <1>2. CASE Scan \/ Collect \/ AckAll \/ AckOne
    BY <1>2 DEF Scan, Collect, AckAll, AckOne, Counted, receiver, network, history, bounds
  <1>3. CASE EnqueueFails \/ AckFails
    <2>1. refusals' = refusals + 1 /\ refusals < MaxRefusals
      BY <1>3 DEF EnqueueFails, AckFails, Refused
    <2>2. UNCHANGED <<old, net, given, stored, sends, crashes, restarts>>
      BY <1>3 DEF EnqueueFails, AckFails, receiver, network, history
    <2>3. QED
      BY <2>1, <2>2, OneMore DEF Counted
  <1>4. CASE SenderCrash
    <2>1. stored' \subseteq Slices
      <3>1. CASE Performs("enqueue") /\ stored' = stored \cup {Head(gate).slice}
        <4>1. Head(gate).slice \in Slices
          BY <3>1, HeadSlice
        <4>2. QED
          BY <3>1, <4>1 DEF Counted
      <3>2. CASE UNCHANGED stored
        BY <3>2 DEF Counted
      <3>3. QED
        BY <1>4, <3>1, <3>2 DEF SenderCrash
    <2>2. crashes' = crashes + 1 /\ crashes < MaxCrashes
      BY <1>4 DEF SenderCrash
    <2>3. UNCHANGED <<old, net, given, sends, restarts, refusals>>
      BY <1>4 DEF SenderCrash, receiver, network
    <2>4. QED
      BY <2>1, <2>2, <2>3, OneMore DEF Counted
  <1>5. CASE \E t \in Transfers : StartSend(t) \/ SendNext(t)
    BY <1>5 DEF StartSend, SendNext, Counted, receiver, network, history, bounds
  <1>6. CASE \E s \in Slices : GiveUp(s)
    BY <1>6 DEF GiveUp, Counted, receiver, network, bounds
  <1>7. CASE \E s \in Slices : Take(s)
    BY <1>7 DEF Take, TakeCompleted, TakePart, TakeLast, Counted, receiver, network, history, bounds
  <1>8. CASE \E s \in Slices : Decline(s)
    BY <1>8 DEF Decline, Refused, Counted, network, history
  <1>9. CASE \E a \in Acks : AckArrives(a)
    BY <1>9 DEF AckArrives, Counted, receiver, network, history, bounds
  <1>10. CASE Restart
    <2>1. restarts' = restarts + 1 /\ restarts < MaxRestarts /\ old' \in {old, FALSE}
      BY <1>10 DEF Restart
    <2>2. UNCHANGED <<net, given, stored, sends, crashes, refusals>>
      BY <1>10 DEF Restart, network, history
    <2>3. QED
      BY <2>1, <2>2, OneMore DEF Counted
  <1>11. CASE UNCHANGED vars
    BY <1>11 DEF vars, Counted, receiver, network, history, bounds
  <1>12. QED
    BY <1>1, <1>2, <1>3, <1>4, <1>5, <1>6, <1>7, <1>8, <1>9, <1>10, <1>11 DEF Next, StorageStep

TypeInv == RetiredInv /\ ProgressOK(progress) /\ ReasmOK(reasm) /\ Counted

\* Every variable stays in its set, and the two tables keep to their size: a count of
\* acknowledgements or a snapshot that is being joined is dropped before there is one too many
\* (_collectGroupSliceAck, ingestGroupChunk).
THEOREM TypesHold == Spec => []TypeOK
  <1>1. Init => TypeInv
    <2> SUFFICES ASSUME Init PROVE TypeInv
      OBVIOUS
    <2>1. ProgressOK(progress) /\ ReasmOK(reasm)
      BY GroupTransferAssumption DEF Init, ProgressOK, ReasmOK
    <2>2. Counted
      <3>1. /\ 0 \in 0..MaxSends /\ 0 \in 0..MaxCrashes
            /\ 0 \in 0..MaxRestarts /\ 0 \in 0..MaxRefusals
        BY GroupTransferAssumption, OneMore
      <3>2. old \in BOOLEAN
        BY GroupTransferAssumption DEF Init
      <3>3. QED
        BY <3>1, <3>2 DEF Init, Counted
    <2>3. QED
      BY <2>1, <2>2, InitRetired DEF TypeInv
  <1>2. TypeInv /\ [Next]_vars => TypeInv'
    <2> SUFFICES ASSUME TypeInv, [Next]_vars PROVE TypeInv'
      OBVIOUS
    <2>1. RetiredInv' /\ Counted'
      BY NextRetired, CountedStep DEF TypeInv
    <2>2. ProgressOK(progress') /\ ReasmOK(reasm')
      BY ProgressStep, ReasmStep DEF TypeInv
    <2>3. QED
      BY <2>1, <2>2 DEF TypeInv, ProgressOK, ReasmOK
  <1>3. TypeInv => TypeOK
    BY DEF TypeInv, RetiredInv, Kinds, GateOK, ProgressOK, ReasmOK, Counted, TypeOK
  <1>4. QED
    BY <1>1, <1>2, <1>3, PTL DEF Spec
=============================================================================
