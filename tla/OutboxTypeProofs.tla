-------------------------- MODULE OutboxTypeProofs --------------------------
(***************************************************************************)
(* Type correctness of Outbox, group of variables by group: for each group *)
(* a frame lemma says which steps may change it.  Then what two of the     *)
(* groups promise: one re-drive to a peer, workers that never meet an      *)
(* occupied one, and counters that cover the store.                        *)
(***************************************************************************)
EXTENDS Outbox, FiniteSetTheorems, TLAPS

LEMMA TypeInit == Init => TypeOK
  <1> SUFFICES ASSUME Init PROVE TypeOK
    OBVIOUS
  <1>1. StoreOK
    <2>1. ops = <<>> /\ row \in [Ids -> Peers \cup {NoPeer}] /\ loaded = FALSE
      BY DEF Init
    <2>2. <<>> \in Seq(Op)
      OBVIOUS
    <2>3. QED
      BY <2>1, <2>2 DEF StoreOK
  <1>2. SenderOK
    BY DEF Init, SenderOK
  <1>3. LadderOK
    <2>1. timer \in [Ids -> Ladder] /\ firing = {}
      BY DEF Init, Ladder
    <2>2. backoff \in [Keys -> {"none", "wait", "due"}]
      BY DEF Init
    <2>3. QED
      BY <2>1, <2>2 DEF LadderOK
  <1>4. CountsOK
    <2>1. pending = {} /\ count = [p \in Peers |-> 0] /\ seeded = FALSE
      BY DEF Init
    <2>2. [p \in Peers |-> 0] \in [Peers -> Int]
      OBVIOUS
    <2>3. QED
      BY <2>1, <2>2 DEF CountsOK
  <1>5. PassOK
    <2>1. <<>> \in Seq(Ids)
      OBVIOUS
    <2>2. lane \in [Peers -> Seq(Ids)]
      BY <2>1 DEF Init
    <2>3. QED
      BY <2>2 DEF Init, PassOK
  <1>6. SnapshotOK /\ LiveOK /\ HistoryOK /\ RestOK
    BY DEF Init, SnapshotOK, LiveOK, HistoryOK, RestOK
  <1>7. QED
    BY <1>1, <1>2, <1>3, <1>4, <1>5, <1>6 DEF TypeOK

\* The operation at the head of the storage queue is an operation, and so are the others.
LEMMA HeadType ==
  ASSUME StoreOK, ops # <<>>
  PROVE  /\ Head(ops) \in Op /\ Tail(ops) \in Seq(Op)
         /\ Head(ops).op \in {"enqueue", "ack"} => Head(ops).key \in Keys
  <1>1. Head(ops) \in Op /\ Tail(ops) \in Seq(Op)
    BY DEF StoreOK
  <1>2. QED
    BY <1>1 DEF Op

-----------------------------------------------------------------------------
\* The legs of re-drives change when one starts and when one settles.
LEMMA LiveFrame ==
  [Next]_vars => \/ \E p \in Peers : Drive(p) \/ Settle(p)
                 \/ Crash \/ UNCHANGED live
  BY DEF Next, StorageStep, StorageFault, PassStep, vars, passes, EnqueueDone, EnqueueDoneAcked,
     AckDone, DropRead, SeedDone, FlushRead, EnqueueFails, AckFails, StartDriving, EndPass,
     PlanSkip, PlanRetire, PlanRedrive, DriveSkip, StartFlush,
     StartSeed, StartSend, HeadStartOver, Deliver, LoseWire, LoseAck, AckArrives,
     DropOne, Due, FastFire, FastSettle, Deadline, ContactChanges, StartDrop

LEMMA LiveType == LiveOK /\ [Next]_vars => LiveOK'
  <1> SUFFICES ASSUME LiveOK, [Next]_vars PROVE LiveOK'
    OBVIOUS
  <1>1. ASSUME NEW p \in Peers, Drive(p) PROVE LiveOK'
    <2>1. active' = active \cup {p} /\ legs' = [legs EXCEPT ![p] = @ + 1]
      BY <1>1 DEF Drive
    <2>2. QED
      BY <2>1 DEF LiveOK
  <1>2. ASSUME NEW p \in Peers, Settle(p) PROVE LiveOK'
    <2>1. legs[p] > 0 /\ active' = active \ {p} /\ legs' = [legs EXCEPT ![p] = @ - 1]
      BY <1>2 DEF Settle, Release
    <2>2. QED
      BY <2>1 DEF LiveOK
  <1>3. CASE Crash
    BY <1>3 DEF Crash, LiveOK
  <1>4. CASE UNCHANGED live
    BY <1>4 DEF live, LiveOK
  <1>5. QED
    BY <1>1, <1>2, <1>3, <1>4, LiveFrame

-----------------------------------------------------------------------------
\* Every step that changes the counters adds a frame, removes one, or counts what is stored.
LEMMA CountsFrame ==
  StoreOK /\ [Next]_vars =>
    \/ \E k \in Keys : (Count(k) \/ Uncount(k)) /\ UNCHANGED seeded
    \/ \E ok \in BOOLEAN : Recount(Visible(ok))
    \/ Crash \/ UNCHANGED counts
  <1> SUFFICES ASSUME StoreOK, [Next]_vars
               PROVE  \/ \E k \in Keys : (Count(k) \/ Uncount(k)) /\ UNCHANGED seeded
                      \/ \E ok \in BOOLEAN : Recount(Visible(ok))
                      \/ Crash \/ UNCHANGED counts
    OBVIOUS
  <1>1. CASE EnqueueDone \/ EnqueueDoneAcked
    <2>1. Head(ops).key \in Keys
      BY <1>1, HeadType DEF EnqueueDone, EnqueueDoneAcked, Head_
    <2>2. QED
      BY <1>1, <2>1 DEF EnqueueDone, EnqueueDoneAcked
  <1>2. CASE \E k \in Keys : AckArrives(k) \/ DropOne(k) \/ PlanRetire(k)
    BY <1>2 DEF AckArrives, DropOne, PlanRetire, Retire
  <1>3. CASE \E ok \in BOOLEAN : SeedDone(ok) \/ FlushRead(ok)
    BY <1>3 DEF SeedDone, FlushRead, counts
  <1>4. \/ EnqueueDone \/ EnqueueDoneAcked \/ Crash \/ UNCHANGED counts
        \/ \E k \in Keys : AckArrives(k) \/ DropOne(k) \/ PlanRetire(k)
        \/ \E ok \in BOOLEAN : SeedDone(ok) \/ FlushRead(ok)
    BY DEF Next, StorageStep, StorageFault, PassStep, vars, AckDone, DropRead, EnqueueFails,
       AckFails, StartDriving, EndPass, PlanSkip, PlanRedrive, DriveSkip, Drive,
       Settle, StartFlush, StartSeed, StartSend, HeadStartOver, Deliver, LoseWire,
       LoseAck, Due, FastFire, FastSettle, Deadline, ContactChanges, StartDrop
  <1>5. QED
    BY <1>1, <1>2, <1>3, <1>4

\* Finitely many rows can be stored.
LEMMA FinitelyManyKeys == IsFiniteSet(Keys) /\ \A S \in SUBSET Keys : Cardinality(S) \in Nat
  <1>1. IsFiniteSet(Keys)
    BY OutboxAssumption, FS_Product DEF Keys
  <1>2. QED
    BY <1>1, FS_Subset, FS_CardinalityType

LEMMA CountsType == StoreOK /\ CountsOK /\ [Next]_vars => CountsOK'
  <1> SUFFICES ASSUME StoreOK, CountsOK, [Next]_vars PROVE CountsOK'
    OBVIOUS
  <1>1. ASSUME NEW k \in Keys, Count(k) \/ Uncount(k), UNCHANGED seeded PROVE CountsOK'
    <2>1. k[1] \in Peers
      BY DEF Keys
    <2>2. QED
      BY <1>1, <2>1 DEF Count, Uncount, CountsOK
  <1>2. ASSUME NEW ok \in BOOLEAN, Recount(Visible(ok)) PROVE CountsOK'
    <2>1. Visible(ok) \subseteq Keys
      BY DEF Visible, Stored
    <2>2. \A p \in Peers : Cardinality({k \in Visible(ok) : k[1] = p}) \in Int
      BY <2>1, FinitelyManyKeys
    <2>3. /\ pending' = Visible(ok) /\ seeded' = TRUE
          /\ count' = [p \in Peers |-> Cardinality({k \in Visible(ok) : k[1] = p})]
      BY <1>2 DEF Recount
    <2>4. count' \in [Peers -> Int]
      BY <2>2, <2>3
    <2>5. QED
      BY <2>1, <2>3, <2>4 DEF CountsOK
  <1>3. CASE Crash
    <2>1. pending' = {} /\ count' = [p \in Peers |-> 0] /\ seeded' = FALSE
      BY <1>3 DEF Crash
    <2>2. [p \in Peers |-> 0] \in [Peers -> Int]
      OBVIOUS
    <2>3. QED
      BY <2>1, <2>2 DEF CountsOK
  <1>4. CASE UNCHANGED counts
    BY <1>4 DEF counts, CountsOK
  <1>5. QED
    BY <1>1, <1>2, <1>3, <1>4, CountsFrame

-----------------------------------------------------------------------------
\* The snapshot of the pass changes with each invalidation and with the pass itself.
LEMMA SnapshotFrame ==
  StoreOK /\ [Next]_vars =>
    \/ \E k \in Keys : Invalidate(k)
    \/ StartFlush \/ EndPass \/ Crash \/ UNCHANGED snapshot
    \/ \E ok \in BOOLEAN : FlushRead(ok)
  <1> SUFFICES ASSUME StoreOK, [Next]_vars
               PROVE  \/ \E k \in Keys : Invalidate(k)
                      \/ StartFlush \/ EndPass \/ Crash \/ UNCHANGED snapshot
                      \/ \E ok \in BOOLEAN : FlushRead(ok)
    OBVIOUS
  <1>1. CASE EnqueueDone \/ EnqueueDoneAcked \/ AckDone
    <2>1. Head(ops).key \in Keys
      BY <1>1, HeadType DEF EnqueueDone, EnqueueDoneAcked, AckDone, Head_
    <2>2. QED
      BY <1>1, <2>1 DEF EnqueueDone, EnqueueDoneAcked, AckDone
  <1>2. CASE AckFails
    <2>1. Head(ops).key \in Keys
      BY <1>2, HeadType DEF AckFails, Head_
    <2>2. QED
      BY <1>2, <2>1 DEF AckFails
  <1>3. CASE \E k \in Keys : AckArrives(k) \/ DropOne(k) \/ PlanRetire(k)
    BY <1>3 DEF AckArrives, DropOne, PlanRetire, Retire
  <1>4. \/ EnqueueDone \/ EnqueueDoneAcked \/ AckDone \/ AckFails \/ Crash
        \/ \E k \in Keys : AckArrives(k) \/ DropOne(k) \/ PlanRetire(k)
        \/ \E ok \in BOOLEAN : FlushRead(ok)
        \/ StartFlush \/ EndPass \/ UNCHANGED snapshot
    BY DEF Next, StorageStep, StorageFault, PassStep, vars, snapshot, DropRead, SeedDone,
       EnqueueFails, StartDriving, PlanSkip, PlanRedrive, DriveSkip, Drive,
       Settle, StartSeed, StartSend, HeadStartOver, Deliver, LoseWire, LoseAck, Due,
       FastFire, FastSettle, Deadline, ContactChanges, StartDrop
  <1>5. QED
    BY <1>1, <1>2, <1>3, <1>4

LEMMA SnapshotType == StoreOK /\ SnapshotOK /\ [Next]_vars => SnapshotOK'
  <1> SUFFICES ASSUME StoreOK, SnapshotOK, [Next]_vars PROVE SnapshotOK'
    OBVIOUS
  <1>1. ASSUME NEW k \in Keys, Invalidate(k) PROVE SnapshotOK'
    <2>1. /\ calledOff' \in {calledOff, TRUE} /\ candidates' \subseteq candidates
          /\ changed' \subseteq changed \cup {k}
      <3>1. CASE pass = "idle" \/ calledOff
        BY <1>1, <3>1 DEF Invalidate, snapshot
      <3>2. CASE ~(pass = "idle" \/ calledOff)
        BY <1>1, <3>2, Zenon DEF Invalidate
      <3>3. QED
        BY <3>1, <3>2
    <2>2. QED
      BY <2>1 DEF SnapshotOK
  <1>2. CASE StartFlush
    BY <1>2 DEF StartFlush, SnapshotOK
  <1>3. CASE EndPass
    BY <1>3 DEF EndPass, SnapshotOK
  <1>4. CASE Crash
    BY <1>4 DEF Crash, SnapshotOK
  <1>5. ASSUME NEW ok \in BOOLEAN, FlushRead(ok) PROVE SnapshotOK'
    BY <1>5 DEF FlushRead, SnapshotOK, Visible, Stored
  <1>6. CASE UNCHANGED snapshot
    BY <1>6 DEF snapshot, SnapshotOK
  <1>7. QED
    BY <1>1, <1>2, <1>3, <1>4, <1>5, <1>6, SnapshotFrame

-----------------------------------------------------------------------------
\* Retry state changes when a frame is stored, re-driven, due or retired.
LEMMA LadderFrame ==
  StoreOK /\ [Next]_vars =>
    \/ EnqueueDone \/ EnqueueDoneAcked \/ Crash \/ UNCHANGED ladder
    \/ \E k \in Keys : Due(k) \/ (CancelRetries(k) /\ UNCHANGED firing)
    \/ \E i \in Ids : FastFire(i)
    \/ \E f \in firing : FastSettle(f)
    \/ \E p \in Peers : Drive(p)
  <1> SUFFICES ASSUME StoreOK, [Next]_vars
               PROVE  \/ EnqueueDone \/ EnqueueDoneAcked \/ Crash \/ UNCHANGED ladder
                      \/ \E k \in Keys : Due(k) \/ (CancelRetries(k) /\ UNCHANGED firing)
                      \/ \E i \in Ids : FastFire(i)
                      \/ \E f \in firing : FastSettle(f)
                      \/ \E p \in Peers : Drive(p)
    OBVIOUS
  <1>1. CASE \E k \in Keys : AckArrives(k) \/ DropOne(k) \/ PlanRetire(k)
    BY <1>1 DEF AckArrives, DropOne, PlanRetire, Retire
  <1>2. \/ \E k \in Keys : AckArrives(k) \/ DropOne(k) \/ PlanRetire(k) \/ Due(k)
        \/ EnqueueDone \/ EnqueueDoneAcked \/ Crash \/ UNCHANGED ladder
        \/ \E i \in Ids : FastFire(i)
        \/ \E f \in firing : FastSettle(f)
        \/ \E p \in Peers : Drive(p)
    BY DEF Next, StorageStep, StorageFault, PassStep, vars, AckDone, AckFails, DropRead,
       SeedDone, FlushRead, EnqueueFails, StartDriving, EndPass, PlanSkip, PlanRedrive,
       DriveSkip, Settle, StartFlush, StartSeed, StartSend, HeadStartOver,
       Deliver, LoseWire, LoseAck, Deadline, ContactChanges, StartDrop
  <1>3. QED
    BY <1>1, <1>2

\* A step of a ladder leaves a ladder.
LEMMA LadderValues ==
  NoLadder \in Ladder /\ \A p \in Peers : [peer |-> p, left |-> MaxFast] \in Ladder
  BY OutboxAssumption DEF Ladder

LEMMA LadderSteps ==
  ASSUME NEW t \in Ladder \ {NoLadder}, t.left > 1
  PROVE  [t EXCEPT !.left = @ - 1] \in Ladder
  BY OutboxAssumption DEF Ladder

LEMMA LadderType == StoreOK /\ LadderOK /\ [Next]_vars => LadderOK'
  <1> SUFFICES ASSUME StoreOK, LadderOK, [Next]_vars PROVE LadderOK'
    OBVIOUS
  <1>1. CASE EnqueueDone \/ EnqueueDoneAcked
    <2> DEFINE k == Head(ops).key
    <2>1. k \in Keys
      BY <1>1, HeadType DEF EnqueueDone, EnqueueDoneAcked, Head_
    <2> HIDE DEF k
    <2>2. /\ backoff' \in {[backoff EXCEPT ![k] = "wait"], [backoff EXCEPT ![k] = "none"]}
          /\ timer' \in {timer, [timer EXCEPT ![k[2]] = NoLadder],
                        [timer EXCEPT ![k[2]] = [peer |-> k[1], left |-> MaxFast]]}
          /\ UNCHANGED firing
      BY <1>1 DEF EnqueueDone, EnqueueDoneAcked, k
    <2>3. k[1] \in Peers
      BY <2>1 DEF Keys
    <2>4. timer' \in [Ids -> Ladder]
      BY <2>2, <2>3, LadderValues DEF LadderOK
    <2>5. QED
      BY <2>2, <2>4 DEF LadderOK
  <1>2. ASSUME NEW k \in Keys, Due(k) \/ (CancelRetries(k) /\ UNCHANGED firing)
        PROVE  LadderOK'
    BY <1>2, LadderValues DEF Due, CancelRetries, LadderOK
  <1>3. ASSUME NEW i \in Ids, FastFire(i) PROVE LadderOK'
    <2>1. timer[i] \in Ladder \ {NoLadder} /\ timer' = [timer EXCEPT ![i] = NoLadder]
      BY <1>3 DEF FastFire, LadderOK
    <2>2. firing' \subseteq firing \cup {<<i, timer[i]>>}
          /\ backoff' \in {backoff, [backoff EXCEPT ![<<timer[i].peer, i>>] = "wait"]}
      BY <1>3 DEF FastFire
    <2>3. timer' \in [Ids -> Ladder]
      BY <2>1, LadderValues DEF LadderOK
    <2>4. QED
      BY <2>1, <2>2, <2>3 DEF LadderOK
  <1>4. ASSUME NEW f \in firing, FastSettle(f) PROVE LadderOK'
    <2>1. f[1] \in Ids /\ f[2] \in Ladder \ {NoLadder}
      BY DEF LadderOK
    <2>2. /\ firing' = firing \ {f} /\ UNCHANGED backoff
          /\ \/ UNCHANGED timer
             \/ f[2].left > 1 /\ timer' = [timer EXCEPT ![f[1]] = [f[2] EXCEPT !.left = @ - 1]]
      BY <1>4 DEF FastSettle, Rearms
    <2>3. f[2].left > 1 => [f[2] EXCEPT !.left = @ - 1] \in Ladder
      BY <2>1, LadderSteps
    <2>4. timer' \in [Ids -> Ladder]
      <3> DEFINE t == [f[2] EXCEPT !.left = @ - 1]
      <3> HIDE DEF t
      <3>1. timer' = timer \/ (t \in Ladder /\ timer' = [timer EXCEPT ![f[1]] = t])
        BY <2>2, <2>3 DEF t
      <3>2. QED
        BY <3>1 DEF LadderOK
    <2>5. QED
      BY <2>2, <2>4 DEF LadderOK
  <1>5. ASSUME NEW p \in Peers, Drive(p) PROVE LadderOK'
    BY <1>5 DEF Drive, LadderOK
  <1>6. CASE Crash
    <2>1. timer' \in [Ids -> Ladder] /\ firing' = {}
      BY <1>6, LadderValues DEF Crash
    <2>2. backoff' \in [Keys -> {"none", "wait", "due"}]
      BY <1>6 DEF Crash
    <2>3. QED
      BY <2>1, <2>2 DEF LadderOK
  <1>7. CASE UNCHANGED ladder
    BY <1>7 DEF ladder, LadderOK
  <1>8. QED
    BY <1>1, <1>2, <1>3, <1>4, <1>5, <1>6, <1>7, LadderFrame

-----------------------------------------------------------------------------
\* The stages of send calls, and what is known of early live legs.
LEMMA SenderFrame ==
  [Next]_vars =>
    \/ EnqueueDone \/ EnqueueDoneAcked \/ EnqueueFails \/ Crash \/ UNCHANGED sender
    \/ \E k \in Sent : StartSend(k) \/ HeadStartOver(k)
    \/ \E k \in Keys : AckArrives(k) \/ DropOne(k) \/ PlanRetire(k)
  BY DEF Next, StorageStep, StorageFault, PassStep, vars, AckDone, AckFails, DropRead,
     SeedDone, FlushRead, StartDriving, EndPass, PlanSkip, PlanRedrive, DriveSkip,
     Drive, Settle, StartFlush, StartSeed, Deliver, LoseWire, LoseAck, Due,
     FastFire, FastSettle, Deadline, ContactChanges, StartDrop

LEMMA SenderType == StoreOK /\ SenderOK /\ [Next]_vars => SenderOK'
  <1> SUFFICES ASSUME StoreOK, SenderOK, [Next]_vars PROVE SenderOK'
    OBVIOUS
  <1>1. CASE EnqueueDone \/ EnqueueDoneAcked \/ EnqueueFails
    <2>1. /\ sending' = [sending EXCEPT ![Head(ops).key] = "idle"]
          /\ unpersisted' \subseteq unpersisted /\ ackedEarly' \subseteq ackedEarly
      BY <1>1 DEF EnqueueDone, EnqueueDoneAcked, EnqueueFails
    <2>2. QED
      BY <2>1 DEF SenderOK
  <1>2. ASSUME NEW k \in Sent, StartSend(k) \/ HeadStartOver(k) PROVE SenderOK'
    <2>1. /\ \/ sending' = [sending EXCEPT ![k] = "head start"]
             \/ sending' = [sending EXCEPT ![k] = "storing"]
          /\ unpersisted' \subseteq unpersisted \cup {k} /\ UNCHANGED ackedEarly
      BY <1>2 DEF StartSend, HeadStartOver
    <2>2. k \in Keys
      BY DEF Sent
    <2>3. QED
      BY <2>1, <2>2 DEF SenderOK
  <1>3. ASSUME NEW k \in Keys, AckArrives(k) \/ DropOne(k) \/ PlanRetire(k) PROVE SenderOK'
    BY <1>3 DEF AckArrives, DropOne, PlanRetire, Retire, NoteEarlyAck, SenderOK
  <1>4. CASE Crash
    BY <1>4 DEF Crash, SenderOK
  <1>5. CASE UNCHANGED sender
    BY <1>5 DEF sender, SenderOK
  <1>6. QED
    BY <1>1, <1>2, <1>3, <1>4, <1>5, SenderFrame

-----------------------------------------------------------------------------
\* The plan of the pass.
LEMMA PassFrame ==
  [Next]_vars =>
    \/ StartFlush \/ StartDriving \/ EndPass \/ Crash \/ UNCHANGED passes
    \/ \E ok \in BOOLEAN : FlushRead(ok)
    \/ \E k \in Keys : PlanSkip(k) \/ PlanRetire(k) \/ PlanRedrive(k)
    \/ \E p \in Peers : DriveSkip(p) \/ Drive(p) \/ Settle(p) \/ Deadline(p)
  BY DEF Next, StorageStep, StorageFault, PassStep, vars, passes, EnqueueDone,
     EnqueueDoneAcked, EnqueueFails, AckDone, AckFails, DropRead, SeedDone, StartSeed,
     StartSend, HeadStartOver, Deliver, LoseWire, LoseAck, AckArrives, DropOne, Due,
     FastFire, FastSettle, ContactChanges, StartDrop

\* Lanes stay lists of ids when they are extended and shortened.
LEMMA LaneValues ==
  ASSUME NEW s \in Seq(Ids)
  PROVE  /\ <<>> \in Seq(Ids) /\ (s # <<>> => Tail(s) \in Seq(Ids))
         /\ \A i \in Ids : Append(s, i) \in Seq(Ids)
         /\ \A n \in Nat : n <= Len(s) => SubSeq(s, 1, n) \in Seq(Ids)
  <1>1. <<>> \in Seq(Ids) /\ (s # <<>> => Tail(s) \in Seq(Ids))
    OBVIOUS
  <1>2. \A i \in Ids : Append(s, i) \in Seq(Ids)
    OBVIOUS
  <1>3. \A n \in Nat : n <= Len(s) => SubSeq(s, 1, n) \in Seq(Ids)
    OBVIOUS
  <1>4. QED
    BY <1>1, <1>2, <1>3

LEMMA PassType == PassOK /\ [Next]_vars => PassOK'
  <1> SUFFICES ASSUME PassOK, [Next]_vars PROVE PassOK'
    OBVIOUS
  <1>1. CASE StartFlush
    BY <1>1 DEF StartFlush, PassOK
  <1>2. CASE StartDriving
    <2>1. PICK cut \in [Peers -> 0..MaxPerPass] :
             /\ \A p \in Peers : cut[p] <= Len(lane[p])
             /\ lane' = [p \in Peers |-> SubSeq(lane[p], 1, cut[p])]
      BY <1>2 DEF StartDriving, RoundRobin
    <2>2. \A p \in Peers : SubSeq(lane[p], 1, cut[p]) \in Seq(Ids)
      BY <2>1, LaneValues, OutboxAssumption DEF PassOK
    <2>3. lane' \in [Peers -> Seq(Ids)]
      BY <2>1, <2>2
    <2>4. pass' = "driving" /\ UNCHANGED <<todo, working, joined>>
      BY <1>2 DEF StartDriving
    <2>5. QED
      BY <2>3, <2>4 DEF PassOK
  <1>3. CASE EndPass
    BY <1>3 DEF EndPass, PassOK
  <1>4. CASE Crash
    <2>1. lane' = [p \in Peers |-> <<>>]
      BY <1>4 DEF Crash
    <2>2. lane' \in [Peers -> Seq(Ids)]
      BY <2>1
    <2>3. QED
      BY <1>4, <2>2 DEF Crash, PassOK
  <1>5. ASSUME NEW ok \in BOOLEAN, FlushRead(ok) PROVE PassOK'
    BY <1>5 DEF FlushRead, PassOK, Visible, Stored
  <1>6. ASSUME NEW k \in Keys, PlanSkip(k) \/ PlanRetire(k) PROVE PassOK'
    BY <1>6 DEF PlanSkip, PlanRetire, PassOK
  <1>7. ASSUME NEW k \in Keys, PlanRedrive(k) PROVE PassOK'
    <2>1. k[1] \in Peers /\ k[2] \in Ids
      BY DEF Keys
    <2>2. Append(lane[k[1]], k[2]) \in Seq(Ids)
      BY <2>1, LaneValues DEF PassOK
    <2>3. lane' = [lane EXCEPT ![k[1]] = Append(lane[k[1]], k[2])]
          /\ todo' = todo \ {k} /\ UNCHANGED <<pass, working, joined>>
      BY <1>7 DEF PlanRedrive
    <2>4. QED
      BY <2>2, <2>3 DEF PassOK
  <1>8. ASSUME NEW p \in Peers,
               DriveSkip(p) \/ Drive(p) \/ Settle(p) \/ Deadline(p)
        PROVE  PassOK'
    <2>1. /\ \/ UNCHANGED lane
             \/ lane[p] # <<>> /\ lane' = [lane EXCEPT ![p] = Tail(lane[p])]
             \/ lane' = [lane EXCEPT ![p] = <<>>]
          /\ working' \subseteq working \cup {p} /\ joined' \subseteq joined \cup {p}
          /\ UNCHANGED <<pass, todo>>
      BY <1>8 DEF DriveSkip, Drive, Settle, Deadline, CanWork
    <2>2. <<>> \in Seq(Ids) /\ (lane[p] # <<>> => Tail(lane[p]) \in Seq(Ids))
      BY LaneValues DEF PassOK
    <2>3. lane' \in [Peers -> Seq(Ids)]
      BY <2>1, <2>2 DEF PassOK
    <2>4. QED
      BY <2>1, <2>3 DEF PassOK
  <1>9. CASE UNCHANGED passes
    BY <1>9 DEF passes, PassOK
  <1>10. QED
    BY <1>1, <1>2, <1>3, <1>4, <1>5, <1>6, <1>7, <1>8, <1>9, PassFrame

-----------------------------------------------------------------------------
\* The storage queue and the rows.
LEMMA StoreFrame ==
  StoreOK /\ [Next]_vars =>
    /\ UNCHANGED row \/ \E k \in Keys : StoreRow(k) \/ RemoveRow(k)
    /\ \/ UNCHANGED ops \/ ops' = <<>> \/ \E o \in Op : ops' = Append(ops, o)
       \/ ops # <<>> /\ ops' = Tail(ops)
       \/ ops # <<>> /\ \E o \in Op : ops' = Append(Tail(ops), o)
  <1> DEFINE NewRow == UNCHANGED row \/ \E k \in Keys : StoreRow(k) \/ RemoveRow(k)
             NewOps == \/ UNCHANGED ops \/ ops' = <<>> \/ \E o \in Op : ops' = Append(ops, o)
                       \/ ops # <<>> /\ ops' = Tail(ops)
                       \/ ops # <<>> /\ \E o \in Op : ops' = Append(Tail(ops), o)
  <1> SUFFICES ASSUME StoreOK, [Next]_vars PROVE NewRow /\ NewOps
    OBVIOUS
  <1>1. /\ \A k \in Keys : /\ [op |-> "enqueue", key |-> k] \in Op
                          /\ [op |-> "ack", key |-> k] \in Op
        /\ [op |-> "read"] \in Op /\ [op |-> "seed"] \in Op
        /\ \A p \in Peers : [op |-> "drop", peer |-> p] \in Op
    BY DEF Op
  <1>2. CASE EnqueueDone \/ EnqueueDoneAcked \/ AckDone
    <2>1. Head(ops).key \in Keys /\ ops # <<>>
      BY <1>2, HeadType DEF EnqueueDone, EnqueueDoneAcked, AckDone, Head_
    <2>2. NewRow
      BY <1>2, <2>1 DEF EnqueueDone, EnqueueDoneAcked, AckDone
    <2>3. NewOps
      BY <1>1, <1>2, <2>1 DEF EnqueueDone, EnqueueDoneAcked, AckDone
    <2>4. QED
      BY <2>2, <2>3
  <1>3. CASE \/ EnqueueFails \/ AckFails
             \/ \E ok \in BOOLEAN : DropRead(ok) \/ SeedDone(ok) \/ FlushRead(ok)
    BY <1>3 DEF EnqueueFails, AckFails, DropRead, SeedDone, FlushRead, Head_
  <1>4. CASE \/ StartSeed \/ StartFlush \/ \E p \in Peers : StartDrop(p)
             \/ \E k \in Sent : StartSend(k) \/ HeadStartOver(k)
             \/ \E k \in Keys : AckArrives(k) \/ DropOne(k) \/ PlanRetire(k)
    BY <1>1, <1>4 DEF StartSeed, StartFlush, StartDrop, StartSend, HeadStartOver, AckArrives,
       DropOne, PlanRetire, Retire, Sent
  <1>5. CASE Crash
    <2>1. Head_("enqueue") \/ Head_("ack") => Head(ops).key \in Keys
      BY HeadType DEF Head_
    <2>2. QED
      BY <1>5, <2>1 DEF Crash
  <1>6. CASE UNCHANGED <<row, ops>>
    BY <1>6
  <1>7. \/ EnqueueDone \/ EnqueueDoneAcked \/ AckDone \/ EnqueueFails \/ AckFails
        \/ \E ok \in BOOLEAN : DropRead(ok) \/ SeedDone(ok) \/ FlushRead(ok)
        \/ StartSeed \/ StartFlush \/ \E p \in Peers : StartDrop(p)
        \/ \E k \in Sent : StartSend(k) \/ HeadStartOver(k)
        \/ \E k \in Keys : AckArrives(k) \/ DropOne(k) \/ PlanRetire(k)
        \/ Crash \/ UNCHANGED <<row, ops>>
    BY DEF Next, StorageStep, StorageFault, PassStep, vars, store, StartDriving, EndPass,
       PlanSkip, PlanRedrive, DriveSkip, Drive, Settle, Deliver, LoseWire,
       LoseAck, Due, FastFire, FastSettle, Deadline, ContactChanges
  <1>8. QED
    BY <1>2, <1>3, <1>4, <1>5, <1>6, <1>7

LEMMA StoreType == StoreOK /\ [Next]_vars => StoreOK'
  <1> SUFFICES ASSUME StoreOK, [Next]_vars PROVE StoreOK'
    OBVIOUS
  <1>1. row' \in [Ids -> Peers \cup {NoPeer}]
    <2>1. ASSUME NEW k \in Keys, StoreRow(k) \/ RemoveRow(k)
          PROVE  row' \in [Ids -> Peers \cup {NoPeer}]
      BY <2>1 DEF StoreRow, RemoveRow, StoreOK, Keys
    <2>2. CASE UNCHANGED row
      BY <2>2 DEF StoreOK
    <2>3. QED
      BY <2>1, <2>2, StoreFrame
  <1>2. ops' \in Seq(Op)
    <2>1. ops \in Seq(Op) /\ <<>> \in Seq(Op) /\ (ops # <<>> => Tail(ops) \in Seq(Op))
      BY DEF StoreOK
    <2>2. \A s \in Seq(Op) : \A o \in Op : Append(s, o) \in Seq(Op)
      OBVIOUS
    <2>3. QED
      BY <2>1, <2>2, StoreFrame
  <1>3. loaded' \in BOOLEAN
    <2>1. UNCHANGED loaded \/ loaded' = TRUE \/ loaded' = FALSE
          \/ \E ok \in BOOLEAN : loaded' = (loaded \/ ok)
      BY DEF Next, StorageStep, StorageFault, PassStep, vars, store, EnqueueDone,
         EnqueueDoneAcked, EnqueueFails, AckDone, AckFails, DropRead, SeedDone, FlushRead,
         StartDriving, EndPass, PlanSkip, PlanRetire, PlanRedrive, DriveSkip,
         Drive, Settle, StartFlush, StartSeed, StartSend, HeadStartOver, Deliver, LoseWire,
         LoseAck, AckArrives, DropOne, Due, FastFire, FastSettle, Deadline, ContactChanges,
         StartDrop, Crash, Access, Refused
    <2>2. QED
      BY <2>1 DEF StoreOK
  <1>4. QED
    BY <1>1, <1>2, <1>3 DEF StoreOK

-----------------------------------------------------------------------------
LEMMA HistoryType == StoreOK /\ HistoryOK /\ [Next]_vars => HistoryOK'
  <1> SUFFICES ASSUME StoreOK, HistoryOK, [Next]_vars PROVE HistoryOK'
    OBVIOUS
  <1>1. CASE EnqueueDone \/ AckDone
    <2>1. Head(ops).key \in Keys
      BY <1>1, HeadType DEF EnqueueDone, AckDone, Head_
    <2>2. QED
      BY <1>1, <2>1 DEF EnqueueDone, AckDone, HistoryOK
  <1>2. CASE AckFails
    <2>1. Head(ops).key \in Keys
      BY <1>2, HeadType DEF AckFails, Head_
    <2>2. stuck' = stuck \cup {Head(ops).key} /\ UNCHANGED <<held, settled, moot>>
      BY <1>2 DEF AckFails
    <2>3. QED
      BY <2>1, <2>2 DEF HistoryOK
  <1>3. ASSUME NEW k \in Keys, AckArrives(k) \/ DropOne(k) \/ PlanRetire(k) PROVE HistoryOK'
    BY <1>3 DEF AckArrives, DropOne, PlanRetire, HistoryOK
  <1>4. ASSUME NEW k \in Sent, StartSend(k) PROVE HistoryOK'
    BY <1>4 DEF StartSend, HistoryOK
  <1>5. CASE Crash
    BY <1>5 DEF Crash, HistoryOK
  <1>6. CASE UNCHANGED history
    BY <1>6 DEF history, HistoryOK
  <1>7. \/ EnqueueDone \/ AckDone \/ AckFails \/ Crash \/ UNCHANGED history
        \/ \E k \in Keys : AckArrives(k) \/ DropOne(k) \/ PlanRetire(k)
        \/ \E k \in Sent : StartSend(k)
    BY DEF Next, StorageStep, StorageFault, PassStep, vars, EnqueueDoneAcked, EnqueueFails,
       DropRead, SeedDone, FlushRead, StartDriving, EndPass, PlanSkip, PlanRedrive,
       DriveSkip, Drive, Settle, StartFlush, StartSeed, HeadStartOver, Deliver,
       LoseWire, LoseAck, Due, FastFire, FastSettle, Deadline, ContactChanges, StartDrop
  <1>8. QED
    BY <1>1, <1>2, <1>3, <1>4, <1>5, <1>6, <1>7

\* The frames in transit.
LEMMA NetworkType ==
  ASSUME StoreOK, LadderOK, PassOK, net \subseteq Keys, acks \subseteq Keys, [Next]_vars
  PROVE  net' \subseteq Keys /\ acks' \subseteq Keys
  <1>1. CASE EnqueueDone
    <2>1. Head(ops).key \in Keys
      BY <1>1, HeadType DEF EnqueueDone, Head_
    <2>2. net' \subseteq net \cup {Head(ops).key} /\ UNCHANGED acks
      BY <1>1 DEF EnqueueDone
    <2>3. QED
      BY <2>1, <2>2
  <1>2. ASSUME NEW k \in Keys, \/ StartSend(k) \/ Deliver(k) \/ LoseWire(k) \/ LoseAck(k)
                               \/ AckArrives(k)
        PROVE  net' \subseteq Keys /\ acks' \subseteq Keys
    BY <1>2 DEF StartSend, Deliver, LoseWire, LoseAck, AckArrives
  <1>3. ASSUME NEW i \in Ids, FastFire(i) PROVE net' \subseteq Keys /\ acks' \subseteq Keys
    <2>1. timer[i] \in Ladder \ {NoLadder}
      BY <1>3 DEF FastFire, LadderOK
    <2>2. <<timer[i].peer, i>> \in Keys
      BY <2>1 DEF Ladder, Keys
    <2>3. net' \subseteq net \cup {<<timer[i].peer, i>>} /\ UNCHANGED acks
      BY <1>3 DEF FastFire
    <2>4. QED
      BY <2>2, <2>3
  <1>4. ASSUME NEW p \in Peers, Drive(p) PROVE net' \subseteq Keys /\ acks' \subseteq Keys
    <2>1. lane[p] \in Seq(Ids) /\ lane[p] # <<>>
      BY <1>4 DEF Drive, CanWork, PassOK
    <2>2. Head(lane[p]) \in Ids
      BY <2>1
    <2>3. net' = net \cup {<<p, Head(lane[p])>>} /\ UNCHANGED acks
      BY <1>4 DEF Drive
    <2>4. QED
      BY <2>2, <2>3 DEF Keys
  <1>5. \/ EnqueueDone \/ UNCHANGED network
        \/ \E k \in Sent : \/ StartSend(k) \/ Deliver(k) \/ LoseWire(k) \/ LoseAck(k)
        \/ \E k \in Keys : AckArrives(k)
        \/ \E i \in Ids : FastFire(i)
        \/ \E p \in Peers : Drive(p)
    BY DEF Next, StorageStep, StorageFault, PassStep, vars, network, EnqueueDoneAcked,
       EnqueueFails, AckDone, AckFails, DropRead, SeedDone, FlushRead, StartDriving, EndPass,
       PlanSkip, PlanRetire, PlanRedrive, DriveSkip, Settle, StartFlush,
       StartSeed, HeadStartOver, DropOne, Due, FastSettle, Deadline, ContactChanges,
       StartDrop, Crash
  <1>6. QED
    BY <1>1, <1>2, <1>3, <1>4, <1>5 DEF network, Sent

\* Drops, contacts and the bounds.
LEMMA EnvironmentType == StoreOK /\ RestOK /\ [Next]_vars =>
                           /\ doomed' \subseteq Keys /\ sends' \in Nat /\ faults' \in Nat
                           /\ contact' \in [Peers -> {"accepted", "blocked", "gone"}]
  <1> SUFFICES ASSUME StoreOK, RestOK, [Next]_vars
               PROVE  /\ doomed' \subseteq Keys /\ sends' \in Nat /\ faults' \in Nat
                      /\ contact' \in [Peers -> {"accepted", "blocked", "gone"}]
    OBVIOUS
  <1>1. faults' \in {faults, faults + 1} /\ sends' \in {sends, sends + 1}
    BY DEF Next, StorageStep, StorageFault, PassStep, vars, bounds, EnqueueDone,
       EnqueueDoneAcked, EnqueueFails, AckDone, AckFails, DropRead, SeedDone, FlushRead,
       StartDriving, EndPass, PlanSkip, PlanRetire, PlanRedrive, DriveSkip,
       Drive, Settle, StartFlush, StartSeed, StartSend, HeadStartOver, Deliver, LoseWire,
       LoseAck, AckArrives, DropOne, Due, FastFire, FastSettle, Deadline, ContactChanges,
       StartDrop, Crash, Access, Refused
  <1>2. contact' = contact \/ \E p \in Peers : ContactChanges(p)
    BY DEF Next, StorageStep, StorageFault, PassStep, vars, EnqueueDone,
       EnqueueDoneAcked, EnqueueFails, AckDone, AckFails, DropRead, SeedDone, FlushRead,
       StartDriving, EndPass, PlanSkip, PlanRetire, PlanRedrive, DriveSkip,
       Drive, Settle, StartFlush, StartSeed, StartSend, HeadStartOver, Deliver, LoseWire,
       LoseAck, AckArrives, DropOne, Due, FastFire, FastSettle, Deadline, StartDrop, Crash
  <1>3. \/ doomed' \subseteq doomed \/ \E ok \in BOOLEAN : DropRead(ok)
    BY DEF Next, StorageStep, StorageFault, PassStep, vars, EnqueueDone,
       EnqueueDoneAcked, EnqueueFails, AckDone, AckFails, SeedDone, FlushRead,
       StartDriving, EndPass, PlanSkip, PlanRetire, PlanRedrive, DriveSkip,
       Drive, Settle, StartFlush, StartSeed, StartSend, HeadStartOver, Deliver, LoseWire,
       LoseAck, AckArrives, DropOne, Due, FastFire, FastSettle, Deadline, ContactChanges,
       StartDrop, Crash
  <1>4. ASSUME NEW p \in Peers, ContactChanges(p)
        PROVE  contact' \in [Peers -> {"accepted", "blocked", "gone"}]
    BY <1>4 DEF ContactChanges, RestOK
  <1>5. ASSUME NEW ok \in BOOLEAN, DropRead(ok) PROVE doomed' \subseteq Keys
    BY <1>5 DEF DropRead, Visible, Stored, RestOK
  <1>6. QED
    BY <1>1, <1>2, <1>3, <1>4, <1>5 DEF RestOK

-----------------------------------------------------------------------------
LEMMA TypeStep == TypeOK /\ [Next]_vars => TypeOK'
  <1> SUFFICES ASSUME TypeOK, [Next]_vars PROVE TypeOK'
    OBVIOUS
  <1>1. StoreOK' /\ SenderOK' /\ LadderOK'
    BY StoreType, SenderType, LadderType DEF TypeOK
  <1>2. CountsOK' /\ SnapshotOK' /\ PassOK'
    BY CountsType, SnapshotType, PassType DEF TypeOK
  <1>3. LiveOK' /\ HistoryOK'
    BY LiveType, HistoryType DEF TypeOK
  <1>4. RestOK'
    BY NetworkType, EnvironmentType DEF TypeOK, RestOK
  <1>5. QED
    BY <1>1, <1>2, <1>3, <1>4 DEF TypeOK

\* Every variable stays in its set, for any peers, ids and bounds (the state of
\* _MessagingOutbox and of the stored outbox).
THEOREM TypeCorrect == Spec => []TypeOK
  <1>1. Init => TypeOK
    BY TypeInit
  <1>2. TypeOK /\ [Next]_vars => TypeOK'
    BY TypeStep
  <1>3. QED
    BY <1>1, <1>2, PTL DEF Spec

-----------------------------------------------------------------------------
\* A peer with a re-drive out is occupied, and has one out.
LegOfActive == \A p \in Peers : legs[p] = IF p \in active THEN 1 ELSE 0

\* Over all passes, whatever times out, is retired or crashes, at most one re-drive to a peer
\* is out (_activeLivePeers, boundedLiveLeg).
THEOREM OneLeg == Spec => []OneLegPerPeer
  <1>1. Init => LegOfActive
    BY DEF Init, LegOfActive
  <1>2. TypeOK /\ LegOfActive /\ [Next]_vars => LegOfActive'
    <2> SUFFICES ASSUME TypeOK, LegOfActive, [Next]_vars PROVE LegOfActive'
      OBVIOUS
    <2>1. LiveOK
      BY DEF TypeOK
    <2>2. ASSUME NEW p \in Peers, Drive(p) PROVE LegOfActive'
      <3>1. p \notin active /\ active' = active \cup {p} /\ legs' = [legs EXCEPT ![p] = @ + 1]
        BY <2>2 DEF Drive, Occupied
      <3>2. QED
        BY <2>1, <3>1 DEF LegOfActive, LiveOK
    <2>3. ASSUME NEW p \in Peers, Settle(p) PROVE LegOfActive'
      <3>1. legs[p] > 0 /\ active' = active \ {p} /\ legs' = [legs EXCEPT ![p] = @ - 1]
        BY <2>3 DEF Settle, Release
      <3>2. QED
        BY <2>1, <3>1 DEF LegOfActive, LiveOK
    <2>4. CASE Crash
      BY <2>4 DEF Crash, LegOfActive
    <2>5. CASE UNCHANGED live
      BY <2>5 DEF live, LegOfActive
    <2>6. QED
      BY <2>2, <2>3, <2>4, <2>5, LiveFrame
  <1>3. LegOfActive => OneLegPerPeer
    BY DEF LegOfActive, OneLegPerPeer
  <1>4. QED
    BY <1>1, <1>2, <1>3, TypeCorrect, PTL DEF Spec

-----------------------------------------------------------------------------
\* A lane that nobody waits on belongs to a peer that no re-drive occupies.
FreeLane == \A p \in Peers : lane[p] # <<>> /\ p \notin joined => p \notin active

\* A step that begins no lane, ends no wait and occupies no peer keeps lanes free.
LEMMA FreeLaneKept ==
  ASSUME FreeLane, active' \subseteq active,
         \A p \in Peers : lane'[p] # <<>> /\ p \notin joined' =>
                             p \notin active' \/ (lane[p] # <<>> /\ p \notin joined)
  PROVE  FreeLane'
  BY DEF FreeLane

LEMMA FreeLaneStep == TypeOK /\ FreeLane /\ [Next]_vars => FreeLane'
  <1> SUFFICES ASSUME TypeOK, FreeLane, [Next]_vars PROVE FreeLane'
    OBVIOUS
  <1>1. lane \in [Peers -> Seq(Ids)] /\ joined \in SUBSET Peers /\ active \in SUBSET Peers
    BY DEF TypeOK, PassOK, LiveOK
  <1>2. CASE StartFlush \/ EndPass \/ \E ok \in BOOLEAN : FlushRead(ok)
    BY <1>2, FreeLaneKept DEF StartFlush, EndPass, FlushRead, live
  <1>3. CASE StartDriving
    <2>1. PICK cut \in [Peers -> 0..MaxPerPass] :
             /\ \A p \in Peers : cut[p] <= Len(lane[p])
             /\ lane' = [p \in Peers |-> SubSeq(lane[p], 1, cut[p])]
      BY <1>3 DEF StartDriving, RoundRobin
    <2>2. ASSUME NEW p \in Peers, lane'[p] # <<>> PROVE lane[p] # <<>>
      <3>1. SUFFICES ASSUME lane[p] = <<>> PROVE FALSE
        OBVIOUS
      <3>2. cut[p] = 0
        BY <2>1, <3>1, OutboxAssumption
      <3>3. QED
        BY <2>1, <2>2, <3>1, <3>2
    <2>3. UNCHANGED <<joined, active>>
      BY <1>3 DEF StartDriving, live
    <2>4. QED
      BY <2>2, <2>3, FreeLaneKept
  <1>4. CASE Crash
    BY <1>4 DEF Crash, FreeLane
  <1>5. ASSUME NEW k \in Keys, PlanSkip(k) \/ PlanRetire(k) PROVE FreeLane'
    BY <1>5, FreeLaneKept DEF PlanSkip, PlanRetire, live
  <1>6. ASSUME NEW k \in Keys, PlanRedrive(k) PROVE FreeLane'
    <2>1. k[1] \in Peers
      BY DEF Keys
    <2>2. /\ lane' = [lane EXCEPT ![k[1]] = Append(@, k[2])]
          /\ UNCHANGED <<joined, active>> /\ contact[k[1]] = "accepted" /\ ~Skipped(k)
      BY <1>6 DEF PlanRedrive, live
    <2>3. k[1] \notin active
      BY <2>2 DEF Skipped, Occupied
    <2>4. \A p \in Peers : p # k[1] => lane'[p] = lane[p]
      BY <1>1, <2>2
    <2>5. QED
      BY <2>2, <2>3, <2>4, FreeLaneKept
  <1>7. ASSUME NEW p \in Peers, DriveSkip(p) PROVE FreeLane'
    <2>1. lane[p] # <<>> /\ p \notin joined /\ UNCHANGED <<joined, active>>
          /\ lane' = [lane EXCEPT ![p] = Tail(@)]
      BY <1>7 DEF DriveSkip, CanWork, live
    <2>2. QED
      BY <1>1, <2>1, FreeLaneKept
  <1>8. ASSUME NEW p \in Peers, Drive(p) PROVE FreeLane'
    <2>1. /\ lane' = [lane EXCEPT ![p] = Tail(@)]
          /\ joined' = joined \cup {p} /\ active' = active \cup {p}
      BY <1>8 DEF Drive
    <2>2. QED
      BY <1>1, <2>1 DEF FreeLane
  <1>9. ASSUME NEW p \in Peers, Settle(p) PROVE FreeLane'
    <2>1. active' = active \ {p} /\ joined' = joined \ {p} /\ UNCHANGED lane
      BY <1>9 DEF Settle, Release
    <2>2. QED
      BY <2>1 DEF FreeLane
  <1>10. ASSUME NEW p \in Peers, Deadline(p) PROVE FreeLane'
    <2>1. /\ lane' = [lane EXCEPT ![p] = <<>>]
          /\ joined' = joined \ {p} /\ UNCHANGED active
      BY <1>10 DEF Deadline, live
    <2>2. QED
      BY <1>1, <2>1 DEF FreeLane
  <1>11. CASE UNCHANGED passes
    <2>1. UNCHANGED <<lane, joined>>
      BY <1>11 DEF passes
    <2>2. CASE \E p \in Peers : Drive(p) \/ Settle(p)
      BY <1>8, <1>9, <2>2
    <2>3. CASE UNCHANGED live
      BY <2>1, <2>3 DEF live, FreeLane
    <2>4. QED
      BY <1>4, <2>2, <2>3, LiveFrame
  <1>12. QED
    BY <1>2, <1>3, <1>4, <1>5, <1>6, <1>7, <1>8, <1>9, <1>10, <1>11, PassFrame

\* A worker that may take the next row of a lane never finds its peer occupied, not even by
\* a leg of an earlier pass whose deadline came: the test of _activeLivePeers that
\* _redriveCandidate repeats never ends a lane, and Drive and DriveSkip need no third case.
THEOREM WorkersFindPeersFree == Spec => [](\A p \in Peers : CanWork(p) => ~Occupied(p))
  <1>1. Init => FreeLane
    BY DEF Init, FreeLane
  <1>2. FreeLane => \A p \in Peers : CanWork(p) => ~Occupied(p)
    BY DEF FreeLane, CanWork, Occupied
  <1>3. QED
    BY <1>1, <1>2, FreeLaneStep, TypeCorrect, PTL DEF Spec

-----------------------------------------------------------------------------
\* The counter of a peer is the number of its pending frames.
Of(p) == {k \in pending : k[1] = p}
CountExact == \A p \in Peers : count[p] = Cardinality(Of(p))

LEMMA CountStep == TypeOK /\ CountExact /\ [Next]_vars => CountExact'
  <1> SUFFICES ASSUME TypeOK, CountExact, [Next]_vars PROVE CountExact'
    OBVIOUS
  <1>1. /\ pending \subseteq Keys /\ count \in [Peers -> Int]
        /\ \A p \in Peers : IsFiniteSet(Of(p)) /\ Cardinality(Of(p)) \in Nat
    <2>1. pending \subseteq Keys /\ count \in [Peers -> Int]
      BY DEF TypeOK, CountsOK
    <2>2. \A p \in Peers : Of(p) \subseteq Keys
      BY <2>1 DEF Of
    <2>3. QED
      BY <2>1, <2>2, FinitelyManyKeys, FS_Subset
  <1>2. ASSUME NEW k \in Keys, Count(k), k \notin pending PROVE CountExact'
    <2> SUFFICES ASSUME NEW p \in Peers PROVE count'[p] = Cardinality(Of(p)')
      BY DEF CountExact
    <2>1. k[1] \in Peers /\ pending' = pending \cup {k}
          /\ count' = [count EXCEPT ![k[1]] = @ + 1]
      BY <1>2 DEF Count, Keys
    <2>2. CASE p = k[1]
      <3>1. Of(p)' = Of(p) \cup {k} /\ k \notin Of(p)
        BY <1>2, <2>1, <2>2 DEF Of
      <3>2. Cardinality(Of(p) \cup {k}) = Cardinality(Of(p)) + 1
        BY <1>1, <3>1, FS_AddElement
      <3>3. count'[p] = count[p] + 1
        BY <1>1, <2>1, <2>2
      <3>4. QED
        BY <3>1, <3>2, <3>3 DEF CountExact
    <2>3. CASE p # k[1]
      <3>1. Of(p)' = Of(p)
        BY <2>1, <2>3 DEF Of
      <3>2. QED
        BY <1>1, <2>1, <2>3, <3>1 DEF CountExact
    <2>4. QED
      BY <2>2, <2>3
  <1>3. ASSUME NEW k \in Keys, Uncount(k), k \in pending PROVE CountExact'
    <2> SUFFICES ASSUME NEW p \in Peers PROVE count'[p] = Cardinality(Of(p)')
      BY DEF CountExact
    <2>1. k[1] \in Peers /\ pending' = pending \ {k}
          /\ count' = [count EXCEPT ![k[1]] = @ - 1]
      BY <1>3 DEF Uncount, Keys
    <2>2. CASE p = k[1]
      <3>1. Of(p)' = Of(p) \ {k} /\ k \in Of(p)
        BY <1>3, <2>1, <2>2 DEF Of
      <3>2. QED
        BY <1>1, <2>1, <2>2, <3>1, FS_RemoveElement DEF CountExact
    <2>3. CASE p # k[1]
      <3>1. Of(p)' = Of(p)
        BY <2>1, <2>3 DEF Of
      <3>2. QED
        BY <1>1, <2>1, <2>3, <3>1 DEF CountExact
    <2>4. QED
      BY <2>2, <2>3
  <1>4. ASSUME NEW k \in Keys, (Count(k) /\ k \in pending) \/ (Uncount(k) /\ k \notin pending)
        PROVE  CountExact'
    <2>1. pending' = pending /\ count' = count
      BY <1>4 DEF Count, Uncount
    <2>2. QED
      BY <2>1 DEF CountExact, Of
  <1>5. ASSUME NEW ok \in BOOLEAN, Recount(Visible(ok)) PROVE CountExact'
    BY <1>5 DEF Recount, CountExact, Of
  <1>6. CASE Crash
    <2>1. pending' = {} /\ count' = [p \in Peers |-> 0]
      BY <1>6 DEF Crash
    <2>2. \A p \in Peers : Of(p)' = {}
      BY <2>1 DEF Of
    <2>3. QED
      BY <2>1, <2>2, FS_EmptySet DEF CountExact
  <1>7. CASE UNCHANGED counts
    BY <1>7 DEF counts, CountExact, Of
  <1>8. StoreOK
    BY DEF TypeOK
  <1>9. QED
    BY <1>2, <1>3, <1>4, <1>5, <1>6, <1>7, <1>8, CountsFrame

\* Every stored row is counted, or its retirement is under way or was refused.
Covered == seeded => Stored \subseteq pending \cup Leaving \cup stuck

LEMMA LeavingMeans ==
    \A k : k \in Leaving <=> k \in Keys /\ \E j \in DOMAIN ops : ops[j] = [op |-> "ack", key |-> k]
  BY DEF Leaving, Queued

\* What joins the queue, and what leaves it.
LEMMA PushLeaving ==
    ASSUME ops \in Seq(Op), NEW o \in Op, ops' = Append(ops, o)
    PROVE  /\ Leaving \subseteq Leaving'
           /\ \A k \in Keys : o = [op |-> "ack", key |-> k] => k \in Leaving'
  <1>1. /\ \A j \in DOMAIN ops : j \in DOMAIN ops' /\ ops'[j] = ops[j]
        /\ Len(ops) + 1 \in DOMAIN ops' /\ ops'[Len(ops) + 1] = o
    OBVIOUS
  <1>2. QED
    BY <1>1 DEF Leaving, Queued

LEMMA PopLeaving ==
    ASSUME ops \in Seq(Op), ops # <<>>, ops' = Tail(ops), NEW k \in Leaving
    PROVE  k \in Leaving' \/ Head(ops) = [op |-> "ack", key |-> k]
  <1>1. PICK j \in 1..Len(ops) : ops[j] = [op |-> "ack", key |-> k]
    BY LeavingMeans
  <1>2. CASE j = 1
    BY <1>1, <1>2
  <1>3. CASE j # 1
    <2>1. j - 1 \in DOMAIN ops' /\ ops'[j - 1] = ops[j]
      BY <1>3
    <2>2. k \in Keys
      BY DEF Leaving
    <2>3. QED
      BY <1>1, <2>1, <2>2 DEF Leaving, Queued
  <1>4. QED
    BY <1>2, <1>3

\* A row is written, or removed.
LEMMA RowFacts ==
    ASSUME StoreOK, NEW k \in Keys
    PROVE  /\ StoreRow(k) => Stored' \subseteq Stored \cup {k}
           /\ RemoveRow(k) => Stored' \subseteq Stored \ {k}
           /\ UNCHANGED row => Stored' = Stored
  <1>1. \A q \in Keys : q[1] \in Peers /\ q[2] \in Ids /\ q[1] # NoPeer
               /\ (q[1] = k[1] /\ q[2] = k[2] => q = k)
    BY OutboxAssumption DEF Keys
  <1>2. \A q \in Keys : q \in Stored <=> row[q[2]] = q[1]
    BY DEF Stored
  <1>3. \A q \in Keys : q \in Stored' <=> row'[q[2]] = q[1]
    BY DEF Stored
  <1>4. Stored' \subseteq Keys
    BY DEF Stored
  <1>5. ASSUME StoreRow(k) PROVE Stored' \subseteq Stored \cup {k}
    <2>1. \A i \in Ids : row'[i] = row[i] \/ (i = k[2] /\ row'[i] = k[1])
      BY <1>5 DEF StoreRow, StoreOK
    <2>2. QED
      BY <1>1, <1>2, <1>3, <1>4, <2>1
  <1>6. ASSUME RemoveRow(k) PROVE Stored' \subseteq Stored \ {k}
    <2>1. /\ \A i \in Ids : row'[i] \in {row[i], NoPeer}
          /\ row'[k[2]] # k[1]
      BY <1>1, <1>6 DEF RemoveRow, StoreOK
    <2>2. QED
      BY <1>1, <1>2, <1>3, <1>4, <2>1
  <1>7. QED
    BY <1>5, <1>6 DEF Stored

\* A frame is retired: what counted it is replaced by its retirement.
LEMMA RetireCovered ==
    ASSUME TypeOK, Covered, NEW k \in Keys, Retire(k, ops), UNCHANGED <<row, seeded, stuck>>
    PROVE  Covered'
  <1>1. pending' = pending \ {k} /\ ops' = Append(ops, [op |-> "ack", key |-> k])
    BY DEF Retire, Uncount
  <1>2. Leaving \subseteq Leaving' /\ k \in Leaving'
    <2>1. [op |-> "ack", key |-> k] \in Op /\ ops \in Seq(Op)
      BY DEF Op, TypeOK, StoreOK
    <2>2. QED
      BY <1>1, <2>1, PushLeaving
  <1>3. Stored' = Stored
    BY DEF Stored
  <1>4. QED
    BY <1>1, <1>2, <1>3 DEF Covered

LEMMA HeadCovered ==
    ASSUME TypeOK, Covered, EnqueueDone \/ EnqueueDoneAcked \/ EnqueueFails \/ AckDone \/ AckFails
    PROVE  Covered'
  <1> DEFINE k == Head(ops).key
  <1>1. /\ StoreOK /\ ops \in Seq(Op) /\ ops # <<>> /\ k \in Keys
        /\ Head(ops) \in Op /\ Head(ops).op \in {"enqueue", "ack"}
    <2>1. StoreOK /\ ops # <<>> /\ Head(ops).op \in {"enqueue", "ack"}
      BY DEF TypeOK, EnqueueDone, EnqueueDoneAcked, EnqueueFails, AckDone, AckFails, Head_
    <2>2. QED
      BY <2>1, HeadType DEF StoreOK
  <1>2. Tail(ops) \in Seq(Op)
    BY <1>1
  <1>3. ops' = Tail(ops) =>
           \A q \in Leaving : q \in Leaving' \/ (q = k /\ Head(ops).op = "ack")
    BY <1>1, PopLeaving
  <1> HIDE DEF k
  <1>4. CASE EnqueueDone
    <2>1. /\ StoreRow(k) /\ pending' = pending \cup {k} /\ ops' = Tail(ops)
          /\ Head(ops).op = "enqueue" /\ UNCHANGED <<seeded, stuck>>
      BY <1>4 DEF EnqueueDone, Head_, Count, k
    <2>2. Leaving \subseteq Leaving' /\ Stored' \subseteq Stored \cup {k}
      BY <1>1, <1>3, <2>1, RowFacts
    <2>3. QED
      BY <2>1, <2>2 DEF Covered
  <1>5. CASE EnqueueDoneAcked
    <2>1. /\ StoreRow(k) /\ pending' = pending \ {k} /\ Head(ops).op = "enqueue"
          /\ ops' = Append(Tail(ops), [op |-> "ack", key |-> k])
          /\ UNCHANGED <<seeded, stuck>>
      BY <1>5 DEF EnqueueDoneAcked, Head_, Uncount, history, k
    <2>2. k \in Leaving' /\ Leaving \subseteq Leaving'
      <3>1. ASSUME NEW j \in 1..Len(ops), j # 1
            PROVE  j - 1 \in DOMAIN ops' /\ ops'[j - 1] = ops[j]
        BY <1>1, <2>1, <3>1
      <3>2. Len(ops) \in DOMAIN ops' /\ ops'[Len(ops)] = [op |-> "ack", key |-> k]
        BY <1>1, <2>1
      <3>3. k \in Leaving'
        BY <1>1, <3>2 DEF Leaving, Queued
      <3>4. ASSUME NEW q \in Leaving PROVE q \in Leaving'
        <4>1. PICK j \in 1..Len(ops) : ops[j] = [op |-> "ack", key |-> q]
          BY <1>1, LeavingMeans
        <4>2. j # 1
          BY <1>1, <2>1, <4>1
        <4>3. j - 1 \in DOMAIN ops' /\ ops'[j - 1] = [op |-> "ack", key |-> q] /\ q \in Keys
          BY <3>1, <4>1, <4>2 DEF Leaving
        <4>4. QED
          BY <4>3 DEF Leaving, Queued
      <3>5. QED
        BY <3>3, <3>4
    <2>3. Stored' \subseteq Stored \cup {k}
      BY <1>1, <2>1, RowFacts
    <2>4. QED
      BY <2>1, <2>2, <2>3 DEF Covered
  <1>6. CASE EnqueueFails
    <2>1. ops' = Tail(ops) /\ Head(ops).op = "enqueue" /\ UNCHANGED <<row, counts, stuck>>
      BY <1>6 DEF EnqueueFails, Head_, history
    <2>2. Leaving \subseteq Leaving' /\ Stored' = Stored
      BY <1>1, <1>3, <2>1, RowFacts
    <2>3. QED
      BY <2>1, <2>2 DEF Covered, counts
  <1>7. CASE AckDone
    <2>1. RemoveRow(k) /\ stuck' = stuck \ {k} /\ ops' = Tail(ops) /\ UNCHANGED counts
      BY <1>7 DEF AckDone, k
    <2>2. Stored' \subseteq Stored \ {k}
      BY <1>1, <2>1, RowFacts
    <2>3. QED
      BY <1>3, <2>1, <2>2 DEF Covered, counts
  <1>8. CASE AckFails
    <2>1. UNCHANGED <<row, counts>> /\ stuck' = stuck \cup {k} /\ ops' = Tail(ops)
      BY <1>8 DEF AckFails, k
    <2>2. Stored' = Stored
      BY <1>1, <2>1, RowFacts
    <2>3. QED
      BY <1>3, <2>1, <2>2 DEF Covered, counts
  <1>9. QED
    BY <1>4, <1>5, <1>6, <1>7, <1>8

\* A read leaves the queue; if it fills the counters, it fills them with all that is stored.
LEMMA ReadCovered ==
    ASSUME TypeOK, Covered, ~LoadMayFail, NEW ok \in BOOLEAN,
           DropRead(ok) \/ SeedDone(ok) \/ FlushRead(ok)
    PROVE  Covered'
  <1>1. ok = TRUE
    BY DEF DropRead, SeedDone, FlushRead, Access, LoadFails
  <1>2. /\ ops \in Seq(Op) /\ ops # <<>> /\ Head(ops).op \in {"drop", "seed", "read"}
        /\ ops' = Tail(ops) /\ UNCHANGED <<row, stuck>>
    BY DEF DropRead, SeedDone, FlushRead, Head_, TypeOK, StoreOK, history
  <1>3. Leaving \subseteq Leaving'
    <2>1. ASSUME NEW q \in Leaving PROVE Head(ops) # [op |-> "ack", key |-> q]
      BY <1>2
    <2>2. QED
      BY <1>2, <2>1, PopLeaving
  <1>4. Stored' = Stored
    BY <1>2 DEF Stored
  <1>5. UNCHANGED counts \/ Recount(Stored)
    BY <1>1 DEF DropRead, SeedDone, FlushRead, Visible, counts
  <1>6. QED
    BY <1>2, <1>3, <1>4, <1>5 DEF Covered, counts, Recount

\* An enqueue or a read joins the queue, or nothing that the counters are about changes.
LEMMA QuietCovered ==
    ASSUME TypeOK, Covered, UNCHANGED <<row, counts, stuck>>,
           UNCHANGED ops \/ \E o \in Op : ops' = Append(ops, o)
    PROVE  Covered'
  <1>1. Leaving \subseteq Leaving'
    BY PushLeaving DEF TypeOK, StoreOK, Leaving, Queued
  <1>2. Stored' = Stored
    BY DEF Stored
  <1>3. QED
    BY <1>1, <1>2 DEF Covered, counts

LEMMA CoverStep == ~LoadMayFail /\ TypeOK /\ Covered /\ [Next]_vars => Covered'
  <1> SUFFICES ASSUME ~LoadMayFail, TypeOK, Covered, [Next]_vars PROVE Covered'
    OBVIOUS
  <1>1. CASE EnqueueDone \/ EnqueueDoneAcked \/ EnqueueFails \/ AckDone \/ AckFails
    BY <1>1, HeadCovered
  <1>2. ASSUME NEW ok \in BOOLEAN, DropRead(ok) \/ SeedDone(ok) \/ FlushRead(ok) PROVE Covered'
    BY <1>2, ReadCovered
  <1>3. ASSUME NEW k \in Keys, AckArrives(k) \/ DropOne(k) \/ PlanRetire(k) PROVE Covered'
    BY <1>3, RetireCovered DEF AckArrives, DropOne, PlanRetire
  <1>4. CASE Crash
    BY <1>4 DEF Crash, Covered
  <1>5. ASSUME NEW k \in Sent, StartSend(k) \/ HeadStartOver(k) PROVE Covered'
    <2>1. [op |-> "enqueue", key |-> k] \in Op
      BY DEF Op, Sent
    <2>2. QED
      BY <1>5, <2>1, QuietCovered DEF StartSend, HeadStartOver, history
  <1>6. CASE StartSeed \/ StartFlush \/ \E p \in Peers : StartDrop(p)
    <2>1. [op |-> "seed"] \in Op /\ [op |-> "read"] \in Op
          /\ \A p \in Peers : [op |-> "drop", peer |-> p] \in Op
      BY DEF Op
    <2>2. QED
      BY <1>6, <2>1, QuietCovered DEF StartSeed, StartFlush, StartDrop, history
  <1>7. CASE UNCHANGED <<store, counts, history>>
    BY <1>7, QuietCovered DEF store, history
  <1>8. \/ EnqueueDone \/ EnqueueDoneAcked \/ EnqueueFails \/ AckDone \/ AckFails \/ Crash
        \/ \E ok \in BOOLEAN : DropRead(ok) \/ SeedDone(ok) \/ FlushRead(ok)
        \/ \E k \in Keys : AckArrives(k) \/ DropOne(k) \/ PlanRetire(k)
        \/ \E k \in Sent : StartSend(k) \/ HeadStartOver(k)
        \/ StartSeed \/ StartFlush \/ \E p \in Peers : StartDrop(p)
        \/ UNCHANGED <<store, counts, history>>
    BY DEF Next, StorageStep, StorageFault, PassStep, vars, StartDriving, EndPass, PlanSkip,
       PlanRedrive, DriveSkip, Drive, Settle, Deliver, LoseWire, LoseAck, Due, FastFire,
       FastSettle, Deadline, ContactChanges
  <1>9. QED
    BY <1>1, <1>2, <1>3, <1>4, <1>5, <1>6, <1>7, <1>8

\* While every load of the index succeeds, the back-pressure counters never miss a stored row,
\* whatever sends and retirements happen during a recount, and are exact over what they count
\* (_pendingKeys, _pendingByPeer, ensurePendingCounted).
THEOREM CountsCover == ~LoadMayFail => (Spec => []NoUndercount)
  <1>1. Init => CountExact /\ Covered
    <2> SUFFICES ASSUME Init PROVE CountExact /\ Covered
      OBVIOUS
    <2>1. \A p \in Peers : Of(p) = {} /\ count[p] = 0
      BY DEF Init, Of
    <2>2. QED
      BY <2>1, FS_EmptySet DEF Init, CountExact, Covered
  <1>2. (~LoadMayFail /\ TypeOK /\ CountExact /\ Covered) /\ [Next]_vars
          => (~LoadMayFail /\ TypeOK /\ CountExact /\ Covered)'
    BY TypeStep, CountStep, CoverStep
  <1>3. CountExact /\ Covered => NoUndercount
    BY DEF CountExact, Covered, NoUndercount, Of
  <1>4. Init => TypeOK
    BY TypeInit
  <1>5. QED
    BY <1>1, <1>2, <1>3, <1>4, PTL DEF Spec
=============================================================================
