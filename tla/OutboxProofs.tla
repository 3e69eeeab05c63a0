---------------------------- MODULE OutboxProofs ----------------------------
(***************************************************************************)
(* Proofs about Outbox.  None of its properties is inductive: the          *)
(* invariants below add what a queued storage operation may still do to a  *)
(* row (HeldInv, SettleInv), what a flush pass has captured (SnapInv), and *)
(* which retries a call signal has left (LadderInv).                       *)
(***************************************************************************)
EXTENDS OutboxTypeProofs

\* Each frame id names its destination, as call, group and content ids do.
OneDest == \A i \in Ids : \A p, q \in Dest[i] : p = q

\* The part of TypeOK the argument needs.
QueueOK ==
    /\ row \in [Ids -> Peers \cup {NoPeer}] /\ ops \in Seq(Op)
    /\ sending \in [Keys -> {"idle", "head start", "storing"}]
    /\ held \subseteq Keys

\* No queued retirement is for a frame that is still owed.
NoAckOfHeld == \A j \in 1..Len(ops) : ops[j].op = "ack" => ops[j].key \notin held

\* Nor is a frame remembered as acknowledged before its row exists.
NoEarlyAckOfHeld == \A k \in held : k \notin ackedEarly

\* A retirement queued behind the enqueue of its frame is of a frame that is not owed again
\* when that enqueue completes.
AckBehindEnqueue ==
    \A i, j \in 1..Len(ops) :
        i < j /\ ops[i].op = "enqueue" /\ ops[j].op = "ack" /\ ops[i].key = ops[j].key
        => ops[j].key \in settled \cup moot

\* An enqueue belongs to the one send call of its frame that is storing it.
OneEnqueue ==
    /\ \A j \in 1..Len(ops) : ops[j].op = "enqueue" =>
          ops[j].key \in Sent /\ sending[ops[j].key] = "storing"
    /\ \A i, j \in 1..Len(ops) :
          ops[i].op = "enqueue" /\ ops[j].op = "enqueue" /\ ops[i].key = ops[j].key => i = j

\* A row is addressed to a destination of its id.
RowAddressed == \A i \in Ids : row[i] # NoPeer => row[i] \in Dest[i]

HeldInv ==
    /\ QueueOK /\ NoAckOfHeld /\ NoEarlyAckOfHeld /\ AckBehindEnqueue /\ OneEnqueue
    /\ RowAddressed /\ HeldIsStored

LEMMA InitHeld == Init => HeldInv
  <1> SUFFICES ASSUME Init PROVE HeldInv
    OBVIOUS
  <1>1. QueueOK
    BY DEF Init, QueueOK
  <1>2. QED
    BY <1>1 DEF Init, HeldInv, NoAckOfHeld, NoEarlyAckOfHeld, AckBehindEnqueue, OneEnqueue,
       RowAddressed, HeldIsStored

Relevant == <<row, ops, sending, ackedEarly, held, settled, moot>>

LEMMA SameHeld == HeldInv /\ UNCHANGED Relevant => HeldInv'
  BY DEF Relevant, HeldInv, QueueOK, NoAckOfHeld, NoEarlyAckOfHeld, AckBehindEnqueue,
     OneEnqueue, RowAddressed, HeldIsStored

\* An operation joins the queue; what was queued stays where it was.
LEMMA PushFacts ==
  ASSUME ops \in Seq(Op), NEW o \in Op, ops' = Append(ops, o)
  PROVE  /\ ops' \in Seq(Op) /\ Len(ops') = Len(ops) + 1 /\ Len(ops) \in Nat
         /\ \A j \in 1..Len(ops') : ops'[j] # o => j \in 1..Len(ops) /\ ops'[j] = ops[j]
         /\ \A j \in 1..Len(ops') : j = Len(ops) + 1 \/ (j \in 1..Len(ops) /\ ops'[j] = ops[j])
         /\ ops'[Len(ops) + 1] = o
  OBVIOUS

\* A read joins the queue.
LEMMA PushPlain ==
  ASSUME HeldInv, NEW o \in Op, o.op \notin {"enqueue", "ack"}, ops' = Append(ops, o),
         UNCHANGED <<row, sending, ackedEarly, held, settled, moot>>
  PROVE  HeldInv'
  <1>1. ops' \in Seq(Op)
        /\ \A j \in 1..Len(ops') : ops'[j] # o => j \in 1..Len(ops) /\ ops'[j] = ops[j]
    BY PushFacts DEF HeldInv, QueueOK
  <1>2. \A j \in 1..Len(ops') : ops'[j].op \in {"enqueue", "ack"}
          => j \in 1..Len(ops) /\ ops'[j] = ops[j]
    BY <1>1
  <1>3. NoAckOfHeld' /\ NoEarlyAckOfHeld'
    BY <1>2 DEF HeldInv, NoAckOfHeld, NoEarlyAckOfHeld
  <1>4. AckBehindEnqueue'
    BY <1>2 DEF HeldInv, AckBehindEnqueue
  <1>5. OneEnqueue'
    BY <1>2 DEF HeldInv, OneEnqueue
  <1>6. QED
    BY <1>1, <1>3, <1>4, <1>5 DEF HeldInv, QueueOK, RowAddressed, HeldIsStored

\* The operation at the head leaves the queue; what it did to the rest is known.
LEMMA PopFacts ==
  ASSUME ops \in Seq(Op), ops # <<>>, ops' = Tail(ops)
  PROVE  /\ ops' \in Seq(Op) /\ Len(ops') = Len(ops) - 1
         /\ \A j \in 1..Len(ops') : j + 1 \in 1..Len(ops) /\ ops'[j] = ops[j + 1]
         /\ 1 \in 1..Len(ops) /\ ops[1] = Head(ops)
  OBVIOUS

LEMMA PopQueue ==
  ASSUME HeldInv, ops # <<>>, ops' = Tail(ops),
         UNCHANGED <<sending, ackedEarly, held, settled, moot>>
  PROVE  ops' \in Seq(Op) /\ NoAckOfHeld' /\ NoEarlyAckOfHeld' /\ AckBehindEnqueue' /\ OneEnqueue'
  <1>1. /\ ops' \in Seq(Op) /\ Len(ops') = Len(ops) - 1
        /\ \A j \in 1..Len(ops') : j + 1 \in 1..Len(ops) /\ ops'[j] = ops[j + 1]
    BY PopFacts DEF HeldInv, QueueOK
  <1>2. NoAckOfHeld' /\ NoEarlyAckOfHeld'
    BY <1>1 DEF HeldInv, NoAckOfHeld, NoEarlyAckOfHeld
  <1>3. AckBehindEnqueue'
    <2> SUFFICES ASSUME NEW i \in 1..Len(ops'), NEW j \in 1..Len(ops'), i < j,
                        ops'[i].op = "enqueue", ops'[j].op = "ack",
                        ops'[i].key = ops'[j].key
                 PROVE  ops'[j].key \in settled \cup moot
      BY DEF AckBehindEnqueue
    <2>1. i + 1 < j + 1
      OBVIOUS
    <2>2. QED
      BY <1>1, <2>1 DEF HeldInv, AckBehindEnqueue
  <1>4. OneEnqueue'
    <2>1. \A j \in 1..Len(ops') : ops'[j].op = "enqueue" =>
            ops'[j].key \in Sent /\ sending'[ops'[j].key] = "storing"
      BY <1>1 DEF HeldInv, OneEnqueue
    <2>2. ASSUME NEW i \in 1..Len(ops'), NEW j \in 1..Len(ops'), ops'[i].op = "enqueue",
                 ops'[j].op = "enqueue", ops'[i].key = ops'[j].key
          PROVE  i = j
      <3>1. i + 1 = j + 1
        BY <1>1, <2>2 DEF HeldInv, OneEnqueue
      <3>2. QED
        BY <3>1
    <2>3. QED
      BY <2>1, <2>2 DEF OneEnqueue
  <1>5. QED
    BY <1>1, <1>2, <1>3, <1>4

LEMMA PopPlain ==
  ASSUME HeldInv, ops # <<>>, ops' = Tail(ops),
         UNCHANGED <<row, sending, ackedEarly, held, settled, moot>>
  PROVE  HeldInv'
  BY PopQueue DEF HeldInv, QueueOK, RowAddressed, HeldIsStored

\* A retirement joins the queue: its frame is no longer owed.
LEMMA RetireStep ==
  ASSUME HeldInv, NEW k \in Keys, ops' = Append(ops, [op |-> "ack", key |-> k]),
         ackedEarly' = ackedEarly \cup ({k} \cap unpersisted), held' = held \ {k},
         settled \cup moot \subseteq settled' \cup moot', k \in settled' \cup moot',
         UNCHANGED <<row, sending>>
  PROVE  HeldInv'
  <1> DEFINE o == [op |-> "ack", key |-> k]
  <1>1. o \in Op /\ o.op = "ack" /\ o.key = k
    BY DEF Op
  <1>2. ops' \in Seq(Op)
        /\ \A j \in 1..Len(ops') : ops'[j] # o => j \in 1..Len(ops) /\ ops'[j] = ops[j]
    BY <1>1, PushFacts DEF HeldInv, QueueOK
  <1> HIDE DEF o
  <1>3. NoAckOfHeld'
    BY <1>1, <1>2 DEF HeldInv, NoAckOfHeld
  <1>4. NoEarlyAckOfHeld'
    BY DEF HeldInv, NoEarlyAckOfHeld
  <1>5. AckBehindEnqueue'
    BY <1>1, <1>2 DEF HeldInv, AckBehindEnqueue
  <1>6. OneEnqueue'
    BY <1>1, <1>2 DEF HeldInv, OneEnqueue
  <1>7. QED
    BY <1>2, <1>3, <1>4, <1>5, <1>6 DEF HeldInv, QueueOK, RowAddressed, HeldIsStored

\* An enqueue joins the queue, for a frame whose send call just came to store it.
LEMMA EnqueuePushed ==
  ASSUME HeldInv, NEW k \in Sent, sending[k] # "storing",
         ops' = Append(ops, [op |-> "enqueue", key |-> k]),
         sending' = [sending EXCEPT ![k] = "storing"],
         \A q \in settled \cup moot : q # k => q \in settled' \cup moot',
         UNCHANGED <<row, ackedEarly, held>>
  PROVE  HeldInv'
  <1> DEFINE o == [op |-> "enqueue", key |-> k]
  <1>1. o \in Op /\ o.op = "enqueue" /\ o.key = k /\ k \in Keys
    BY DEF Op, Sent
  <1>2. /\ ops' \in Seq(Op) /\ Len(ops') = Len(ops) + 1 /\ Len(ops) \in Nat
        /\ \A j \in 1..Len(ops') : ops'[j] # o => j \in 1..Len(ops) /\ ops'[j] = ops[j]
        /\ \A j \in 1..Len(ops') :
              j = Len(ops) + 1 \/ (j \in 1..Len(ops) /\ ops'[j] = ops[j])
        /\ ops'[Len(ops) + 1] = o
    BY <1>1, PushFacts DEF HeldInv, QueueOK
  <1>3. \A j \in 1..Len(ops) : ops[j].op = "enqueue" => ops[j].key # k
    BY DEF HeldInv, OneEnqueue
  <1> HIDE DEF o
  <1>4. NoAckOfHeld' /\ NoEarlyAckOfHeld'
    BY <1>1, <1>2 DEF HeldInv, NoAckOfHeld, NoEarlyAckOfHeld
  <1>5. AckBehindEnqueue'
    <2> SUFFICES ASSUME NEW i \in 1..Len(ops'), NEW j \in 1..Len(ops'), i < j,
                        ops'[i].op = "enqueue", ops'[j].op = "ack",
                        ops'[i].key = ops'[j].key
                 PROVE  ops'[j].key \in settled' \cup moot'
      BY DEF AckBehindEnqueue
    <2>1. j \in 1..Len(ops) /\ ops'[j] = ops[j]
      BY <1>1, <1>2
    <2>2. i \in 1..Len(ops) /\ ops'[i] = ops[i]
      BY <1>2, <2>1
    <2>3. QED
      BY <1>3, <2>1, <2>2 DEF HeldInv, AckBehindEnqueue
  <1>6. sending' \in [Keys -> {"idle", "head start", "storing"}] /\ sending'[k] = "storing"
        /\ \A q \in Keys : q # k => sending'[q] = sending[q]
    BY <1>1 DEF HeldInv, QueueOK
  <1>7. OneEnqueue'
    <2>1. ASSUME NEW j \in 1..Len(ops'), ops'[j].op = "enqueue"
          PROVE  ops'[j].key \in Sent /\ sending'[ops'[j].key] = "storing"
      <3>1. CASE j = Len(ops) + 1
        BY <1>1, <1>2, <1>6, <3>1
      <3>2. CASE j \in 1..Len(ops) /\ ops'[j] = ops[j]
        <4>1. ops[j].key \in Sent /\ sending[ops[j].key] = "storing" /\ ops[j].key # k
          BY <1>3, <2>1, <3>2 DEF HeldInv, OneEnqueue
        <4>2. ops[j].key \in Keys
          BY <4>1 DEF Sent
        <4>3. QED
          BY <1>6, <3>2, <4>1, <4>2
      <3>3. QED
        BY <1>2, <3>1, <3>2
    <2>2. ASSUME NEW i \in 1..Len(ops'), NEW j \in 1..Len(ops'), ops'[i].op = "enqueue",
                 ops'[j].op = "enqueue", ops'[i].key = ops'[j].key
          PROVE  i = j
      BY <1>1, <1>2, <1>3, <2>2 DEF HeldInv, OneEnqueue
    <2>3. QED
      BY <2>1, <2>2 DEF OneEnqueue
  <1>8. QED
    BY <1>2, <1>4, <1>5, <1>6, <1>7 DEF HeldInv, QueueOK, RowAddressed, HeldIsStored

\* The frame of a queued enqueue finds its row empty or its own.
LEMMA HeadAddressed ==
  ASSUME OneDest, HeldInv, NEW k, NEW j \in 1..Len(ops), ops[j].op = "enqueue", ops[j].key = k
  PROVE  /\ k \in Sent /\ row[k[2]] \in {NoPeer, k[1]} /\ k[1] \in Peers /\ k[2] \in Ids
         /\ k[1] \in Dest[k[2]] /\ k[1] # NoPeer
  <1>1. k \in Sent
    BY DEF HeldInv, OneEnqueue
  <1>2. k[1] \in Dest[k[2]] /\ k[1] \in Peers /\ k[2] \in Ids /\ k[1] # NoPeer
    BY <1>1, OutboxAssumption DEF Sent, Keys
  <1>3. row[k[2]] # NoPeer => row[k[2]] \in Dest[k[2]]
    BY <1>2 DEF HeldInv, RowAddressed
  <1>4. QED
    BY <1>1, <1>2, <1>3 DEF OneDest

\* Writing that row keeps every owed frame stored, the new one included.
LEMMA RowWritten ==
  ASSUME HeldInv, NEW k \in Keys, row[k[2]] \in {NoPeer, k[1]}, k[1] \in Dest[k[2]],
         StoreRow(k), held' \subseteq held \cup {k}
  PROVE  HeldIsStored' /\ RowAddressed' /\ row' \in [Ids -> Peers \cup {NoPeer}]
  <1>1. \A q \in Keys : q[1] \in Peers /\ q[2] \in Ids /\ q[1] # NoPeer
    BY OutboxAssumption DEF Keys
  <1>2. /\ row' \in [Ids -> Peers \cup {NoPeer}] /\ row'[k[2]] = k[1]
        /\ \A i \in Ids : i # k[2] => row'[i] = row[i]
    BY <1>1 DEF HeldInv, QueueOK, StoreRow
  <1>3. \A q \in held' : q \in Keys /\ (q = k \/ row[q[2]] = q[1])
    BY DEF HeldInv, HeldIsStored, QueueOK
  <1>4. \A q \in held' : row'[q[2]] = q[1]
    BY <1>1, <1>2, <1>3
  <1>5. QED
    BY <1>2, <1>4 DEF HeldInv, HeldIsStored, RowAddressed

\* No other enqueue of the frame at the head is queued behind it.
LEMMA OneEnqueuePopped ==
  ASSUME HeldInv, NEW k, sending' = [sending EXCEPT ![k] = "idle"],
         \A j \in 1..Len(ops') : j + 1 \in 1..Len(ops) /\ ops'[j] = ops[j + 1],
         1 \in 1..Len(ops), ops[1].op = "enqueue", ops[1].key = k
  PROVE  OneEnqueue'
  <1>1. ASSUME NEW i \in 1..Len(ops'), ops'[i].op = "enqueue"
        PROVE  ops'[i].key # k
    <2>1. i + 1 # 1
      OBVIOUS
    <2>2. QED
      BY <1>1, <2>1 DEF HeldInv, OneEnqueue
  <1>2. ASSUME NEW j \in 1..Len(ops'), ops'[j].op = "enqueue"
        PROVE  ops'[j].key \in Sent /\ sending'[ops'[j].key] = "storing"
    <2>1. /\ ops'[j].key \in Sent /\ sending[ops'[j].key] = "storing"
          /\ ops'[j].key # k
      BY <1>1, <1>2 DEF HeldInv, OneEnqueue
    <2>2. QED
      BY <2>1 DEF HeldInv, QueueOK, Sent
  <1>3. ASSUME NEW i \in 1..Len(ops'), NEW j \in 1..Len(ops'), ops'[i].op = "enqueue",
               ops'[j].op = "enqueue", ops'[i].key = ops'[j].key
        PROVE  i = j
    <2>1. i + 1 = j + 1
      BY <1>3 DEF HeldInv, OneEnqueue
    <2>2. QED
      BY <2>1
  <1>4. QED
    BY <1>2, <1>3 DEF OneEnqueue

\* The enqueue at the head takes effect: its frame has a row, and no other enqueue is queued.
LEMMA EnqueuePopped ==
  ASSUME OneDest, HeldInv, ops # <<>>, NEW k \in Keys, Head(ops) = [op |-> "enqueue", key |-> k],
         StoreRow(k), sending' = [sending EXCEPT ![k] = "idle"],
         held' = held \/ (held' = held \cup {k} /\ k \notin settled \cup moot),
         \A q \in held' : q \notin ackedEarly',
         ops' = Tail(ops), UNCHANGED <<settled, moot>>
  PROVE  HeldInv'
  <1>1. /\ ops' \in Seq(Op) /\ Len(ops') = Len(ops) - 1
        /\ \A j \in 1..Len(ops') : j + 1 \in 1..Len(ops) /\ ops'[j] = ops[j + 1]
        /\ 1 \in 1..Len(ops) /\ ops[1].op = "enqueue" /\ ops[1].key = k
    <2>1. /\ ops' \in Seq(Op) /\ Len(ops') = Len(ops) - 1
          /\ \A j \in 1..Len(ops') : j + 1 \in 1..Len(ops) /\ ops'[j] = ops[j + 1]
          /\ 1 \in 1..Len(ops) /\ ops[1] = Head(ops)
      BY PopFacts DEF HeldInv, QueueOK
    <2>2. QED
      BY <2>1
  <1>2. k \in Sent /\ row[k[2]] \in {NoPeer, k[1]} /\ k[1] \in Dest[k[2]]
    BY <1>1, HeadAddressed
  <1>3. HeldIsStored' /\ RowAddressed' /\ row' \in [Ids -> Peers \cup {NoPeer}]
    BY <1>2, RowWritten
  <1>4. held' \subseteq Keys
    BY DEF HeldInv, QueueOK
  <1>5. NoAckOfHeld'
    <2> SUFFICES ASSUME NEW j \in 1..Len(ops'), ops'[j].op = "ack" PROVE ops'[j].key \notin held'
      BY DEF NoAckOfHeld
    <2>1. ops'[j].key \notin held
      BY <1>1 DEF HeldInv, NoAckOfHeld
    <2>2. CASE ops'[j].key = k
      <3>1. 1 < j + 1 /\ j + 1 \in 1..Len(ops) /\ ops[j + 1].op = "ack" /\ ops[j + 1].key = k
        BY <1>1, <2>2
      <3>2. k \in settled \cup moot
        BY <1>1, <3>1 DEF HeldInv, AckBehindEnqueue
      <3>3. QED
        BY <2>1, <2>2, <3>2
    <2>3. QED
      BY <2>1, <2>2
  <1>6. AckBehindEnqueue'
    <2> SUFFICES ASSUME NEW i \in 1..Len(ops'), NEW j \in 1..Len(ops'), i < j,
                        ops'[i].op = "enqueue", ops'[j].op = "ack",
                        ops'[i].key = ops'[j].key
                 PROVE  ops'[j].key \in settled \cup moot
      BY DEF AckBehindEnqueue
    <2>1. i + 1 < j + 1
      OBVIOUS
    <2>2. QED
      BY <1>1, <2>1 DEF HeldInv, AckBehindEnqueue
  <1>7. OneEnqueue'
    BY <1>1, OneEnqueuePopped
  <1>8. sending' \in [Keys -> {"idle", "head start", "storing"}]
    BY DEF HeldInv, QueueOK
  <1>9. QED
    BY <1>1, <1>3, <1>4, <1>5, <1>6, <1>7, <1>8 DEF HeldInv, QueueOK, NoEarlyAckOfHeld

-----------------------------------------------------------------------------
\* The enqueue at the head finds its ACK remembered: its row is written, and its retirement
\* is queued behind what is queued already.
LEMMA EnqueueRetired ==
  ASSUME OneDest, HeldInv, ops # <<>>, NEW k \in Keys,
         Head(ops) = [op |-> "enqueue", key |-> k], k \in ackedEarly,
         StoreRow(k), sending' = [sending EXCEPT ![k] = "idle"],
         ackedEarly' = ackedEarly \ {k},
         ops' = Append(Tail(ops), [op |-> "ack", key |-> k]),
         UNCHANGED <<held, settled, moot>>
  PROVE  HeldInv'
  <1> DEFINE o == [op |-> "ack", key |-> k]
             n == Len(ops)
  <1>1. o \in Op /\ o.op = "ack" /\ o.key = k
    BY DEF Op
  <1>2. ops \in Seq(Op) /\ n \in Nat /\ n # 0 /\ ops[1] = Head(ops)
    <2>1. ops \in Seq(Op)
      BY DEF HeldInv, QueueOK
    <2>2. QED
      BY <2>1
  <1>3. /\ ops' \in Seq(Op) /\ Len(ops') = n
        /\ \A j \in 1..Len(ops') :
              \/ j = n /\ ops'[j] = o
              \/ j + 1 \in 1..Len(ops) /\ ops'[j] = ops[j + 1]
    BY <1>1, <1>2
  <1>4. 1 \in 1..Len(ops) /\ ops[1].op = "enqueue" /\ ops[1].key = k /\ k \notin held
    BY <1>2 DEF HeldInv, NoEarlyAckOfHeld
  <1> HIDE DEF o, n
  <1>5. k \in Sent /\ row[k[2]] \in {NoPeer, k[1]} /\ k[1] \in Peers /\ k[2] \in Ids
        /\ k[1] \in Dest[k[2]] /\ k[1] # NoPeer
    BY <1>4, HeadAddressed
  <1>6. HeldIsStored' /\ RowAddressed' /\ row' \in [Ids -> Peers \cup {NoPeer}]
    BY <1>5, RowWritten
  <1>7. NoAckOfHeld' /\ NoEarlyAckOfHeld'
    BY <1>1, <1>3, <1>4 DEF HeldInv, NoAckOfHeld, NoEarlyAckOfHeld
  <1>8. \A i \in 1..Len(ops') : ops'[i].op = "enqueue" =>
           i + 1 \in 1..Len(ops) /\ ops'[i] = ops[i + 1] /\ ops'[i].key # k
    <2> SUFFICES ASSUME NEW i \in 1..Len(ops'), ops'[i].op = "enqueue"
                 PROVE  i + 1 \in 1..Len(ops) /\ ops'[i] = ops[i + 1] /\ ops'[i].key # k
      OBVIOUS
    <2>1. i + 1 \in 1..Len(ops) /\ ops'[i] = ops[i + 1] /\ i + 1 # 1
      BY <1>1, <1>3
    <2>2. QED
      BY <1>4, <2>1 DEF HeldInv, OneEnqueue
  <1>9. AckBehindEnqueue'
    <2> SUFFICES ASSUME NEW i \in 1..Len(ops'), NEW j \in 1..Len(ops'), i < j,
                        ops'[i].op = "enqueue", ops'[j].op = "ack",
                        ops'[i].key = ops'[j].key
                 PROVE  ops'[j].key \in settled \cup moot
      BY DEF AckBehindEnqueue
    <2>1. i + 1 \in 1..Len(ops) /\ ops'[i] = ops[i + 1] /\ ops'[j].key # k
      BY <1>8
    <2>2. j + 1 \in 1..Len(ops) /\ ops'[j] = ops[j + 1] /\ i + 1 < j + 1
      BY <1>1, <1>3, <2>1
    <2>3. QED
      BY <2>1, <2>2 DEF HeldInv, AckBehindEnqueue
  <1>10. OneEnqueue'
    <2>1. ASSUME NEW j \in 1..Len(ops'), ops'[j].op = "enqueue"
          PROVE  ops'[j].key \in Sent /\ sending'[ops'[j].key] = "storing"
      <3>1. /\ ops'[j].key # k /\ ops'[j].key \in Sent
            /\ sending[ops'[j].key] = "storing"
        BY <1>8, <2>1 DEF HeldInv, OneEnqueue
      <3>2. QED
        BY <3>1 DEF HeldInv, QueueOK, Sent
    <2>2. ASSUME NEW i \in 1..Len(ops'), NEW j \in 1..Len(ops'), ops'[i].op = "enqueue",
                 ops'[j].op = "enqueue", ops'[i].key = ops'[j].key
          PROVE  i = j
      <3>1. i + 1 = j + 1
        BY <1>8, <2>2 DEF HeldInv, OneEnqueue
      <3>2. QED
        BY <3>1
    <2>3. QED
      BY <2>1, <2>2 DEF OneEnqueue
  <1>11. sending' \in [Keys -> {"idle", "head start", "storing"}]
    BY DEF HeldInv, QueueOK
  <1>12. QED
    BY <1>3, <1>6, <1>7, <1>9, <1>10, <1>11 DEF HeldInv, QueueOK

\* The retirement at the head takes the row of a frame that is not owed.
LEMMA RowRemoved ==
  ASSUME HeldInv, NEW k \in Keys, k \notin held, RemoveRow(k), UNCHANGED held
  PROVE  HeldIsStored' /\ RowAddressed' /\ row' \in [Ids -> Peers \cup {NoPeer}]
  <1>1. \A q \in Keys : q[1] \in Peers /\ q[2] \in Ids /\ q[1] # NoPeer
               /\ (q[1] = k[1] /\ q[2] = k[2] => q = k)
    BY OutboxAssumption DEF Keys
  <1>2. /\ row' \in [Ids -> Peers \cup {NoPeer}]
        /\ \A i \in Ids : row'[i] \in {row[i], NoPeer}
        /\ \A i \in Ids : i # k[2] \/ row[i] # k[1] => row'[i] = row[i]
    BY <1>1 DEF HeldInv, QueueOK, RemoveRow
  <1>3. \A q \in held : q \in Keys /\ q # k /\ row[q[2]] = q[1]
    BY DEF HeldInv, HeldIsStored, QueueOK
  <1>4. \A q \in held : row'[q[2]] = q[1]
    BY <1>1, <1>2, <1>3
  <1>5. QED
    BY <1>2, <1>4 DEF HeldInv, HeldIsStored, RowAddressed

\* What the operation at the head is about.
LEMMA HeadKey ==
  ASSUME HeldInv, ops # <<>>, Head(ops).op \in {"enqueue", "ack"}
  PROVE  /\ 1 \in 1..Len(ops) /\ ops[1] = Head(ops) /\ Head(ops).key \in Keys
         /\ Head(ops) = [op |-> Head(ops).op, key |-> Head(ops).key]
  <1>1. ops \in Seq(Op)
    BY DEF HeldInv, QueueOK
  <1>2. 1 \in 1..Len(ops) /\ ops[1] = Head(ops) /\ Head(ops) \in Op
    BY <1>1
  <1>3. QED
    BY <1>2 DEF Op

LEMMA AckDoneStep == HeldInv /\ AckDone => HeldInv'
  <1> SUFFICES ASSUME HeldInv, AckDone PROVE HeldInv'
    OBVIOUS
  <1> DEFINE k == Head(ops).key
  <1>1. /\ ops # <<>> /\ Head(ops).op = "ack" /\ RemoveRow(k) /\ ops' = Tail(ops)
        /\ UNCHANGED <<sending, ackedEarly, held, settled, moot>>
    BY DEF AckDone, Head_, sender
  <1>2. k \in Keys /\ k \notin held
    BY <1>1, HeadKey DEF HeldInv, NoAckOfHeld
  <1>3. HeldIsStored' /\ RowAddressed' /\ row' \in [Ids -> Peers \cup {NoPeer}]
    BY <1>1, <1>2, RowRemoved
  <1>4. QED
    BY <1>1, <1>3, PopQueue DEF HeldInv, QueueOK

\* A crash: whatever was queued is gone, and the operation in flight happened or did not.
LEMMA CrashStep == OneDest /\ HeldInv /\ Crash => HeldInv'
  <1> SUFFICES ASSUME OneDest, HeldInv, Crash PROVE HeldInv'
    OBVIOUS
  <1>1. /\ ops' = <<>> /\ ackedEarly' = {} /\ held' = held
        /\ sending' = [q \in Keys |-> "idle"]
    BY DEF Crash
  <1>2. HeldIsStored' /\ RowAddressed' /\ row' \in [Ids -> Peers \cup {NoPeer}]
    <2>1. CASE UNCHANGED row
      BY <1>1, <2>1 DEF HeldInv, QueueOK, HeldIsStored, RowAddressed
    <2>2. CASE Head_("enqueue") /\ StoreRow(Head(ops).key)
      <3>1. /\ ops # <<>> /\ Head(ops).op = "enqueue" /\ 1 \in 1..Len(ops)
            /\ ops[1] = Head(ops) /\ Head(ops).key \in Keys
        BY <2>2, HeadKey DEF Head_
      <3>2. /\ row[Head(ops).key[2]] \in {NoPeer, Head(ops).key[1]}
            /\ Head(ops).key[1] \in Dest[Head(ops).key[2]]
        BY <3>1, HeadAddressed
      <3>3. QED
        BY <1>1, <2>2, <3>1, <3>2, RowWritten
    <2>3. CASE Head_("ack") /\ RemoveRow(Head(ops).key)
      <3>1. Head(ops).key \in Keys /\ Head(ops).key \notin held
        BY <2>3, HeadKey DEF Head_, HeldInv, NoAckOfHeld
      <3>2. QED
        BY <1>1, <2>3, <3>1, RowRemoved
    <2>4. QED
      BY <2>1, <2>2, <2>3 DEF Crash
  <1>3. Len(ops') = 0 /\ ops' \in Seq(Op)
    BY <1>1
  <1>4. NoAckOfHeld' /\ AckBehindEnqueue' /\ OneEnqueue'
    BY <1>3 DEF NoAckOfHeld, AckBehindEnqueue, OneEnqueue
  <1>5. QED
    BY <1>1, <1>2, <1>3, <1>4 DEF HeldInv, QueueOK, NoEarlyAckOfHeld

LEMMA EnqueueDoneStep == OneDest /\ HeldInv /\ EnqueueDone => HeldInv'
  <1> SUFFICES ASSUME OneDest, HeldInv, EnqueueDone PROVE HeldInv'
    OBVIOUS
  <1> DEFINE k == Head(ops).key
  <1>1. /\ ops # <<>> /\ Head(ops).op = "enqueue" /\ StoreRow(k) /\ ops' = Tail(ops)
        /\ sending' = [sending EXCEPT ![k] = "idle"] /\ k \notin ackedEarly
        /\ held' = IF k \in settled \cup moot THEN held ELSE held \cup {k}
        /\ UNCHANGED <<ackedEarly, settled, moot>>
    BY DEF EnqueueDone, Head_
  <1>2. k \in Keys /\ Head(ops) = [op |-> "enqueue", key |-> k]
    BY <1>1, HeadKey
  <1> HIDE DEF k
  <1>3. held' = held \/ (held' = held \cup {k} /\ k \notin settled \cup moot)
    BY <1>1
  <1>4. \A q \in held' : q \notin ackedEarly'
    BY <1>1 DEF HeldInv, NoEarlyAckOfHeld
  <1>5. QED
    BY <1>1, <1>2, <1>3, <1>4, EnqueuePopped

LEMMA EnqueueDoneAckedStep == OneDest /\ HeldInv /\ EnqueueDoneAcked => HeldInv'
  <1> SUFFICES ASSUME OneDest, HeldInv, EnqueueDoneAcked PROVE HeldInv'
    OBVIOUS
  <1> DEFINE k == Head(ops).key
  <1>1. /\ ops # <<>> /\ Head(ops).op = "enqueue" /\ StoreRow(k) /\ k \in ackedEarly
        /\ sending' = [sending EXCEPT ![k] = "idle"] /\ ackedEarly' = ackedEarly \ {k}
        /\ ops' = Append(Tail(ops), [op |-> "ack", key |-> k])
        /\ UNCHANGED <<held, settled, moot>>
    BY DEF EnqueueDoneAcked, Head_, history
  <1>2. k \in Keys /\ Head(ops) = [op |-> "enqueue", key |-> k]
    BY <1>1, HeadKey
  <1> HIDE DEF k
  <1>3. QED
    BY <1>1, <1>2, EnqueueRetired

\* A refused enqueue leaves the queue, and its send call is over.
LEMMA EnqueueFailsStep == HeldInv /\ EnqueueFails => HeldInv'
  <1> SUFFICES ASSUME HeldInv, EnqueueFails PROVE HeldInv'
    OBVIOUS
  <1> DEFINE k == Head(ops).key
  <1>1. /\ ops # <<>> /\ Head(ops).op = "enqueue" /\ ops' = Tail(ops)
        /\ sending' = [sending EXCEPT ![k] = "idle"]
        /\ UNCHANGED <<row, ackedEarly, held, settled, moot>>
    BY DEF EnqueueFails, Head_, history
  <1>2. 1 \in 1..Len(ops) /\ ops[1].op = "enqueue" /\ ops[1].key = k
    BY <1>1, HeadKey
  <1> HIDE DEF k
  <1>3. /\ ops' \in Seq(Op) /\ Len(ops') = Len(ops) - 1
        /\ \A j \in 1..Len(ops') : j + 1 \in 1..Len(ops) /\ ops'[j] = ops[j + 1]
    BY <1>1, PopFacts DEF HeldInv, QueueOK
  <1>4. NoAckOfHeld' /\ NoEarlyAckOfHeld'
    BY <1>1, <1>3 DEF HeldInv, NoAckOfHeld, NoEarlyAckOfHeld
  <1>5. AckBehindEnqueue'
    <2> SUFFICES ASSUME NEW i \in 1..Len(ops'), NEW j \in 1..Len(ops'), i < j,
                        ops'[i].op = "enqueue", ops'[j].op = "ack",
                        ops'[i].key = ops'[j].key
                 PROVE  ops'[j].key \in settled' \cup moot'
      BY DEF AckBehindEnqueue
    <2>1. i + 1 < j + 1
      OBVIOUS
    <2>2. QED
      BY <1>1, <1>3, <2>1 DEF HeldInv, AckBehindEnqueue
  <1>6. OneEnqueue'
    BY <1>1, <1>2, <1>3, OneEnqueuePopped
  <1>7. sending' \in [Keys -> {"idle", "head start", "storing"}]
    BY <1>1 DEF HeldInv, QueueOK
  <1>8. QED
    BY <1>1, <1>3, <1>4, <1>5, <1>6, <1>7 DEF HeldInv, QueueOK, RowAddressed, HeldIsStored

-----------------------------------------------------------------------------
\* Sending: storage is asked at once, or the early live leg goes first.
LEMMA StartSendStep == HeldInv /\ (\E k \in Sent : StartSend(k)) => HeldInv'
  <1> SUFFICES ASSUME HeldInv, NEW k \in Sent, StartSend(k) PROVE HeldInv'
    OBVIOUS
  <1>1. /\ sending[k] = "idle" /\ k \in Keys
        /\ settled' = settled \ {k} /\ moot' = moot \ {k}
        /\ UNCHANGED <<row, ackedEarly, held>>
    BY DEF StartSend, Sent
  <1>2. CASE k[2] \in Early
    <2>1. sending' = [sending EXCEPT ![k] = "head start"] /\ UNCHANGED ops
      BY <1>2 DEF StartSend
    <2>2. sending' \in [Keys -> {"idle", "head start", "storing"}]
      BY <2>1 DEF HeldInv, QueueOK
    <2>3. \A j \in 1..Len(ops) : ops[j].op = "enqueue" => ops[j].key # k
      BY <1>1 DEF HeldInv, OneEnqueue
    <2>4. ASSUME NEW j \in 1..Len(ops), ops[j].op = "enqueue"
          PROVE  ops[j].key \in Sent /\ sending'[ops[j].key] = "storing"
      <3>1. /\ ops[j].key \in Sent /\ sending[ops[j].key] = "storing"
            /\ ops[j].key # k
        BY <2>3, <2>4 DEF HeldInv, OneEnqueue
      <3>2. QED
        BY <2>1, <3>1 DEF HeldInv, QueueOK, Sent
    <2>5. OneEnqueue'
      BY <2>1, <2>4 DEF HeldInv, OneEnqueue
    <2>6. AckBehindEnqueue'
      <3> SUFFICES ASSUME NEW i \in 1..Len(ops), NEW j \in 1..Len(ops), i < j,
                          ops[i].op = "enqueue", ops[j].op = "ack", ops[i].key = ops[j].key
                   PROVE  ops[j].key \in settled' \cup moot'
        BY <2>1 DEF AckBehindEnqueue
      <3>1. ops[j].key \in settled \cup moot
        BY DEF HeldInv, AckBehindEnqueue
      <3>2. ops[j].key # k
        BY <2>3
      <3>3. QED
        BY <1>1, <3>1, <3>2
    <2>7. QED
      BY <1>1, <2>1, <2>2, <2>5, <2>6 DEF HeldInv, QueueOK, NoAckOfHeld,
         NoEarlyAckOfHeld, RowAddressed, HeldIsStored
  <1>3. CASE k[2] \notin Early
    <2>1. /\ sending' = [sending EXCEPT ![k] = "storing"]
          /\ ops' = Append(ops, [op |-> "enqueue", key |-> k])
      BY <1>3 DEF StartSend
    <2>2. QED
      BY <1>1, <2>1, EnqueuePushed
  <1>4. QED
    BY <1>2, <1>3

LEMMA HeadStartOverStep == HeldInv /\ (\E k \in Sent : HeadStartOver(k)) => HeldInv'
  <1> SUFFICES ASSUME HeldInv, NEW k \in Sent, HeadStartOver(k) PROVE HeldInv'
    OBVIOUS
  <1>1. /\ sending[k] # "storing" /\ sending' = [sending EXCEPT ![k] = "storing"]
        /\ ops' = Append(ops, [op |-> "enqueue", key |-> k])
        /\ UNCHANGED <<row, ackedEarly, held, settled, moot>>
    BY DEF HeadStartOver, history
  <1>2. QED
    BY <1>1, EnqueuePushed

\* The three ways to retire a frame: its ACK, a drop, and a pass that finds it moot.
LEMMA RetirementStep ==
  HeldInv /\ (\E k \in Keys : AckArrives(k) \/ DropOne(k) \/ PlanRetire(k)) => HeldInv'
  <1> SUFFICES ASSUME HeldInv, NEW k \in Keys, AckArrives(k) \/ DropOne(k) \/ PlanRetire(k)
               PROVE  HeldInv'
    OBVIOUS
  <1>1. /\ ops' = Append(ops, [op |-> "ack", key |-> k])
        /\ ackedEarly' = ackedEarly \cup ({k} \cap unpersisted)
        /\ held' = held \ {k} /\ UNCHANGED <<row, sending>>
    BY DEF AckArrives, DropOne, PlanRetire, Retire, NoteEarlyAck
  <1>2. settled \cup moot \subseteq settled' \cup moot' /\ k \in settled' \cup moot'
    BY DEF AckArrives, DropOne, PlanRetire
  <1>3. QED
    BY <1>1, <1>2, RetireStep

\* Reading the store, and refusing a retirement.
LEMMA ReadStep ==
  ASSUME HeldInv,
         \/ AckFails \/ StartSeed \/ StartFlush \/ \E p \in Peers : StartDrop(p)
         \/ \E ok \in BOOLEAN : DropRead(ok) \/ SeedDone(ok) \/ FlushRead(ok)
  PROVE  HeldInv'
  <1>1. CASE AckFails \/ \E ok \in BOOLEAN : DropRead(ok) \/ SeedDone(ok) \/ FlushRead(ok)
    <2>1. /\ ops # <<>> /\ ops' = Tail(ops)
          /\ UNCHANGED <<row, sending, ackedEarly, held, settled, moot>>
      BY <1>1 DEF AckFails, DropRead, SeedDone, FlushRead, Head_, sender, history
    <2>2. QED
      BY <2>1, PopPlain
  <1>2. CASE StartSeed \/ StartFlush \/ \E p \in Peers : StartDrop(p)
    <2>1. PICK o \in Op : /\ o.op \notin {"enqueue", "ack"} /\ ops' = Append(ops, o)
                          /\ UNCHANGED <<row, sending, ackedEarly, held, settled, moot>>
      <3>1. \A p \in Peers : [op |-> "drop", peer |-> p] \in Op
        BY DEF Op
      <3>2. [op |-> "seed"] \in Op /\ [op |-> "read"] \in Op
        BY DEF Op
      <3>3. QED
        BY <1>2, <3>1, <3>2 DEF StartSeed, StartFlush, StartDrop, sender, history
    <2>2. QED
      BY <2>1, PushPlain
  <1>3. QED
    BY <1>1, <1>2

\* Every other step leaves alone what the invariant is about.
LEMMA OtherStep ==
  ASSUME HeldInv,
         \/ StartDriving \/ EndPass \/ UNCHANGED vars
         \/ \E k \in Keys : \/ PlanSkip(k) \/ PlanRedrive(k) \/ Due(k)
                           \/ Deliver(k) \/ LoseWire(k) \/ LoseAck(k)
         \/ \E i \in Ids : FastFire(i)
         \/ \E f \in firing : FastSettle(f)
         \/ \E p \in Peers : \/ DriveSkip(p) \/ Drive(p)
                            \/ Settle(p) \/ Deadline(p) \/ ContactChanges(p)
  PROVE  HeldInv'
  <1>1. UNCHANGED Relevant
    BY DEF StartDriving, EndPass, PlanSkip, PlanRedrive, Due, Deliver, LoseWire, LoseAck,
       FastFire, FastSettle, DriveSkip, Drive, Settle, Deadline, ContactChanges,
       Relevant, vars, store, sender, history
  <1>2. QED
    BY <1>1, SameHeld

LEMMA StepHeld == OneDest /\ HeldInv /\ [Next]_vars => HeldInv'
  <1> SUFFICES ASSUME OneDest, HeldInv, [Next]_vars PROVE HeldInv'
    OBVIOUS
  <1>1. CASE StorageStep
    BY <1>1, EnqueueDoneStep, EnqueueDoneAckedStep, AckDoneStep, ReadStep DEF StorageStep
  <1>2. CASE StorageFault
    BY <1>2, EnqueueFailsStep, ReadStep DEF StorageFault
  <1>3. CASE PassStep
    BY <1>3, OtherStep, RetirementStep DEF PassStep
  <1>4. CASE StartFlush \/ StartSeed
    BY <1>4, ReadStep
  <1>5. CASE Crash
    BY <1>5, CrashStep
  <1>6. ASSUME NEW k \in Sent, StartSend(k) \/ HeadStartOver(k) \/ Deliver(k)
                               \/ LoseWire(k) \/ LoseAck(k)
        PROVE  HeldInv'
    BY <1>6, StartSendStep, HeadStartOverStep, OtherStep DEF Sent
  <1>7. ASSUME NEW k \in Keys, AckArrives(k) \/ DropOne(k) \/ Due(k)
        PROVE  HeldInv'
    BY <1>7, RetirementStep, OtherStep
  <1>8. ASSUME NEW p \in Peers, Settle(p) \/ Deadline(p) \/ ContactChanges(p) \/ StartDrop(p)
        PROVE  HeldInv'
    BY <1>8, ReadStep, OtherStep
  <1>9. CASE UNCHANGED vars
    BY <1>9, OtherStep
  <1>10. ASSUME NEW i \in Ids, FastFire(i) PROVE HeldInv'
    BY <1>10, OtherStep
  <1>11. ASSUME NEW f \in firing, FastSettle(f) PROVE HeldInv'
    BY <1>11, OtherStep
  <1>12. QED
    BY <1>1, <1>2, <1>3, <1>4, <1>5, <1>6, <1>7, <1>8, <1>9, <1>10, <1>11 DEF Next

\* With ids that name their destination, a frame that send reported as queued stays stored
\* until its recipient acknowledges it or it becomes moot (send, _retirePersisted,
\* enqueueOutboxFrame, ackOutboxFrame), whatever fails, crashes or is acknowledged by others.
THEOREM HeldStored == OneDest => (Spec => []HeldIsStored)
  <1>1. Init => HeldInv
    BY InitHeld
  <1>2. (OneDest /\ HeldInv) /\ [Next]_vars => (OneDest /\ HeldInv)'
    BY StepHeld DEF OneDest
  <1>3. HeldInv => HeldIsStored
    BY DEF HeldInv
  <1>4. QED
    BY <1>1, <1>2, <1>3, PTL DEF Spec

-----------------------------------------------------------------------------
(* An acknowledged frame leaves no row.                                    *)

\* The frames that are not owed: acknowledged, or judged moot, since they were last sent.
Retired == settled \cup moot

AcksAt(j, k) == ops[j].op = "ack" /\ ops[j].key = k

\* The retirement of an acknowledged frame comes after the enqueue that is still queued, or
\* that enqueue will find the ACK remembered.
AckFollows ==
    \A k \in Retired : \A i \in 1..Len(ops) :
        ops[i].op = "enqueue" /\ ops[i].key = k =>
            k \in ackedEarly \/ \E j \in 1..Len(ops) : i < j /\ AcksAt(j, k)

\* A row that such a frame still has is about to be removed.
RowLeaves ==
    \A k \in Retired \ stuck :
        row[k[2]] = k[1] => \E j \in 1..Len(ops) : AcksAt(j, k)

\* During the head start of a frame its ACK is remembered.
HeadStarted ==
    \A k \in Keys : sending[k] = "head start" =>
        k \in unpersisted /\ (k \in Retired => k \in ackedEarly)

SendOK ==
    /\ row \in [Ids -> Peers \cup {NoPeer}] /\ ops \in Seq(Op) /\ Retired \subseteq Keys
    /\ sending \in [Keys -> {"idle", "head start", "storing"}]

SettleInv == SendOK /\ OneEnqueue /\ AckFollows /\ RowLeaves /\ HeadStarted

LEMMA InitSettle == Init => SettleInv
  <1> SUFFICES ASSUME Init PROVE SettleInv
    OBVIOUS
  <1>1. SendOK
    BY DEF Retired, Init, SendOK
  <1>2. QED
    BY <1>1 DEF Retired, Init, SettleInv, OneEnqueue, AckFollows, RowLeaves, HeadStarted

SettleVars == <<row, ops, sending, unpersisted, ackedEarly, Retired, stuck>>

LEMMA SameSettle == SettleInv /\ UNCHANGED SettleVars => SettleInv'
  <1> SUFFICES ASSUME SettleInv, UNCHANGED SettleVars PROVE SettleInv'
    OBVIOUS
  <1>1. SendOK' /\ OneEnqueue' /\ HeadStarted'
    BY DEF SettleVars, SettleInv, SendOK, OneEnqueue, HeadStarted
  <1>2. AckFollows'
    BY DEF SettleVars, SettleInv, AckFollows, AcksAt
  <1>3. RowLeaves'
    BY DEF SettleVars, SettleInv, RowLeaves, AcksAt
  <1>4. QED
    BY <1>1, <1>2, <1>3 DEF SettleInv

\* An operation joins the queue behind the others.
LEMMA PushPlaces ==
  ASSUME ops \in Seq(Op), NEW o \in Op, ops' = Append(ops, o)
  PROVE  /\ ops' \in Seq(Op) /\ Len(ops') = Len(ops) + 1 /\ Len(ops) \in Nat
         /\ \A j \in 1..Len(ops) : j \in 1..Len(ops') /\ ops'[j] = ops[j] /\ j < Len(ops')
         /\ Len(ops') \in 1..Len(ops') /\ ops'[Len(ops')] = o
         /\ \A j \in 1..Len(ops') : j = Len(ops') \/ j \in 1..Len(ops)
  OBVIOUS

LEMMA PushedSettle ==
  ASSUME SettleInv, NEW o \in Op, o.op # "enqueue", ops' = Append(ops, o),
         Retired' \subseteq Retired \cup (IF o.op = "ack" THEN {o.key} ELSE {}),
         Retired' \subseteq Keys,
         ackedEarly \subseteq ackedEarly',
         \A k \in Retired' \ Retired : k \in unpersisted => k \in ackedEarly',
         UNCHANGED <<row, sending, unpersisted, stuck>>
  PROVE  SettleInv'
  <1>1. /\ ops' \in Seq(Op) /\ Len(ops') = Len(ops) + 1 /\ Len(ops) \in Nat
        /\ \A j \in 1..Len(ops) : j \in 1..Len(ops') /\ ops'[j] = ops[j] /\ j < Len(ops')
        /\ Len(ops') \in 1..Len(ops') /\ ops'[Len(ops')] = o
        /\ \A j \in 1..Len(ops') : j = Len(ops') \/ j \in 1..Len(ops)
    BY PushPlaces DEF SettleInv, SendOK
  <1>2. \A j \in 1..Len(ops') : ops'[j].op = "enqueue" => j \in 1..Len(ops)
    BY <1>1
  <1>3. OneEnqueue'
    BY <1>1, <1>2 DEF SettleInv, OneEnqueue
  <1>4. \A k \in Retired' \ Retired : o.op = "ack" /\ o.key = k
    OBVIOUS
  <1>5. AckFollows'
    <2> SUFFICES ASSUME NEW k \in Retired', NEW i \in 1..Len(ops'), ops'[i].op = "enqueue",
                        ops'[i].key = k, k \notin ackedEarly'
                 PROVE  \E j \in 1..Len(ops') : i < j /\ ops'[j].op = "ack" /\ ops'[j].key = k
      BY DEF AckFollows, AcksAt
    <2>1. i \in 1..Len(ops) /\ ops'[i] = ops[i] /\ i < Len(ops')
      BY <1>1, <1>2
    <2>2. CASE k \in Retired
      <3>1. PICK j \in 1..Len(ops) : i < j /\ ops[j].op = "ack" /\ ops[j].key = k
        BY <2>1, <2>2 DEF SettleInv, AckFollows, AcksAt
      <3>2. QED
        BY <1>1, <3>1
    <2>3. CASE k \notin Retired
      BY <1>1, <1>4, <2>1, <2>3
    <2>4. QED
      BY <2>2, <2>3
  <1>6. RowLeaves'
    <2> SUFFICES ASSUME NEW k \in Retired' \ stuck, row[k[2]] = k[1]
                 PROVE  \E j \in 1..Len(ops') : ops'[j].op = "ack" /\ ops'[j].key = k
      BY DEF RowLeaves, AcksAt
    <2>1. CASE k \in Retired
      <3>1. PICK j \in 1..Len(ops) : ops[j].op = "ack" /\ ops[j].key = k
        BY <2>1 DEF SettleInv, RowLeaves, AcksAt
      <3>2. QED
        BY <1>1, <3>1
    <2>2. CASE k \notin Retired
      BY <1>1, <1>4, <2>2
    <2>3. QED
      BY <2>1, <2>2
  <1>7. HeadStarted'
    BY DEF SettleInv, HeadStarted
  <1>8. QED
    BY <1>1, <1>3, <1>5, <1>6, <1>7 DEF SettleInv, SendOK

LEMMA EnqueuePushedSettle ==
  ASSUME SettleInv, NEW k \in Sent, sending[k] # "storing",
         ops' = Append(ops, [op |-> "enqueue", key |-> k]),
         sending' = [sending EXCEPT ![k] = "storing"],
         Retired' \subseteq Retired, k \in Retired' => k \in ackedEarly,
         UNCHANGED <<row, ackedEarly, unpersisted, stuck>>
  PROVE  SettleInv'
  <1> DEFINE o == [op |-> "enqueue", key |-> k]
  <1>1. o \in Op /\ o.op = "enqueue" /\ o.key = k /\ k \in Keys
    BY DEF Op, Sent
  <1> HIDE DEF o
  <1>2. /\ ops' \in Seq(Op) /\ Len(ops') = Len(ops) + 1 /\ Len(ops) \in Nat
        /\ \A j \in 1..Len(ops) : j \in 1..Len(ops') /\ ops'[j] = ops[j] /\ j < Len(ops')
        /\ Len(ops') \in 1..Len(ops') /\ ops'[Len(ops')] = o
        /\ \A j \in 1..Len(ops') : j = Len(ops') \/ j \in 1..Len(ops)
    BY <1>1, PushPlaces DEF SettleInv, SendOK, o
  <1>3. \A j \in 1..Len(ops) : ops[j].op = "enqueue" => ops[j].key # k
    BY DEF SettleInv, OneEnqueue
  <1>4. sending' \in [Keys -> {"idle", "head start", "storing"}] /\ sending'[k] = "storing"
        /\ \A q \in Keys : q # k => sending'[q] = sending[q]
    BY <1>1 DEF SettleInv, SendOK
  <1>5. OneEnqueue'
    <2>1. ASSUME NEW j \in 1..Len(ops'), ops'[j].op = "enqueue"
          PROVE  ops'[j].key \in Sent /\ sending'[ops'[j].key] = "storing"
      <3>1. CASE j = Len(ops')
        BY <1>1, <1>2, <1>4, <3>1
      <3>2. CASE j \in 1..Len(ops)
        <4>1. ops[j].key \in Sent /\ sending[ops[j].key] = "storing" /\ ops'[j] = ops[j]
          BY <1>2, <2>1, <3>2 DEF SettleInv, OneEnqueue
        <4>2. ops[j].key # k /\ ops[j].key \in Keys
          BY <1>3, <2>1, <3>2, <4>1 DEF Sent
        <4>3. QED
          BY <1>4, <4>1, <4>2
      <3>3. QED
        BY <1>2, <3>1, <3>2
    <2>2. ASSUME NEW i \in 1..Len(ops'), NEW j \in 1..Len(ops'), ops'[i].op = "enqueue",
                 ops'[j].op = "enqueue", ops'[i].key = ops'[j].key
          PROVE  i = j
      BY <1>1, <1>2, <1>3, <2>2 DEF SettleInv, OneEnqueue
    <2>3. QED
      BY <2>1, <2>2 DEF OneEnqueue
  <1>6. AckFollows'
    <2> SUFFICES ASSUME NEW q \in Retired', NEW i \in 1..Len(ops'), ops'[i].op = "enqueue",
                        ops'[i].key = q, q \notin ackedEarly
                 PROVE  \E j \in 1..Len(ops') : i < j /\ ops'[j].op = "ack" /\ ops'[j].key = q
      BY DEF AckFollows, AcksAt
    <2>1. i \in 1..Len(ops) /\ ops'[i] = ops[i]
      BY <1>1, <1>2
    <2>2. PICK j \in 1..Len(ops) : i < j /\ ops[j].op = "ack" /\ ops[j].key = q
      BY <2>1 DEF SettleInv, AckFollows, AcksAt
    <2>3. QED
      BY <1>2, <2>2
  <1>7. RowLeaves'
    <2> SUFFICES ASSUME NEW q \in Retired' \ stuck, row[q[2]] = q[1]
                 PROVE  \E j \in 1..Len(ops') : ops'[j].op = "ack" /\ ops'[j].key = q
      BY DEF RowLeaves, AcksAt
    <2>1. PICK j \in 1..Len(ops) : ops[j].op = "ack" /\ ops[j].key = q
      BY DEF SettleInv, RowLeaves, AcksAt
    <2>2. QED
      BY <1>2, <2>1
  <1>8. HeadStarted'
    BY <1>4 DEF SettleInv, HeadStarted
  <1>9. QED
    BY <1>2, <1>4, <1>5, <1>6, <1>7, <1>8 DEF SettleInv, SendOK

\* The operation at the head leaves the queue.
LEMMA PopPlaces ==
  ASSUME ops \in Seq(Op), ops # <<>>, ops' = Tail(ops)
  PROVE  /\ ops' \in Seq(Op)
         /\ \A j \in 1..Len(ops') : j + 1 \in 1..Len(ops) /\ ops'[j] = ops[j + 1]
         /\ \A j \in 1..Len(ops) : j # 1 =>
               j - 1 \in 1..Len(ops') /\ ops'[j - 1] = ops[j] /\ j \in Nat
         /\ 1 \in 1..Len(ops) /\ ops[1] = Head(ops)
  OBVIOUS

\* What the rest of the queue keeps, and the rows that are left to be removed.
LEMMA PoppedSettle ==
  ASSUME SettleInv, ops # <<>>, ops' = Tail(ops),
         \/ UNCHANGED sending
         \/ /\ Head(ops).op = "enqueue"
            /\ sending' = [sending EXCEPT ![Head(ops).key] = "idle"],
         UNCHANGED <<ackedEarly, Retired>>
  PROVE  ops' \in Seq(Op) /\ OneEnqueue' /\ AckFollows'
  <1>1. /\ ops' \in Seq(Op)
        /\ \A j \in 1..Len(ops') : j + 1 \in 1..Len(ops) /\ ops'[j] = ops[j + 1]
        /\ \A j \in 1..Len(ops) : j # 1 =>
              j - 1 \in 1..Len(ops') /\ ops'[j - 1] = ops[j] /\ j \in Nat
        /\ 1 \in 1..Len(ops) /\ ops[1] = Head(ops)
    BY PopPlaces DEF SettleInv, SendOK
  <1>2. OneEnqueue'
    <2>1. ASSUME NEW j \in 1..Len(ops'), ops'[j].op = "enqueue"
          PROVE  ops'[j].key \in Sent /\ sending'[ops'[j].key] = "storing"
      <3>1. ops'[j].key \in Sent /\ sending[ops'[j].key] = "storing" /\ ops'[j].key \in Keys
        BY <1>1, <2>1 DEF SettleInv, OneEnqueue, Sent
      <3>2. j + 1 # 1
        OBVIOUS
      <3>3. Head(ops).op = "enqueue" => ops'[j].key # Head(ops).key
        BY <1>1, <2>1, <3>2 DEF SettleInv, OneEnqueue
      <3>4. QED
        BY <3>1, <3>3 DEF SettleInv, SendOK
    <2>2. ASSUME NEW i \in 1..Len(ops'), NEW j \in 1..Len(ops'), ops'[i].op = "enqueue",
                 ops'[j].op = "enqueue", ops'[i].key = ops'[j].key
          PROVE  i = j
      <3>1. i + 1 = j + 1
        BY <1>1, <2>2 DEF SettleInv, OneEnqueue
      <3>2. QED
        BY <3>1
    <2>3. QED
      BY <2>1, <2>2 DEF OneEnqueue
  <1>3. AckFollows'
    <2> SUFFICES ASSUME NEW q \in Retired, NEW i \in 1..Len(ops'), ops'[i].op = "enqueue",
                        ops'[i].key = q, q \notin ackedEarly
                 PROVE  \E j \in 1..Len(ops') : i < j /\ ops'[j].op = "ack" /\ ops'[j].key = q
      BY DEF AckFollows, AcksAt
    <2>1. PICK j \in 1..Len(ops) : i + 1 < j /\ ops[j].op = "ack" /\ ops[j].key = q
      BY <1>1 DEF SettleInv, AckFollows, AcksAt
    <2>2. j # 1 /\ i < j - 1
      BY <2>1
    <2>3. QED
      BY <1>1, <2>1, <2>2
  <1>4. QED
    BY <1>1, <1>2, <1>3

LEMMA HeadSettle ==
  ASSUME SettleInv, EnqueueDone \/ EnqueueFails \/ AckDone \/ AckFails
  PROVE  SettleInv'
  <1> DEFINE k == Head(ops).key
  <1>1. /\ ops # <<>> /\ ops' = Tail(ops) /\ Head(ops).op \in {"enqueue", "ack"}
        /\ UNCHANGED <<ackedEarly, Retired>>
    BY DEF Retired, EnqueueDone, EnqueueFails, AckDone, AckFails, Head_, sender, history
  <1>2. /\ ops \in Seq(Op)
        /\ \A j \in 1..Len(ops) : j # 1 =>
              j - 1 \in 1..Len(ops') /\ ops'[j - 1] = ops[j] /\ j \in Nat
        /\ 1 \in 1..Len(ops) /\ ops[1] = Head(ops) /\ Head(ops) \in Op
    <2>1. ops \in Seq(Op)
      BY DEF SettleInv, SendOK
    <2>2. Head(ops) \in Op
      BY <1>1, <2>1
    <2>3. QED
      BY <1>1, <2>1, <2>2, PopPlaces
  <1>3. k \in Keys
    BY <1>1, <1>2 DEF Op
  <1>4. \A q \in Keys : q[1] \in Peers /\ q[2] \in Ids /\ q[1] # NoPeer
               /\ (q[1] = k[1] /\ q[2] = k[2] => q = k)
    BY <1>3, OutboxAssumption DEF Keys
  <1>5. /\ row \in [Ids -> Peers \cup {NoPeer}] /\ Retired \subseteq Keys
        /\ sending \in [Keys -> {"idle", "head start", "storing"}]
    BY DEF SettleInv, SendOK
  <1> HIDE DEF k
  <1>6. ops' \in Seq(Op) /\ OneEnqueue' /\ AckFollows'
    BY <1>1, PoppedSettle
       DEF EnqueueDone, EnqueueFails, AckDone, AckFails, Head_, sender, k
  <1>7. ASSUME NEW q \in Retired \ stuck, row[q[2]] = q[1],
               q # k \/ Head(ops).op = "enqueue"
        PROVE  \E j \in 1..Len(ops') : ops'[j].op = "ack" /\ ops'[j].key = q
    <2>1. PICK j \in 1..Len(ops) : ops[j].op = "ack" /\ ops[j].key = q
      BY <1>7 DEF SettleInv, RowLeaves, AcksAt
    <2>2. j # 1
      BY <1>2, <1>7, <2>1 DEF k
    <2>3. QED
      BY <1>2, <2>1, <2>2
  <1>8. CASE EnqueueDone
    <2>1. /\ StoreRow(k) /\ sending' = [sending EXCEPT ![k] = "idle"] /\ k \notin ackedEarly
          /\ unpersisted' = unpersisted \ {k} /\ Head(ops).op = "enqueue" /\ UNCHANGED stuck
      BY <1>8 DEF EnqueueDone, Head_, k
    <2>2. row' \in [Ids -> Peers \cup {NoPeer}]
          /\ \A q \in Keys : row'[q[2]] = q[1] => row[q[2]] = q[1] \/ q = k
      BY <1>3, <1>4, <1>5, <2>1 DEF StoreRow
    <2>3. RowLeaves'
      <3> SUFFICES ASSUME NEW q \in Retired \ stuck, row'[q[2]] = q[1]
                   PROVE  \E j \in 1..Len(ops') : ops'[j].op = "ack" /\ ops'[j].key = q
        BY <1>1, <2>1 DEF RowLeaves, AcksAt
      <3>1. CASE q = k
        <4>1. ops[1].op = "enqueue" /\ ops[1].key = k /\ k \in Retired
          BY <1>2, <2>1, <3>1 DEF k
        <4>2. PICK j \in 1..Len(ops) : 1 < j /\ ops[j].op = "ack" /\ ops[j].key = k
          BY <1>2, <2>1, <4>1 DEF SettleInv, AckFollows, AcksAt
        <4>3. QED
          BY <1>2, <3>1, <4>2
      <3>2. CASE q # k
        BY <1>5, <1>7, <2>1, <2>2, <3>2
      <3>3. QED
        BY <3>1, <3>2
    <2>4. sending' \in [Keys -> {"idle", "head start", "storing"}] /\ HeadStarted'
      BY <1>1, <1>5, <2>1 DEF SettleInv, HeadStarted
    <2>5. QED
      BY <1>1, <1>5, <1>6, <2>2, <2>3, <2>4 DEF SettleInv, SendOK
  <1>9. CASE EnqueueFails
    <2>1. /\ sending' = [sending EXCEPT ![k] = "idle"] /\ Head(ops).op = "enqueue"
          /\ UNCHANGED <<row, unpersisted, stuck>>
      BY <1>9 DEF EnqueueFails, Head_, history, k
    <2>2. RowLeaves'
      BY <1>1, <1>7, <2>1 DEF RowLeaves, AcksAt
    <2>3. sending' \in [Keys -> {"idle", "head start", "storing"}] /\ HeadStarted'
      BY <1>1, <1>5, <2>1 DEF SettleInv, HeadStarted
    <2>4. QED
      BY <1>1, <1>5, <1>6, <2>1, <2>2, <2>3 DEF SettleInv, SendOK
  <1>10. CASE AckDone
    <2>1. RemoveRow(k) /\ stuck' = stuck \ {k} /\ UNCHANGED <<sending, unpersisted>>
      BY <1>10 DEF AckDone, sender, k
    <2>2. row' \in [Ids -> Peers \cup {NoPeer}]
          /\ \A q \in Keys : row'[q[2]] = q[1] => row[q[2]] = q[1] /\ q # k
      BY <1>3, <1>4, <1>5, <2>1 DEF RemoveRow
    <2>3. RowLeaves'
      BY <1>1, <1>5, <1>7, <2>1, <2>2 DEF RowLeaves, AcksAt
    <2>4. HeadStarted'
      BY <1>1, <2>1 DEF SettleInv, HeadStarted
    <2>5. QED
      BY <1>1, <1>5, <1>6, <2>1, <2>2, <2>3, <2>4 DEF SettleInv, SendOK
  <1>11. CASE AckFails
    <2>1. stuck' = stuck \cup {k} /\ UNCHANGED <<row, sending, unpersisted>>
      BY <1>11 DEF AckFails, sender, k
    <2>2. RowLeaves'
      BY <1>1, <1>7, <2>1 DEF RowLeaves, AcksAt
    <2>3. HeadStarted'
      BY <1>1, <2>1 DEF SettleInv, HeadStarted
    <2>4. QED
      BY <1>1, <1>5, <1>6, <2>1, <2>2, <2>3 DEF SettleInv, SendOK
  <1>12. QED
    BY <1>8, <1>9, <1>10, <1>11

\* The operation at the head leaves the queue and another one joins it.
LEMMA PopPushPlaces ==
  ASSUME ops \in Seq(Op), ops # <<>>, NEW o \in Op, ops' = Append(Tail(ops), o)
  PROVE  /\ ops' \in Seq(Op) /\ Len(ops') = Len(ops) /\ ops'[Len(ops)] = o
         /\ \A j \in 1..Len(ops) : j # 1 =>
               j - 1 \in 1..Len(ops') /\ ops'[j - 1] = ops[j] /\ j - 1 < Len(ops)
         /\ \A j \in 1..Len(ops') : j = Len(ops)
               \/ (j + 1 \in 1..Len(ops) /\ ops'[j] = ops[j + 1] /\ j < Len(ops))
  <1> DEFINE t == Tail(ops)
  <1>1. /\ t \in Seq(Op) /\ Len(t) = Len(ops) - 1 /\ Len(ops) \in Nat /\ Len(ops) >= 1
        /\ \A j \in 1..Len(ops) - 1 : t[j] = ops[j + 1]
    OBVIOUS
  <1>2. ops' = Append(t, o)
    OBVIOUS
  <1> HIDE DEF t
  <1>3. /\ ops' \in Seq(Op) /\ Len(ops') = Len(t) + 1 /\ ops'[Len(t) + 1] = o
        /\ \A j \in 1..Len(t) : ops'[j] = t[j]
    BY <1>1, <1>2
  <1>4. QED
    BY <1>1, <1>3

\* The enqueue at the head finds its ACK remembered, and the retirement it queues is the last.
LEMMA AckedSettle ==
  ASSUME SettleInv, EnqueueDoneAcked
  PROVE  SettleInv'
  <1> DEFINE k == Head(ops).key
             o == [op |-> "ack", key |-> k]
  <1>1. /\ ops # <<>> /\ Head(ops).op = "enqueue" /\ StoreRow(k)
        /\ ops' = Append(Tail(ops), o)
        /\ sending' = [sending EXCEPT ![k] = "idle"]
        /\ unpersisted' = unpersisted \ {k} /\ ackedEarly' = ackedEarly \ {k}
        /\ UNCHANGED <<Retired, stuck>>
    BY DEF Retired, EnqueueDoneAcked, Head_, history
  <1>2. /\ row \in [Ids -> Peers \cup {NoPeer}] /\ Retired \subseteq Keys /\ ops \in Seq(Op)
        /\ sending \in [Keys -> {"idle", "head start", "storing"}]
    BY DEF SettleInv, SendOK
  <1>3. Head(ops) \in Op /\ ops[1] = Head(ops) /\ 1 \in 1..Len(ops) /\ Len(ops) \in Nat
    <2>1. ops \in Seq(Op) /\ ops # <<>>
      BY <1>1, <1>2
    <2>2. QED
      BY ONLY <2>1
  <1>4. k \in Keys /\ o \in Op /\ o.op = "ack" /\ o.key = k
    BY <1>1, <1>3 DEF Op
  <1>5. /\ ops' \in Seq(Op) /\ Len(ops') = Len(ops) /\ ops'[Len(ops)] = o
        /\ \A j \in 1..Len(ops) : j # 1 =>
              j - 1 \in 1..Len(ops') /\ ops'[j - 1] = ops[j] /\ j - 1 < Len(ops)
        /\ \A j \in 1..Len(ops') : j = Len(ops)
              \/ (j + 1 \in 1..Len(ops) /\ ops'[j] = ops[j + 1] /\ j < Len(ops))
    BY <1>1, <1>2, <1>4, PopPushPlaces
  <1>6. \A q \in Keys : q[1] \in Peers /\ q[2] \in Ids /\ q[1] # NoPeer
               /\ (q[1] = k[1] /\ q[2] = k[2] => q = k)
    BY <1>4, OutboxAssumption DEF Keys
  <1>7. ops[1].op = "enqueue" /\ ops[1].key = k
    BY <1>1, <1>3
  <1> HIDE DEF o, k
  <1>8. ASSUME NEW i \in 1..Len(ops'), ops'[i].op = "enqueue"
        PROVE  /\ i + 1 \in 1..Len(ops) /\ ops'[i] = ops[i + 1] /\ i < Len(ops)
               /\ ops'[i].key # k
    <2>1. i + 1 \in 1..Len(ops) /\ ops'[i] = ops[i + 1] /\ i < Len(ops) /\ i + 1 # 1
      BY <1>4, <1>5, <1>8
    <2>2. QED
      BY <1>3, <1>7, <1>8, <2>1 DEF SettleInv, OneEnqueue
  <1>9. OneEnqueue'
    <2>1. ASSUME NEW j \in 1..Len(ops'), ops'[j].op = "enqueue"
          PROVE  ops'[j].key \in Sent /\ sending'[ops'[j].key] = "storing"
      <3>1. /\ ops'[j].key # k /\ ops'[j].key \in Sent /\ ops'[j].key \in Keys
            /\ sending[ops'[j].key] = "storing"
        BY <1>8, <2>1 DEF SettleInv, OneEnqueue, Sent
      <3>2. QED
        BY <1>1, <1>2, <3>1
    <2>2. ASSUME NEW i \in 1..Len(ops'), NEW j \in 1..Len(ops'), ops'[i].op = "enqueue",
                 ops'[j].op = "enqueue", ops'[i].key = ops'[j].key
          PROVE  i = j
      <3>1. i + 1 = j + 1
        BY <1>8, <2>2 DEF SettleInv, OneEnqueue
      <3>2. QED
        BY <3>1
    <2>3. QED
      BY <2>1, <2>2 DEF OneEnqueue
  <1>10. AckFollows'
    <2> SUFFICES ASSUME NEW q \in Retired', NEW i \in 1..Len(ops'), ops'[i].op = "enqueue",
                        ops'[i].key = q, q \notin ackedEarly'
                 PROVE  \E j \in 1..Len(ops') : i < j /\ ops'[j].op = "ack" /\ ops'[j].key = q
      BY DEF AckFollows, AcksAt
    <2>0. q \in Retired
      BY <1>1
    <2>1. q # k /\ i + 1 \in 1..Len(ops) /\ ops'[i] = ops[i + 1]
      BY <1>8
    <2>2. PICK j \in 1..Len(ops) : i + 1 < j /\ ops[j].op = "ack" /\ ops[j].key = q
      BY <1>1, <2>0, <2>1 DEF SettleInv, AckFollows, AcksAt
    <2>3. j # 1 /\ i < j - 1
      BY <2>2
    <2>4. QED
      BY <1>5, <2>2, <2>3
  <1>11. RowLeaves'
    <2> SUFFICES ASSUME NEW q \in Retired \ stuck, row'[q[2]] = q[1]
                 PROVE  \E j \in 1..Len(ops') : ops'[j].op = "ack" /\ ops'[j].key = q
      BY <1>1 DEF RowLeaves, AcksAt
    <2>1. CASE q = k
      <3>1. Len(ops) \in 1..Len(ops')
        BY <1>3, <1>5
      <3>2. QED
        BY <1>4, <1>5, <2>1, <3>1
    <2>2. CASE q # k
      <3>1. row[q[2]] = q[1]
        BY <1>1, <1>2, <1>4, <1>6, <2>2 DEF StoreRow
      <3>2. PICK j \in 1..Len(ops) : ops[j].op = "ack" /\ ops[j].key = q
        BY <3>1 DEF SettleInv, RowLeaves, AcksAt
      <3>3. j # 1
        BY <1>7, <3>2
      <3>4. QED
        BY <1>5, <3>2, <3>3
    <2>3. QED
      BY <2>1, <2>2
  <1>12. sending' \in [Keys -> {"idle", "head start", "storing"}] /\ HeadStarted'
    <2>1. sending' \in [Keys -> {"idle", "head start", "storing"}] /\ sending'[k] = "idle"
          /\ \A q \in Keys : q # k => sending'[q] = sending[q]
      BY <1>1, <1>2, <1>4
    <2>2. QED
      BY <1>1, <2>1 DEF SettleInv, HeadStarted
  <1>13. row' \in [Ids -> Peers \cup {NoPeer}]
    BY <1>1, <1>2, <1>4, <1>6 DEF StoreRow
  <1>14. QED
    BY <1>1, <1>2, <1>5, <1>9, <1>10, <1>11, <1>12, <1>13 DEF SettleInv, SendOK

LEMMA StartSettle ==
  ASSUME SettleInv, NEW k \in Sent, StartSend(k) \/ HeadStartOver(k)
  PROVE  SettleInv'
  <1>1. k \in Keys /\ sending \in [Keys -> {"idle", "head start", "storing"}]
        /\ Retired \subseteq Keys
    BY DEF Sent, SettleInv, SendOK
  <1>2. CASE HeadStartOver(k)
    <2>1. k \in Retired => k \in ackedEarly
      BY <1>1, <1>2 DEF HeadStartOver, SettleInv, HeadStarted
    <2>2. QED
      BY <1>2, <2>1, EnqueuePushedSettle DEF Retired, HeadStartOver, history
  <1>3. CASE StartSend(k) /\ k[2] \notin Early
    <2>1. /\ sending[k] # "storing" /\ sending' = [sending EXCEPT ![k] = "storing"]
          /\ ops' = Append(ops, [op |-> "enqueue", key |-> k])
          /\ Retired' = Retired \ {k} /\ UNCHANGED <<row, ackedEarly, unpersisted, stuck>>
      BY <1>3 DEF Retired, StartSend
    <2>2. QED
      BY <2>1, EnqueuePushedSettle
  <1>4. CASE StartSend(k) /\ k[2] \in Early
    <2>1. /\ sending[k] = "idle" /\ sending' = [sending EXCEPT ![k] = "head start"]
          /\ unpersisted' = unpersisted \cup {k} /\ Retired' = Retired \ {k}
          /\ UNCHANGED <<row, ops, ackedEarly, stuck>>
      BY <1>4 DEF Retired, StartSend
    <2>2. sending' \in [Keys -> {"idle", "head start", "storing"}]
          /\ \A q \in Keys : q # k => sending'[q] = sending[q]
      BY <1>1, <2>1
    <2>3. OneEnqueue'
      <3>1. \A j \in 1..Len(ops) : ops[j].op = "enqueue" =>
              ops[j].key \in Sent /\ ops[j].key \in Keys /\ ops[j].key # k
              /\ sending[ops[j].key] = "storing"
        BY <2>1 DEF SettleInv, OneEnqueue, Sent
      <3>2. \A j \in 1..Len(ops) : ops[j].op = "enqueue" =>
              ops[j].key \in Sent /\ sending'[ops[j].key] = "storing"
        BY <2>2, <3>1
      <3>3. QED
        BY <2>1, <3>2 DEF SettleInv, OneEnqueue
    <2>4. AckFollows'
      <3> SUFFICES ASSUME NEW q \in Retired', NEW i \in 1..Len(ops'), ops'[i].op = "enqueue",
                          ops'[i].key = q, q \notin ackedEarly'
                   PROVE  \E j \in 1..Len(ops') : i < j /\ ops'[j].op = "ack" /\ ops'[j].key = q
        BY DEF AckFollows, AcksAt
      <3>1. q \in Retired /\ ops' = ops /\ ackedEarly' = ackedEarly
        BY <2>1
      <3>2. PICK j \in 1..Len(ops) : i < j /\ ops[j].op = "ack" /\ ops[j].key = q
        BY <3>1 DEF SettleInv, AckFollows, AcksAt
      <3>3. QED
        BY <3>1, <3>2
    <2>5. RowLeaves'
      BY <2>1 DEF SettleInv, RowLeaves, AcksAt
    <2>6. HeadStarted'
      BY <2>1, <2>2 DEF SettleInv, HeadStarted
    <2>7. QED
      BY <1>1, <2>1, <2>2, <2>3, <2>4, <2>5, <2>6 DEF SettleInv, SendOK
  <1>5. QED
    BY <1>2, <1>3, <1>4

LEMMA RetiredSettle ==
  ASSUME SettleInv, NEW k \in Keys, AckArrives(k) \/ DropOne(k) \/ PlanRetire(k)
  PROVE  SettleInv'
  <1> DEFINE o == [op |-> "ack", key |-> k]
  <1>1. o \in Op /\ o.op = "ack" /\ o.key = k
    BY DEF Op
  <1>2. /\ ops' = Append(ops, o) /\ ackedEarly' = ackedEarly \cup ({k} \cap unpersisted)
        /\ UNCHANGED <<row, sending, unpersisted, stuck>>
    BY DEF AckArrives, DropOne, PlanRetire, Retire, NoteEarlyAck
  <1>3. Retired' = Retired \/ Retired' = Retired \cup {k}
    BY DEF Retired, AckArrives, DropOne, PlanRetire
  <1> HIDE DEF o
  <1>4. Retired' \subseteq Keys
    BY <1>3 DEF SettleInv, SendOK
  <1>5. /\ Retired' \subseteq Retired \cup (IF o.op = "ack" THEN {o.key} ELSE {})
        /\ ackedEarly \subseteq ackedEarly'
        /\ \A q \in Retired' \ Retired : q \in unpersisted => q \in ackedEarly'
    BY <1>1, <1>2, <1>3
  <1>6. QED
    BY <1>1, <1>2, <1>4, <1>5, PushedSettle

LEMMA ReadSettle ==
  ASSUME SettleInv,
         \/ StartSeed \/ StartFlush \/ \E p \in Peers : StartDrop(p)
         \/ \E ok \in BOOLEAN : DropRead(ok) \/ SeedDone(ok) \/ FlushRead(ok)
  PROVE  SettleInv'
  <1>1. Retired \subseteq Keys /\ ops \in Seq(Op)
    BY DEF SettleInv, SendOK
  <1>2. CASE \E ok \in BOOLEAN : DropRead(ok) \/ SeedDone(ok) \/ FlushRead(ok)
    <2>1. /\ ops # <<>> /\ ops' = Tail(ops) /\ Head(ops).op \notin {"enqueue", "ack"}
          /\ UNCHANGED <<row, sending, unpersisted, ackedEarly, Retired, stuck>>
      BY <1>2 DEF Retired, DropRead, SeedDone, FlushRead, Head_, sender, history
    <2>2. ops' \in Seq(Op) /\ OneEnqueue' /\ AckFollows'
      BY <2>1, PoppedSettle
    <2>3. RowLeaves'
      <3> SUFFICES ASSUME NEW q \in Retired \ stuck, row[q[2]] = q[1]
                   PROVE  \E j \in 1..Len(ops') : ops'[j].op = "ack" /\ ops'[j].key = q
        BY <2>1 DEF RowLeaves, AcksAt
      <3>1. PICK j \in 1..Len(ops) : ops[j].op = "ack" /\ ops[j].key = q
        BY DEF SettleInv, RowLeaves, AcksAt
      <3>2. j # 1
        BY <1>1, <2>1, <3>1
      <3>3. QED
        BY <1>1, <2>1, <3>1, <3>2, PopPlaces
    <2>4. HeadStarted'
      BY <2>1 DEF SettleInv, HeadStarted
    <2>5. QED
      BY <2>1, <2>2, <2>3, <2>4 DEF SettleInv, SendOK
  <1>3. CASE StartSeed \/ StartFlush \/ \E p \in Peers : StartDrop(p)
    <2>1. PICK o \in Op : /\ o.op \notin {"enqueue", "ack"} /\ ops' = Append(ops, o)
                          /\ UNCHANGED <<row, sending, unpersisted, ackedEarly, Retired, stuck>>
      <3>1. \A p \in Peers : [op |-> "drop", peer |-> p] \in Op
        BY DEF Op
      <3>2. [op |-> "seed"] \in Op /\ [op |-> "read"] \in Op
        BY DEF Op
      <3>3. QED
        BY <1>3, <3>1, <3>2 DEF Retired, StartSeed, StartFlush, StartDrop, sender, history
    <2>2. QED
      BY <1>1, <2>1, PushedSettle
  <1>4. QED
    BY <1>2, <1>3

LEMMA CrashSettle == SettleInv /\ Crash => SettleInv'
  <1> SUFFICES ASSUME SettleInv, Crash PROVE SettleInv'
    OBVIOUS
  <1>1. /\ ops' = <<>> /\ Retired' = {} /\ sending' = [q \in Keys |-> "idle"]
    BY DEF Retired, Crash
  <1>2. row' \in [Ids -> Peers \cup {NoPeer}]
    <2>1. row \in [Ids -> Peers \cup {NoPeer}] /\ ops \in Seq(Op)
      BY DEF SettleInv, SendOK
    <2>2. ASSUME ops # <<>>, Head(ops).op \in {"enqueue", "ack"} PROVE Head(ops).key \in Keys
      <3>1. Head(ops) \in Op
        BY <2>1, <2>2
      <3>2. QED
        BY <2>2, <3>1 DEF Op
    <2>3. QED
      BY <2>1, <2>2 DEF Crash, Head_, StoreRow, RemoveRow, Keys
  <1>3. SendOK'
    BY <1>1, <1>2 DEF SendOK
  <1>4. Len(ops') = 0
    BY <1>1
  <1>5. OneEnqueue' /\ AckFollows' /\ RowLeaves' /\ HeadStarted'
    BY <1>1, <1>4 DEF OneEnqueue, AckFollows, RowLeaves, HeadStarted
  <1>6. QED
    BY <1>3, <1>5 DEF SettleInv

LEMMA StepSettle == SettleInv /\ [Next]_vars => SettleInv'
  <1> SUFFICES ASSUME SettleInv, [Next]_vars PROVE SettleInv'
    OBVIOUS
  <1>1. CASE EnqueueDone \/ EnqueueFails \/ AckDone \/ AckFails \/ EnqueueDoneAcked
    BY <1>1, HeadSettle, AckedSettle
  <1>2. CASE \/ StartSeed \/ StartFlush \/ \E p \in Peers : StartDrop(p)
             \/ \E ok \in BOOLEAN : DropRead(ok) \/ SeedDone(ok) \/ FlushRead(ok)
    BY <1>2, ReadSettle
  <1>3. ASSUME NEW k \in Keys, AckArrives(k) \/ DropOne(k) \/ PlanRetire(k) PROVE SettleInv'
    BY <1>3, RetiredSettle
  <1>4. ASSUME NEW k \in Sent, StartSend(k) \/ HeadStartOver(k) PROVE SettleInv'
    BY <1>4, StartSettle
  <1>5. CASE UNCHANGED SettleVars
    BY <1>5, SameSettle
  <1>6. \/ EnqueueDone \/ EnqueueDoneAcked \/ EnqueueFails \/ AckDone \/ AckFails \/ Crash
        \/ \E ok \in BOOLEAN : DropRead(ok) \/ SeedDone(ok) \/ FlushRead(ok)
        \/ \E k \in Keys : AckArrives(k) \/ DropOne(k) \/ PlanRetire(k)
        \/ \E k \in Sent : StartSend(k) \/ HeadStartOver(k)
        \/ StartSeed \/ StartFlush \/ \E p \in Peers : StartDrop(p)
        \/ UNCHANGED SettleVars
    BY DEF Retired, Next, StorageStep, StorageFault, PassStep, vars, StartDriving, EndPass,
       PlanSkip, PlanRedrive, DriveSkip, Drive, Settle, Deliver, LoseWire, LoseAck, Due, FastFire,
       FastSettle, Deadline, ContactChanges, SettleVars, store, sender, history
  <1>7. QED
    BY <1>1, <1>2, <1>3, <1>4, <1>5, <1>6, CrashSettle

\* An acknowledged frame leaves no row behind once its send call is over and storage is done
\* with it, even when the ACK overtakes the row of its early live leg; unless storage refused to
\* retire it (_sendingUnpersisted, _ackedWhileUnpersisted, _retirePersisted).
THEOREM SettledGone == Spec => []SettledLeavesNoRow
  <1>1. SettleInv => SettledLeavesNoRow
    <2> SUFFICES ASSUME SettleInv, NEW k \in settled \ stuck,
                        \A j \in DOMAIN ops : ops[j].op \in {"enqueue", "ack"} => ops[j].key # k
                 PROVE  row[k[2]] # k[1]
      BY DEF SettledLeavesNoRow
    <2>1. ops \in Seq(Op)
      BY DEF SettleInv, SendOK
    <2>2. DOMAIN ops = 1..Len(ops)
      BY <2>1
    <2>3. \A j \in 1..Len(ops) : ~AcksAt(j, k)
      BY <2>2 DEF AcksAt
    <2>4. QED
      BY <2>3 DEF SettleInv, RowLeaves, Retired
  <1>2. QED
    BY <1>1, InitSettle, StepSettle, PTL DEF Spec
-----------------------------------------------------------------------------
(* A pass never sends a frame that is not owed any more.                   *)

\* At most one read of a pass is queued, and only while the pass awaits it.
OneRead ==
    /\ \A i \in 1..Len(ops) : ops[i].op = "read" => pass = "reading"
    /\ \A i, j \in 1..Len(ops) : ops[i].op = "read" /\ ops[j].op = "read" => i = j

\* A pass that has not read its rows, or was called off, has captured none.
EmptySnapshot == pass \in {"idle", "reading"} \/ calledOff => candidates = {}

\* The rows whose retirement is behind the read will not be captured.
ReadSkips ==
    \A i, j \in 1..Len(ops) : i < j /\ ops[i].op = "read" /\ ops[j].op = "ack"
                              => calledOff \/ ops[j].key \in changed

\* Nothing is captured that is being retired, or that was.
AckUncaptured == \A j \in 1..Len(ops) : ops[j].op = "ack" => ops[j].key \notin candidates
RetiredUncaptured == \A k \in Retired \ stuck : k \notin candidates

SnapInv == OneRead /\ EmptySnapshot /\ ReadSkips /\ AckUncaptured /\ RetiredUncaptured

LegsOK == legs \in [Peers -> Nat]

RedriveInv == SettleInv /\ SnapInv /\ LegsOK

\* What invalidating a frame does to the snapshot of the pass.
LEMMA Invalidated ==
  ASSUME SnapInv, NEW k, Invalidate(k), pass' = pass
  PROVE  /\ candidates' \subseteq candidates /\ k \notin candidates'
         /\ calledOff => calledOff'
         /\ calledOff' \/ changed \subseteq changed'
         /\ pass = "reading" => calledOff' \/ k \in changed'
         /\ EmptySnapshot'
  <1>1. EmptySnapshot
    BY DEF SnapInv
  <1>2. CASE pass = "idle" \/ calledOff
    BY <1>1, <1>2 DEF Invalidate, EmptySnapshot, snapshot
  <1>3. CASE /\ ~(pass = "idle" \/ calledOff)
             /\ pass = "reading" /\ k \notin changed /\ Cardinality(changed) >= MaxChanged
    <2>1. calledOff' = TRUE /\ changed' = {} /\ candidates' = {}
      BY <1>3 DEF Invalidate
    <2>2. QED
      BY <2>1 DEF EmptySnapshot
  <1>4. CASE /\ ~(pass = "idle" \/ calledOff)
             /\ ~(pass = "reading" /\ k \notin changed /\ Cardinality(changed) >= MaxChanged)
    <2>1. /\ candidates' = candidates \ {k} /\ UNCHANGED calledOff
          /\ changed' = IF pass = "reading" THEN changed \cup {k} ELSE changed
      BY <1>4 DEF Invalidate
    <2>2. QED
      BY <1>1, <2>1 DEF EmptySnapshot
  <1>5. QED
    BY <1>2, <1>3, <1>4

\* The queue moved on by d places, and o, which is no read, may have joined it.
MovedOn(d, o) ==
    /\ o.op # "read" /\ Len(ops') \in Nat
    /\ \A j \in 1..Len(ops') :
          \/ j + d \in 1..Len(ops) /\ ops'[j] = ops[j + d]
          \/ j = Len(ops') /\ ops'[j] = o

LEMMA SnapFrame ==
  ASSUME SnapInv, NEW d \in Nat, NEW o, MovedOn(d, o), pass' = pass, EmptySnapshot',
         candidates' \subseteq candidates, calledOff => calledOff',
         calledOff' \/ changed \subseteq changed',
         o.op = "ack" => /\ o.key \notin candidates'
                         /\ pass = "reading" => calledOff' \/ o.key \in changed',
         \A q \in Retired' \ stuck' : q \notin candidates'
  PROVE  SnapInv'
  <1>1. ASSUME NEW j \in 1..Len(ops'), ops'[j].op = "read"
        PROVE  j + d \in 1..Len(ops) /\ ops[j + d].op = "read" /\ pass = "reading"
    <2>1. j + d \in 1..Len(ops) /\ ops'[j] = ops[j + d]
      BY <1>1 DEF MovedOn
    <2>2. QED
      BY <1>1, <2>1 DEF SnapInv, OneRead
  <1>2. OneRead'
    <2>1. ASSUME NEW i \in 1..Len(ops'), NEW j \in 1..Len(ops'), ops'[i].op = "read",
                 ops'[j].op = "read"
          PROVE  i = j
      <3>1. i + d = j + d
        BY <1>1, <2>1 DEF SnapInv, OneRead
      <3>2. i \in Int /\ j \in Int
        BY DEF MovedOn
      <3>3. QED
        BY <3>1, <3>2
    <2>2. QED
      BY <1>1, <2>1 DEF OneRead
  <1>3. ReadSkips'
    <2> SUFFICES ASSUME NEW i \in 1..Len(ops'), NEW j \in 1..Len(ops'), i < j,
                        ops'[i].op = "read", ops'[j].op = "ack"
                 PROVE  calledOff' \/ ops'[j].key \in changed'
      BY DEF ReadSkips
    <2>1. i + d \in 1..Len(ops) /\ ops[i + d].op = "read" /\ pass = "reading"
      BY <1>1
    <2>2. CASE j + d \in 1..Len(ops) /\ ops'[j] = ops[j + d]
      <3>1. i + d < j + d
        BY DEF MovedOn
      <3>2. calledOff \/ ops[j + d].key \in changed
        BY <2>1, <2>2, <3>1 DEF SnapInv, ReadSkips
      <3>3. QED
        BY <2>2, <3>2
    <2>3. CASE ops'[j] = o
      BY <2>1, <2>3
    <2>4. QED
      BY <2>2, <2>3 DEF MovedOn
  <1>4. AckUncaptured'
    <2> SUFFICES ASSUME NEW j \in 1..Len(ops'), ops'[j].op = "ack"
                 PROVE  ops'[j].key \notin candidates'
      BY DEF AckUncaptured
    <2>1. CASE j + d \in 1..Len(ops) /\ ops'[j] = ops[j + d]
      BY <2>1 DEF SnapInv, AckUncaptured
    <2>2. CASE ops'[j] = o
      BY <2>2
    <2>3. QED
      BY <2>1, <2>2 DEF MovedOn
  <1>5. RetiredUncaptured'
    BY DEF RetiredUncaptured
  <1>6. QED
    BY <1>2, <1>3, <1>4, <1>5 DEF SnapInv

\* The ways in which the queue moves on.
LEMMA Stays ==
  ASSUME ops \in Seq(Op), ops' = ops
  PROVE  MovedOn(0, [op |-> "seed"])
  <1>1. Len(ops) \in Nat /\ \A j \in 1..Len(ops) : j + 0 = j
    OBVIOUS
  <1>2. QED
    BY <1>1 DEF MovedOn

LEMMA Pushes ==
  ASSUME ops \in Seq(Op), NEW o \in Op, o.op # "read", ops' = Append(ops, o)
  PROVE  MovedOn(0, o)
  <1>1. Len(ops') \in Nat /\ \A j \in 1..Len(ops') : j + 0 = j
    BY PushPlaces
  <1>2. \A j \in 1..Len(ops) : j \in 1..Len(ops') /\ ops'[j] = ops[j]
    BY PushPlaces
  <1>3. ops'[Len(ops')] = o /\ \A j \in 1..Len(ops') : j = Len(ops') \/ j \in 1..Len(ops)
    BY PushPlaces
  <1>4. QED
    BY <1>1, <1>2, <1>3 DEF MovedOn

LEMMA Pops ==
  ASSUME ops \in Seq(Op), ops # <<>>, ops' = Tail(ops)
  PROVE  MovedOn(1, [op |-> "seed"])
  <1>1. ops' \in Seq(Op) /\ \A j \in 1..Len(ops') : j + 1 \in 1..Len(ops) /\ ops'[j] = ops[j + 1]
    BY PopPlaces
  <1>2. Len(ops') \in Nat
    BY <1>1
  <1>3. QED
    BY <1>1, <1>2 DEF MovedOn

LEMMA PopsPushes ==
  ASSUME ops \in Seq(Op), ops # <<>>, NEW o \in Op, o.op # "read", ops' = Append(Tail(ops), o)
  PROVE  MovedOn(1, o)
  <1>1. /\ Len(ops') = Len(ops) /\ ops'[Len(ops)] = o
        /\ \A j \in 1..Len(ops') : j = Len(ops) \/ (j + 1 \in 1..Len(ops) /\ ops'[j] = ops[j + 1])
    BY PopPushPlaces
  <1>2. Len(ops) \in Nat
    BY ONLY ops \in Seq(Op)
  <1>3. QED
    BY <1>1, <1>2 DEF MovedOn

\* Steps that touch neither the queue nor the snapshot, or only the queue.
LEMMA QuietSnap ==
  ASSUME SettleInv, SnapInv, UNCHANGED <<ops, snapshot, pass, stuck>>, Retired' \subseteq Retired
  PROVE  SnapInv'
  <1>1. MovedOn(0, [op |-> "seed"])
    BY Stays DEF SettleInv, SendOK
  <1>2. EmptySnapshot' /\ \A q \in Retired' \ stuck' : q \notin candidates'
    BY DEF SnapInv, EmptySnapshot, RetiredUncaptured, snapshot
  <1>3. QED
    BY <1>1, <1>2, SnapFrame DEF snapshot

LEMMA PushSnap ==
  ASSUME SettleInv, SnapInv, NEW o \in Op, o.op \notin {"read", "ack"}, ops' = Append(ops, o),
         UNCHANGED <<snapshot, pass, stuck>>, Retired' \subseteq Retired
  PROVE  SnapInv'
  <1>1. MovedOn(0, o)
    BY Pushes DEF SettleInv, SendOK
  <1>2. EmptySnapshot' /\ \A q \in Retired' \ stuck' : q \notin candidates'
    BY DEF SnapInv, EmptySnapshot, RetiredUncaptured, snapshot
  <1>3. QED
    BY <1>1, <1>2, SnapFrame DEF snapshot

\* A retirement joins the queue: its frame leaves the snapshot.
LEMMA RetireSnap ==
  ASSUME SettleInv, SnapInv, NEW k \in Keys, Retire(k, ops), pass' = pass, UNCHANGED stuck,
         Retired' \subseteq Retired \cup {k}
  PROVE  SnapInv'
  <1> DEFINE o == [op |-> "ack", key |-> k]
  <1>1. Invalidate(k) /\ ops' = Append(ops, o)
    BY DEF Retire
  <1>2. o \in Op /\ o.op # "read" /\ o.key = k
    BY DEF Op
  <1> HIDE DEF o
  <1>3. MovedOn(0, o)
    BY <1>1, <1>2, Pushes DEF SettleInv, SendOK
  <1>4. /\ candidates' \subseteq candidates /\ k \notin candidates'
        /\ calledOff => calledOff'
        /\ calledOff' \/ changed \subseteq changed'
        /\ pass = "reading" => calledOff' \/ k \in changed'
        /\ EmptySnapshot'
    BY <1>1, Invalidated
  <1>5. \A q \in Retired' \ stuck' : q \notin candidates'
    BY <1>4 DEF SnapInv, RetiredUncaptured
  <1>6. QED
    BY <1>2, <1>3, <1>4, <1>5, SnapFrame

\* The operation at the head is done, and what it did to a frame invalidates it.
LEMMA PopSnap ==
  ASSUME SettleInv, SnapInv, ops # <<>>, ops' = Tail(ops), pass' = pass, Retired' = Retired,
         \/ UNCHANGED <<snapshot, stuck>>
         \/ \E k : Invalidate(k) /\ stuck \ {k} \subseteq stuck'
  PROVE  SnapInv'
  <1>1. MovedOn(1, [op |-> "seed"])
    BY Pops DEF SettleInv, SendOK
  <1>2. CASE UNCHANGED <<snapshot, stuck>>
    <2>1. EmptySnapshot' /\ \A q \in Retired' \ stuck' : q \notin candidates'
      BY <1>2 DEF SnapInv, EmptySnapshot, RetiredUncaptured, snapshot
    <2>2. QED
      BY <1>1, <1>2, <2>1, SnapFrame DEF snapshot
  <1>3. ASSUME NEW k, Invalidate(k), stuck \ {k} \subseteq stuck' PROVE SnapInv'
    <2>1. /\ candidates' \subseteq candidates /\ k \notin candidates'
          /\ calledOff => calledOff'
          /\ calledOff' \/ changed \subseteq changed'
          /\ EmptySnapshot'
      BY <1>3, Invalidated
    <2>2. \A q \in Retired' \ stuck' : q \notin candidates'
      BY <1>3, <2>1 DEF SnapInv, RetiredUncaptured
    <2>3. QED
      BY <1>1, <2>1, <2>2, SnapFrame
  <1>4. QED
    BY <1>2, <1>3

LEMMA AckedSnap ==
  ASSUME SettleInv, SnapInv, EnqueueDoneAcked
  PROVE  SnapInv'
  <1> DEFINE k == Head(ops).key
             o == [op |-> "ack", key |-> k]
  <1>1. /\ ops # <<>> /\ Head(ops).op = "enqueue" /\ Invalidate(k)
        /\ ops' = Append(Tail(ops), o) /\ UNCHANGED <<pass, stuck, Retired>>
    BY DEF EnqueueDoneAcked, Head_, passes, history, Retired
  <1>2. ops \in Seq(Op)
    BY DEF SettleInv, SendOK
  <1>3. o \in Op /\ o.op # "read" /\ o.key = k
    <2>1. Head(ops) \in Op
      BY <1>1, <1>2
    <2>2. k \in Keys
      BY <1>1, <2>1 DEF Op
    <2>3. QED
      BY <2>2 DEF Op
  <1> HIDE DEF o, k
  <1>4. MovedOn(1, o)
    BY <1>1, <1>2, <1>3, PopsPushes
  <1>5. /\ candidates' \subseteq candidates /\ k \notin candidates'
        /\ calledOff => calledOff'
        /\ calledOff' \/ changed \subseteq changed'
        /\ pass = "reading" => calledOff' \/ k \in changed'
        /\ EmptySnapshot'
    BY <1>1, Invalidated
  <1>6. \A q \in Retired' \ stuck' : q \notin candidates'
    BY <1>1, <1>5 DEF SnapInv, RetiredUncaptured
  <1>7. QED
    BY <1>1, <1>3, <1>4, <1>5, <1>6, SnapFrame

\* A pass begins with an empty snapshot and a read behind everything queued.
LEMMA StartSnap ==
  ASSUME SettleInv, SnapInv, StartFlush
  PROVE  SnapInv'
  <1> DEFINE o == [op |-> "read"]
  <1>1. /\ pass = "idle" /\ pass' = "reading" /\ candidates' = {} /\ ops' = Append(ops, o)
    BY DEF StartFlush
  <1>2. o \in Op /\ o.op = "read"
    BY DEF Op
  <1> HIDE DEF o
  <1>3. /\ Len(ops) \in Nat /\ Len(ops') = Len(ops) + 1 /\ ops'[Len(ops')] = o
        /\ \A j \in 1..Len(ops) : j \in 1..Len(ops') /\ ops'[j] = ops[j] /\ j < Len(ops')
        /\ \A j \in 1..Len(ops') : j = Len(ops') \/ j \in 1..Len(ops)
    BY <1>1, <1>2, PushPlaces DEF SettleInv, SendOK
  <1>4. \A j \in 1..Len(ops) : ops[j].op # "read"
    BY <1>1 DEF SnapInv, OneRead
  <1>5. \A j \in 1..Len(ops') : ops'[j].op = "read" => j = Len(ops')
    BY <1>3, <1>4
  <1>6. OneRead' /\ EmptySnapshot'
    BY <1>1, <1>5 DEF OneRead, EmptySnapshot
  <1>7. ReadSkips'
    <2> SUFFICES ASSUME NEW i \in 1..Len(ops'), NEW j \in 1..Len(ops'), i < j,
                        ops'[i].op = "read"
                 PROVE  FALSE
      BY DEF ReadSkips
    <2>1. i = Len(ops')
      BY <1>5
    <2>2. QED
      BY <1>3, <2>1
  <1>8. AckUncaptured' /\ RetiredUncaptured'
    BY <1>1 DEF AckUncaptured, RetiredUncaptured
  <1>9. QED
    BY <1>6, <1>7, <1>8 DEF SnapInv

\* The rows are read.  One that is retired already has its retirement behind the read.
LEMMA FlushReadSnap ==
  ASSUME SettleInv, SnapInv, NEW ok \in BOOLEAN, FlushRead(ok)
  PROVE  SnapInv'
  <1>1. /\ ops # <<>> /\ ops' = Tail(ops) /\ Head(ops).op = "read"
        /\ changed' = {} /\ UNCHANGED <<row, calledOff, stuck, Retired>>
    BY DEF FlushRead, Head_, history, Retired
  <1>2. ops \in Seq(Op) /\ Retired \subseteq Keys
    BY DEF SettleInv, SendOK
  <1>3. /\ Len(ops) \in Nat /\ 1 \in 1..Len(ops) /\ ops[1].op = "read"
        /\ \A j \in 1..Len(ops') : j + 1 \in 1..Len(ops) /\ ops'[j] = ops[j + 1]
                                   /\ j + 1 # 1 /\ 1 < j + 1
    <2>1. /\ 1 \in 1..Len(ops) /\ ops[1] = Head(ops)
          /\ \A j \in 1..Len(ops') : j + 1 \in 1..Len(ops) /\ ops'[j] = ops[j + 1]
      BY <1>1, <1>2, PopPlaces
    <2>2. Len(ops) \in Nat /\ \A j \in 1..Len(ops') : j + 1 # 1 /\ 1 < j + 1
      BY <1>2
    <2>3. QED
      BY <1>1, <2>1, <2>2
  <1>4. \A j \in 1..Len(ops') : ops'[j].op # "read"
    BY <1>3 DEF SnapInv, OneRead
  <1>5. OneRead' /\ ReadSkips'
    BY <1>4 DEF OneRead, ReadSkips
  <1>6. CASE calledOff
    <2>1. pass' = "idle" /\ candidates' = candidates /\ candidates = {}
      BY <1>6 DEF FlushRead, SnapInv, EmptySnapshot
    <2>2. QED
      BY <1>5, <2>1 DEF SnapInv, EmptySnapshot, AckUncaptured, RetiredUncaptured
  <1>7. CASE ~calledOff
    <2>1. pass' = "planning" /\ candidates' = Visible(ok) \ changed
      BY <1>7 DEF FlushRead
    <2>2. EmptySnapshot'
      BY <1>1, <1>7, <2>1 DEF EmptySnapshot
    <2>3. \A j \in 1..Len(ops) : j # 1 /\ ops[j].op = "ack" => ops[j].key \in changed
      <3>1. \A j \in 1..Len(ops) : j # 1 => 1 < j
        BY <1>3
      <3>2. QED
        BY <1>3, <1>7, <3>1 DEF SnapInv, ReadSkips
    <2>4. AckUncaptured'
      BY <1>3, <2>1, <2>3 DEF AckUncaptured
    <2>5. RetiredUncaptured'
      <3> SUFFICES ASSUME NEW q \in Retired \ stuck, q \in candidates' PROVE FALSE
        BY <1>1 DEF RetiredUncaptured
      <3>1. row[q[2]] = q[1]
        BY <2>1 DEF Visible, Stored
      <3>2. PICK j \in 1..Len(ops) : ops[j].op = "ack" /\ ops[j].key = q
        BY <3>1 DEF SettleInv, RowLeaves, AcksAt
      <3>3. q \in changed
        BY <1>3, <2>3, <3>2
      <3>4. QED
        BY <2>1, <3>3
    <2>6. QED
      BY <1>5, <2>2, <2>4, <2>5 DEF SnapInv
  <1>8. QED
    BY <1>6, <1>7

\* The steps of a pass that has its rows, and a crash.
LEMMA PassSnap ==
  ASSUME SettleInv, SnapInv, StartDriving \/ EndPass \/ Crash
  PROVE  SnapInv'
  <1>1. CASE Crash
    <2>1. Len(ops') = 0 /\ candidates' = {}
      BY <1>1 DEF Crash
    <2>2. QED
      BY <2>1 DEF SnapInv, OneRead, EmptySnapshot, ReadSkips, AckUncaptured, RetiredUncaptured
  <1>2. CASE StartDriving \/ EndPass
    <2>1. /\ pass \in {"planning", "driving"} /\ candidates' \subseteq candidates
          /\ pass' = "idle" => candidates' = {}
          /\ pass' # "reading" /\ UNCHANGED <<ops, calledOff, stuck, Retired>>
      BY <1>2 DEF StartDriving, EndPass, store, snapshot, history, Retired
    <2>2. \A j \in 1..Len(ops) : ops[j].op # "read"
      BY <2>1 DEF SnapInv, OneRead
    <2>3. OneRead' /\ ReadSkips'
      BY <2>1, <2>2 DEF OneRead, ReadSkips
    <2>4. EmptySnapshot' /\ RetiredUncaptured'
      BY <2>1 DEF SnapInv, EmptySnapshot, RetiredUncaptured
    <2>5. AckUncaptured'
      BY <2>1 DEF SnapInv, AckUncaptured
    <2>6. QED
      BY <2>3, <2>4, <2>5 DEF SnapInv
  <1>3. QED
    BY <1>1, <1>2

LEMMA StepSnap == SettleInv /\ SnapInv /\ [Next]_vars => SnapInv'
  <1> SUFFICES ASSUME SettleInv, SnapInv, [Next]_vars PROVE SnapInv'
    OBVIOUS
  <1>1. CASE EnqueueDone \/ EnqueueFails \/ AckDone \/ AckFails
    <2>1. ops # <<>> /\ ops' = Tail(ops) /\ pass' = pass /\ Retired' = Retired
      BY <1>1 DEF EnqueueDone, EnqueueFails, AckDone, AckFails, Head_, passes, history, Retired
    <2>2. CASE EnqueueDone
      <3>1. Invalidate(Head(ops).key) /\ UNCHANGED stuck
        BY <2>2 DEF EnqueueDone
      <3>2. QED
        BY <2>1, <3>1, PopSnap
    <2>3. CASE EnqueueFails
      BY <2>1, <2>3, PopSnap DEF EnqueueFails, history
    <2>4. CASE AckDone
      <3>1. Invalidate(Head(ops).key) /\ stuck' = stuck \ {Head(ops).key}
        BY <2>4 DEF AckDone
      <3>2. QED
        BY <2>1, <3>1, PopSnap
    <2>5. CASE AckFails
      <3>1. Invalidate(Head(ops).key) /\ stuck' = stuck \cup {Head(ops).key}
        BY <2>5 DEF AckFails
      <3>2. stuck \ {Head(ops).key} \subseteq stuck'
        BY <3>1
      <3>3. QED
        BY <2>1, <3>1, <3>2, PopSnap
    <2>6. QED
      BY <1>1, <2>2, <2>3, <2>4, <2>5
  <1>2. CASE EnqueueDoneAcked
    BY <1>2, AckedSnap
  <1>3. CASE \E ok \in BOOLEAN : DropRead(ok) \/ SeedDone(ok)
    <2>1. /\ ops # <<>> /\ ops' = Tail(ops) /\ pass' = pass /\ Retired' = Retired
          /\ UNCHANGED <<snapshot, stuck>>
      BY <1>3 DEF DropRead, SeedDone, Head_, passes, history, Retired
    <2>2. QED
      BY <2>1, PopSnap
  <1>4. CASE \E ok \in BOOLEAN : FlushRead(ok)
    BY <1>4, FlushReadSnap
  <1>5. ASSUME NEW k \in Keys, AckArrives(k) \/ DropOne(k) \/ PlanRetire(k) PROVE SnapInv'
    <2>1. Retire(k, ops) /\ pass' = pass /\ UNCHANGED stuck /\ Retired' \subseteq Retired \cup {k}
      BY <1>5 DEF AckArrives, DropOne, PlanRetire, passes, Retired
    <2>2. QED
      BY <2>1, RetireSnap
  <1>6. ASSUME NEW k \in Sent, StartSend(k) \/ HeadStartOver(k) PROVE SnapInv'
    <2> DEFINE o == [op |-> "enqueue", key |-> k]
    <2>1. o \in Op /\ o.op \notin {"read", "ack"}
      BY DEF Op, Sent
    <2>2. /\ UNCHANGED <<snapshot, pass, stuck>> /\ Retired' \subseteq Retired
          /\ ops' = ops \/ ops' = Append(ops, o)
      BY <1>6 DEF StartSend, HeadStartOver, passes, history, Retired
    <2> HIDE DEF o
    <2>3. QED
      BY <2>1, <2>2, QuietSnap, PushSnap
  <1>7. CASE StartFlush
    BY <1>7, StartSnap
  <1>8. CASE StartSeed \/ \E p \in Peers : StartDrop(p)
    <2>1. PICK o \in Op : /\ o.op \notin {"read", "ack"} /\ ops' = Append(ops, o)
                          /\ UNCHANGED <<snapshot, pass, stuck, Retired>>
      <3>1. \A p \in Peers : [op |-> "drop", peer |-> p] \in Op
        BY DEF Op
      <3>2. [op |-> "seed"] \in Op
        BY DEF Op
      <3>3. QED
        BY <1>8, <3>1, <3>2 DEF StartSeed, StartDrop, passes, history, Retired
    <2>2. QED
      BY <2>1, PushSnap
  <1>9. CASE StartDriving \/ EndPass \/ Crash
    BY <1>9, PassSnap
  <1>10. CASE UNCHANGED <<ops, snapshot, pass, stuck, Retired>>
    BY <1>10, QuietSnap
  <1>11. \/ EnqueueDone \/ EnqueueDoneAcked \/ EnqueueFails \/ AckDone \/ AckFails
         \/ \E ok \in BOOLEAN : DropRead(ok) \/ SeedDone(ok) \/ FlushRead(ok)
         \/ \E k \in Keys : AckArrives(k) \/ DropOne(k) \/ PlanRetire(k)
         \/ \E k \in Sent : StartSend(k) \/ HeadStartOver(k)
         \/ StartSeed \/ StartFlush \/ \E p \in Peers : StartDrop(p)
         \/ StartDriving \/ EndPass \/ Crash
         \/ UNCHANGED <<ops, snapshot, pass, stuck, Retired>>
    BY DEF Next, StorageStep, StorageFault, PassStep, vars, PlanSkip, PlanRedrive, DriveSkip,
       Drive, Settle, Deliver, LoseWire, LoseAck, Due, FastFire, FastSettle, Deadline,
       ContactChanges, store, passes, history, Retired
  <1>12. QED
    BY <1>1, <1>2, <1>3, <1>4, <1>5, <1>6, <1>7, <1>8, <1>9, <1>10, <1>11

\* Only a re-drive adds a leg.
LEMMA LegsStep ==
  ASSUME LegsOK, [Next]_vars
  PROVE  /\ LegsOK'
         /\ \A p \in Peers : legs'[p] > legs[p] => Drive(p)
  <1>1. CASE \E p \in Peers : Drive(p)
    <2>1. PICK p \in Peers : Drive(p)
      BY <1>1
    <2>2. legs' = [legs EXCEPT ![p] = @ + 1] /\ legs[p] \in Nat
      BY <2>1 DEF Drive, LegsOK
    <2>3. legs' \in [Peers -> Nat] /\ \A q \in Peers : q # p => legs'[q] = legs[q]
      BY <2>2 DEF LegsOK
    <2>4. \A q \in Peers : legs'[q] > legs[q] => q = p
      BY <2>3 DEF LegsOK
    <2>5. QED
      BY <2>1, <2>3, <2>4 DEF LegsOK
  <1>2. CASE \E p \in Peers : Settle(p)
    BY <1>2 DEF Settle, LegsOK
  <1>3. CASE Crash
    BY <1>3 DEF Crash, LegsOK
  <1>4. CASE UNCHANGED legs
    BY <1>4 DEF LegsOK
  <1>5. \/ \E p \in Peers : Drive(p) \/ Settle(p)
        \/ Crash \/ UNCHANGED legs
    BY DEF Next, StorageStep, StorageFault, PassStep, vars, EnqueueDone, EnqueueDoneAcked,
       AckDone, DropRead, SeedDone, FlushRead, EnqueueFails, AckFails, StartDriving, EndPass,
       PlanSkip, PlanRetire, PlanRedrive, DriveSkip, StartFlush, StartSeed, StartSend,
       HeadStartOver, Deliver, LoseWire, LoseAck, AckArrives, DropOne, Due, FastFire,
       FastSettle, Deadline, ContactChanges, StartDrop, live
  <1>6. QED
    BY <1>1, <1>2, <1>3, <1>4, <1>5

LEMMA InitRedrive == Init => RedriveInv
  <1> SUFFICES ASSUME Init PROVE RedriveInv
    OBVIOUS
  <1>1. Len(ops) = 0 /\ candidates = {}
    BY DEF Init
  <1>2. SnapInv
    BY <1>1 DEF SnapInv, OneRead, EmptySnapshot, ReadSkips, AckUncaptured, RetiredUncaptured
  <1>3. LegsOK
    BY DEF Init, LegsOK
  <1>4. QED
    BY <1>2, <1>3, InitSettle DEF RedriveInv

LEMMA StepRedrive == RedriveInv /\ [Next]_vars => RedriveInv'
  BY StepSettle, StepSnap, LegsStep DEF RedriveInv

\* A flush pass never sends a frame that was acknowledged or judged moot since it was last sent,
\* although it goes on with rows it has read before, and acknowledgements arrive at any await;
\* unless storage refused to retire it (_OutboxFlushSnapshot, _redriveCandidate).
THEOREM RetiredStays == Spec => NoRedriveOfRetired
  <1>1. RedriveInv /\ [Next]_vars =>
          [\A p \in Peers : legs'[p] > legs[p] =>
              <<p, Head(lane[p])>> \notin (settled \cup moot) \ stuck]_vars
    <2> SUFFICES ASSUME RedriveInv, [Next]_vars, NEW p \in Peers, legs'[p] > legs[p]
                 PROVE  <<p, Head(lane[p])>> \notin (settled \cup moot) \ stuck
      OBVIOUS
    <2>1. Drive(p)
      BY LegsStep DEF RedriveInv
    <2>2. <<p, Head(lane[p])>> \in candidates
      BY <2>1 DEF Drive
    <2>3. QED
      BY <2>2 DEF RedriveInv, SnapInv, RetiredUncaptured, Retired
  <1>2. QED
    BY <1>1, InitRedrive, StepRedrive, PTL DEF Spec, NoRedriveOfRetired
-----------------------------------------------------------------------------
(* The ACK of a call signal stops its ladder.                              *)

\* Nothing is around of the frame: no wire, no acknowledgement, no row, no retry.
Unknown(k) ==
    /\ k \notin net \cup acks \cup Strays \cup candidates \cup doomed \cup settled \cup Stored
    /\ backoff[k] = "none"
    /\ \A j \in 1..Len(ops) : ~AcksAt(j, k)

\* A call signal that is stored before it is sent, as the signals of a group call are, carries
\* a new id each time (its nonce).
SentAfresh == \A k \in Sent : StartSend(k) /\ k[2] \in Calls \ Early => Unknown(k)

\* While an early call signal is being stored, its acknowledgement is remembered.
EarlyWindow ==
    \A k \in Keys : k[2] \in Calls \cap Early /\ sending[k] # "idle" =>
        k \in unpersisted /\ (k \in settled => k \in ackedEarly)

\* Any other call signal is known to nobody yet.
OnceSent == \A k \in Keys : k[2] \in Calls \ Early /\ sending[k] # "idle" => Unknown(k)

\* A retirement queued behind the enqueue of its call signal is remembered.
AckRemembered ==
    \A i, j \in 1..Len(ops) :
        /\ i < j /\ ops[i].op = "enqueue" /\ ops[j].op = "ack" /\ ops[i].key = ops[j].key
        /\ ops[j].key[2] \in Calls
        => ops[j].key \in ackedEarly

\* A call signal that is being retired, or was, has no retry left.
AckQuiet ==
    \A j \in 1..Len(ops) :
        ops[j].op = "ack" /\ ops[j].key[2] \in Calls => backoff[ops[j].key] = "none"
Quiet == \A k \in settled \ stuck : k[2] \in Calls => backoff[k] = "none"

\* Only call signals have a ladder.
CallTimers ==
    /\ \A i \in Ids : timer[i] # NoLadder => i \in Calls
    /\ \A f \in firing : f[1] \in Calls

LadderInv == EarlyWindow /\ OnceSent /\ AckRemembered /\ AckQuiet /\ Quiet /\ CallTimers

Retires(k) == AckArrives(k) \/ DropOne(k) \/ PlanRetire(k)

\* A retirement cancels the retries of its frame and remembers it if its row is being written.
LEMMA RetiresStep ==
  ASSUME TypeOK, NEW k \in Keys, Retires(k)
  PROVE  /\ ops' = Append(ops, [op |-> "ack", key |-> k])
         /\ backoff' = [backoff EXCEPT ![k] = "none"] /\ backoff'[k] = "none"
         /\ timer' = [timer EXCEPT ![k[2]] = NoLadder] /\ UNCHANGED <<sending, unpersisted, firing>>
         /\ ackedEarly' = ackedEarly \cup ({k} \cap unpersisted)
  <1>1. Retire(k, ops) /\ UNCHANGED <<sending, unpersisted, firing>>
    BY DEF Retires, AckArrives, DropOne, PlanRetire
  <1>2. backoff' = [backoff EXCEPT ![k] = "none"]
    BY <1>1 DEF Retire, CancelRetries
  <1>3. backoff'[k] = "none"
    BY <1>2 DEF TypeOK, LadderOK
  <1>4. QED
    BY <1>1, <1>2, <1>3 DEF Retire, CancelRetries, NoteEarlyAck

\* Where a retry appears: a frame is stored, or re-driven.
LEMMA RetryRises ==
  ASSUME TypeOK, [Next]_vars, NEW k \in Keys, backoff[k] = "none", backoff'[k] # "none"
  PROVE  (EnqueueDone /\ Head(ops).key = k) \/ k \in candidates
  <1>1. StoreOK /\ LadderOK
    BY DEF TypeOK
  <1>2. CASE EnqueueDone
    <2>1. backoff' = [backoff EXCEPT ![Head(ops).key] = "wait"]
      BY <1>2 DEF EnqueueDone
    <2>2. QED
      BY <1>1, <1>2, <2>1 DEF LadderOK
  <1>3. CASE EnqueueDoneAcked
    <2>1. backoff' = [backoff EXCEPT ![Head(ops).key] = "none"]
      BY <1>3 DEF EnqueueDoneAcked
    <2>2. QED
      BY <1>1, <2>1 DEF LadderOK
  <1>4. CASE Crash
    BY <1>4 DEF Crash
  <1>5. CASE UNCHANGED ladder
    BY <1>5 DEF ladder
  <1>6. ASSUME NEW q \in Keys, Due(q) \/ (CancelRetries(q) /\ UNCHANGED firing) PROVE FALSE
    <2>1. \/ backoff[q] = "wait" /\ backoff' = [backoff EXCEPT ![q] = "due"]
          \/ backoff' = [backoff EXCEPT ![q] = "none"]
      BY <1>6 DEF Due, CancelRetries
    <2>2. QED
      BY <1>1, <2>1 DEF LadderOK
  <1>7. ASSUME NEW i \in Ids, FastFire(i) PROVE FALSE
    <2> DEFINE q == <<timer[i].peer, i>>
    <2>1. backoff' = backoff \/ (backoff[q] # "none" /\ backoff' = [backoff EXCEPT ![q] = "wait"])
      BY <1>7 DEF FastFire
    <2> HIDE DEF q
    <2>2. QED
      BY <1>1, <2>1 DEF LadderOK
  <1>8. CASE \E f \in firing : FastSettle(f)
    BY <1>8 DEF FastSettle
  <1>9. ASSUME NEW p \in Peers, Drive(p) PROVE k \in candidates
    <2> DEFINE q == <<p, Head(lane[p])>>
    <2>1. q \in candidates /\ backoff' = [backoff EXCEPT ![q] = "wait"]
      BY <1>9 DEF Drive
    <2> HIDE DEF q
    <2>2. QED
      BY <1>1, <2>1 DEF LadderOK
  <1>10. QED
    BY <1>1, <1>2, <1>3, <1>4, <1>5, <1>6, <1>7, <1>8, <1>9, LadderFrame

\* Where a retirement appears in the queue, and how the queue moves on.
NewAck(k) == Retires(k) \/ (EnqueueDoneAcked /\ k = Head(ops).key)

QueueMoves(d) ==
    \A j \in 1..Len(ops') :
        \/ j + d \in 1..Len(ops) /\ ops'[j] = ops[j + d]
        \/ /\ j = Len(ops')
           /\ ops'[j].op = "ack" => ops'[j].key \in Keys /\ NewAck(ops'[j].key)

LEMMA QueueStep ==
  ASSUME TypeOK, [Next]_vars
  PROVE  Len(ops') \in Nat /\ \E d \in {0, 1} : QueueMoves(d)
  <1>0. ops \in Seq(Op)
    BY DEF TypeOK, StoreOK
  <1>1. ASSUME NEW o \in Op, ops' = Append(ops, o), o.op = "ack" => o.key \in Keys /\ NewAck(o.key)
        PROVE  Len(ops') \in Nat /\ QueueMoves(0)
    <2>1. Len(ops') \in Nat /\ \A j \in 1..Len(ops') : j + 0 = j
      BY <1>0, <1>1, PushPlaces
    <2>2. ops'[Len(ops')] = o /\ \A j \in 1..Len(ops') : j = Len(ops') \/ j \in 1..Len(ops)
      BY <1>0, <1>1, PushPlaces
    <2>3. \A j \in 1..Len(ops) : ops'[j] = ops[j]
      BY <1>0, <1>1, PushPlaces
    <2>4. QED
      BY <1>1, <2>1, <2>2, <2>3 DEF QueueMoves
  <1>2. ASSUME ops # <<>>, ops' = Tail(ops) PROVE Len(ops') \in Nat /\ QueueMoves(1)
    <2>1. ops' \in Seq(Op) /\ \A j \in 1..Len(ops') : j + 1 \in 1..Len(ops) /\ ops'[j] = ops[j + 1]
      BY <1>0, <1>2, PopPlaces
    <2>2. QED
      BY <2>1 DEF QueueMoves
  <1>3. ASSUME ops' = ops PROVE Len(ops') \in Nat /\ QueueMoves(0)
    <2>1. Len(ops) \in Nat /\ \A j \in 1..Len(ops) : j + 0 = j
      BY <1>0
    <2>2. QED
      BY <1>3, <2>1 DEF QueueMoves
  <1>4. CASE EnqueueDoneAcked
    <2> DEFINE k == Head(ops).key
               o == [op |-> "ack", key |-> k]
    <2>1. ops # <<>> /\ Head(ops).op = "enqueue" /\ ops' = Append(Tail(ops), o)
      BY <1>4 DEF EnqueueDoneAcked, Head_
    <2>2. k \in Keys
      BY <1>0, <2>1, HeadType DEF StoreOK, TypeOK
    <2>3. o \in Op /\ o.op = "ack" /\ o.key = k /\ NewAck(k)
      BY <1>4, <2>2 DEF Op, NewAck
    <2> HIDE DEF o, k
    <2>4. /\ Len(ops') = Len(ops) /\ ops'[Len(ops)] = o
          /\ \A j \in 1..Len(ops') : j = Len(ops) \/ (j + 1 \in 1..Len(ops) /\ ops'[j] = ops[j + 1])
      BY <1>0, <2>1, <2>3, PopPushPlaces
    <2>5. Len(ops) \in Nat
      BY ONLY <1>0
    <2>6. QueueMoves(1)
      BY <2>2, <2>3, <2>4 DEF QueueMoves
    <2>7. QED
      BY <2>4, <2>5, <2>6
  <1>5. ASSUME NEW k \in Keys, Retires(k) PROVE Len(ops') \in Nat /\ QueueMoves(0)
    <2> DEFINE o == [op |-> "ack", key |-> k]
    <2>1. o \in Op /\ o.op = "ack" /\ o.key = k /\ NewAck(k)
      BY <1>5 DEF Op, NewAck
    <2>2. ops' = Append(ops, o)
      BY <1>5, RetiresStep
    <2> HIDE DEF o
    <2>3. QED
      BY <1>1, <2>1, <2>2
  <1>6. ASSUME NEW o \in Op, o.op # "ack", ops' = Append(ops, o)
        PROVE  Len(ops') \in Nat /\ QueueMoves(0)
    BY <1>1, <1>6
  <1>7. ASSUME NEW k \in Sent, StartSend(k) \/ HeadStartOver(k)
        PROVE  Len(ops') \in Nat /\ QueueMoves(0)
    <2> DEFINE o == [op |-> "enqueue", key |-> k]
    <2>1. o \in Op /\ o.op # "ack"
      BY DEF Op, Sent
    <2>2. ops' = ops \/ ops' = Append(ops, o)
      BY <1>7 DEF StartSend, HeadStartOver
    <2> HIDE DEF o
    <2>3. QED
      BY <1>3, <1>6, <2>1, <2>2
  <1>8. CASE StartSeed \/ StartFlush \/ \E p \in Peers : StartDrop(p)
    <2>1. \A p \in Peers : [op |-> "drop", peer |-> p] \in Op
      BY DEF Op
    <2>2. [op |-> "seed"] \in Op /\ [op |-> "read"] \in Op
      BY DEF Op
    <2>3. PICK o \in Op : o.op # "ack" /\ ops' = Append(ops, o)
      BY <1>8, <2>1, <2>2 DEF StartSeed, StartFlush, StartDrop
    <2>4. QED
      BY <1>6, <2>3
  <1>9. CASE Crash
    <2>1. Len(ops') = 0
      BY <1>9 DEF Crash
    <2>2. QED
      BY <2>1 DEF QueueMoves
  <1>10. \/ EnqueueDoneAcked \/ Crash \/ ops' = ops \/ (ops # <<>> /\ ops' = Tail(ops))
         \/ \E k \in Keys : Retires(k)
         \/ \E k \in Sent : StartSend(k) \/ HeadStartOver(k)
         \/ StartSeed \/ StartFlush \/ \E p \in Peers : StartDrop(p)
    BY DEF Next, StorageStep, StorageFault, PassStep, vars, Retires, EnqueueDone, EnqueueFails,
       AckDone, AckFails, DropRead, SeedDone, FlushRead, Head_, StartDriving, EndPass, PlanSkip,
       PlanRedrive, DriveSkip, Drive, Settle, Deliver, LoseWire, LoseAck, Due, FastFire,
       FastSettle, Deadline, ContactChanges, store
  <1>11. QED
    BY <1>2, <1>3, <1>4, <1>5, <1>7, <1>8, <1>9, <1>10

\* A send call is open only if it was, or begins now; its end leaves it idle.
LEMMA OpenSends ==
  ASSUME TypeOK, [Next]_vars
  PROVE  \A k \in Keys : sending'[k] # "idle" =>
            /\ ~Crash
            /\ ~((EnqueueDone \/ EnqueueDoneAcked) /\ Head(ops).key = k)
            /\ sending[k] # "idle" \/ (k \in Sent /\ StartSend(k))
  <1> SUFFICES ASSUME NEW k \in Keys, sending'[k] # "idle"
               PROVE  /\ ~Crash
                      /\ ~((EnqueueDone \/ EnqueueDoneAcked) /\ Head(ops).key = k)
                      /\ sending[k] # "idle" \/ (k \in Sent /\ StartSend(k))
    OBVIOUS
  <1>0. sending \in [Keys -> {"idle", "head start", "storing"}]
    BY DEF TypeOK, SenderOK
  <1>1. ~Crash
    BY DEF Crash
  <1>2. ASSUME EnqueueDone \/ EnqueueDoneAcked \/ EnqueueFails
        PROVE  Head(ops).key # k /\ sending[k] # "idle"
    <2>1. sending' = [sending EXCEPT ![Head(ops).key] = "idle"]
      BY <1>2 DEF EnqueueDone, EnqueueDoneAcked, EnqueueFails
    <2>2. QED
      BY <1>0, <2>1
  <1>3. ASSUME NEW q \in Sent, HeadStartOver(q) PROVE sending[k] # "idle"
    <2>1. sending[q] = "head start" /\ \E s : sending' = [sending EXCEPT ![q] = s]
      BY <1>3 DEF HeadStartOver
    <2>2. q = k \/ sending'[k] = sending[k]
      BY <1>0, <2>1
    <2>3. QED
      BY <2>1, <2>2
  <1>4. ASSUME NEW q \in Sent, StartSend(q)
        PROVE  sending[k] # "idle" \/ (k \in Sent /\ StartSend(k))
    <2>1. \E s : sending' = [sending EXCEPT ![q] = s]
      BY <1>4 DEF StartSend
    <2>2. q = k \/ sending'[k] = sending[k]
      BY <1>0, <2>1
    <2>3. QED
      BY <1>4, <2>2
  <1>5. ASSUME NEW q \in Keys, AckArrives(q) \/ DropOne(q) \/ PlanRetire(q)
        PROVE  sending[k] # "idle"
    BY <1>5 DEF AckArrives, DropOne, PlanRetire
  <1>6. QED
    BY <1>1, <1>2, <1>3, <1>4, <1>5, SenderFrame DEF sender

\* A frame that is acknowledged was, or is now; one that is not stuck any more has been retired.
LEMMA SettledRises ==
  ASSUME [Next]_vars
  PROVE  /\ \A k \in settled' : k \in settled \/ (k \in Keys /\ AckArrives(k))
         /\ \A k \in stuck \ stuck' : settled' = {} \/ (AckDone /\ Head(ops).key = k)
         /\ \A k \in settled' : ~(k \in Sent /\ StartSend(k))
  <1>1. ASSUME NEW k \in Sent, StartSend(k)
        PROVE  settled' = settled \ {k} /\ UNCHANGED stuck
    BY <1>1 DEF StartSend
  <1>2. ASSUME NEW k \in Keys, AckArrives(k)
        PROVE  settled' = settled \cup {k} /\ UNCHANGED stuck
    BY <1>2 DEF AckArrives
  <1>3. CASE AckDone
    BY <1>1, <1>3 DEF AckDone
  <1>4. CASE Crash
    BY <1>4 DEF Crash
  <1>5. CASE UNCHANGED settled /\ stuck \subseteq stuck'
    BY <1>1, <1>5
  <1>6. \/ \E k \in Sent : StartSend(k)
        \/ \E k \in Keys : AckArrives(k)
        \/ AckDone \/ Crash \/ (UNCHANGED settled /\ stuck \subseteq stuck')
    BY DEF Next, StorageStep, StorageFault, PassStep, vars, history, EnqueueDone,
       EnqueueDoneAcked, EnqueueFails, AckFails, DropRead, SeedDone, FlushRead, StartDriving,
       EndPass, PlanSkip, PlanRetire, PlanRedrive, DriveSkip, Drive, Settle, StartFlush,
       StartSeed, StartDrop, HeadStartOver, Deliver, LoseWire, LoseAck, DropOne, Due, FastFire,
       FastSettle, Deadline, ContactChanges
  <1>7. QED
    BY <1>1, <1>2, <1>3, <1>4, <1>5, <1>6

\* What is remembered of a row that is being written stays until it is written.
LEMMA Remembered ==
  ASSUME [Next]_vars
  PROVE  \A k \in ackedEarly \ ackedEarly' :
            Crash \/ (EnqueueDoneAcked /\ Head(ops).key = k)
  <1>1. CASE EnqueueDoneAcked
    BY <1>1 DEF EnqueueDoneAcked
  <1>2. ASSUME NEW k \in Keys, AckArrives(k) \/ DropOne(k) \/ PlanRetire(k)
        PROVE  ackedEarly \subseteq ackedEarly'
    BY <1>2 DEF AckArrives, DropOne, PlanRetire, Retire, NoteEarlyAck
  <1>3. ASSUME \/ EnqueueDone \/ EnqueueFails \/ UNCHANGED sender
               \/ \E k \in Sent : StartSend(k) \/ HeadStartOver(k)
        PROVE  UNCHANGED ackedEarly
    BY <1>3 DEF EnqueueDone, EnqueueFails, sender, StartSend, HeadStartOver
  <1>4. QED
    BY <1>1, <1>2, <1>3, SenderFrame

LEMMA WindowStep ==
  ASSUME TypeOK, EarlyWindow, [Next]_vars
  PROVE  EarlyWindow'
  <1> SUFFICES ASSUME NEW k \in Keys, k[2] \in Calls \cap Early, sending'[k] # "idle"
               PROVE  k \in unpersisted' /\ (k \in settled' => k \in ackedEarly')
    BY DEF EarlyWindow
  <1>0. sending \in [Keys -> {"idle", "head start", "storing"}]
    BY DEF TypeOK, SenderOK
  <1>1. /\ ~Crash /\ ~((EnqueueDone \/ EnqueueDoneAcked) /\ Head(ops).key = k)
        /\ sending[k] # "idle" \/ (k \in Sent /\ StartSend(k))
    BY OpenSends
  <1>2. CASE k \in Sent /\ StartSend(k)
    BY <1>2 DEF StartSend
  <1>3. CASE sending[k] # "idle"
    <2>1. k \in unpersisted /\ (k \in settled => k \in ackedEarly)
      BY <1>3 DEF EarlyWindow
    <2>2. k \in unpersisted'
      <3>1. CASE EnqueueDone \/ EnqueueDoneAcked
        <4>1. unpersisted' = unpersisted \ {Head(ops).key}
          BY <3>1 DEF EnqueueDone, EnqueueDoneAcked
        <4>2. QED
          BY <1>1, <2>1, <3>1, <4>1
      <3>2. CASE EnqueueFails \/ UNCHANGED sender
        BY <2>1, <3>2 DEF EnqueueFails, sender
      <3>3. ASSUME NEW q \in Sent, StartSend(q) \/ HeadStartOver(q) PROVE k \in unpersisted'
        BY <2>1, <3>3 DEF StartSend, HeadStartOver
      <3>4. ASSUME NEW q \in Keys, AckArrives(q) \/ DropOne(q) \/ PlanRetire(q)
            PROVE  k \in unpersisted'
        BY <2>1, <3>4 DEF AckArrives, DropOne, PlanRetire
      <3>5. QED
        BY <1>1, <3>1, <3>2, <3>3, <3>4, SenderFrame
    <2>3. k \in ackedEarly => k \in ackedEarly'
      BY <1>1, Remembered
    <2>4. ASSUME k \in settled', k \notin settled PROVE k \in ackedEarly'
      <3>1. AckArrives(k)
        BY <2>4, SettledRises
      <3>2. ackedEarly' = ackedEarly \cup ({k} \cap unpersisted)
        BY <3>1 DEF AckArrives, Retire, NoteEarlyAck
      <3>3. QED
        BY <2>1, <3>2
    <2>5. QED
      BY <2>1, <2>2, <2>3, <2>4
  <1>4. QED
    BY <1>1, <1>2, <1>3

LEMMA TimersStep ==
  ASSUME TypeOK, CallTimers, [Next]_vars
  PROVE  CallTimers'
  <1>1. StoreOK /\ timer \in [Ids -> Ladder] /\ firing \subseteq Ids \X (Ladder \ {NoLadder})
    BY DEF TypeOK, LadderOK
  <1>2. ASSUME NEW i \in Ids, timer' = [timer EXCEPT ![i] = NoLadder], UNCHANGED firing
        PROVE  CallTimers'
    BY <1>1, <1>2 DEF CallTimers
  <1>3. ASSUME NEW i \in Ids, i \in Calls, NEW t, timer' = [timer EXCEPT ![i] = t],
               firing' \subseteq firing
        PROVE  CallTimers'
    BY <1>1, <1>3 DEF CallTimers
  <1>4. CASE EnqueueDone \/ EnqueueDoneAcked
    <2> DEFINE i == Head(ops).key[2]
               t == [peer |-> Head(ops).key[1], left |-> MaxFast]
    <2>1. i \in Ids
      BY <1>1, <1>4, HeadType DEF EnqueueDone, EnqueueDoneAcked, Head_, Keys
    <2>2. /\ UNCHANGED firing
          /\ \/ timer' = [timer EXCEPT ![i] = NoLadder] \/ UNCHANGED timer
             \/ i \in Calls /\ timer' = [timer EXCEPT ![i] = t]
      BY <1>4 DEF EnqueueDone, EnqueueDoneAcked
    <2> HIDE DEF i, t
    <2>3. CASE UNCHANGED <<timer, firing>>
      BY <2>3 DEF CallTimers
    <2>4. QED
      BY <1>2, <1>3, <2>1, <2>2, <2>3
  <1>5. ASSUME NEW k \in Keys, Due(k) \/ (CancelRetries(k) /\ UNCHANGED firing) PROVE CallTimers'
    <2>1. k[2] \in Ids
      BY DEF Keys
    <2>2. CASE Due(k)
      BY <2>2 DEF Due, CallTimers
    <2>3. CASE CancelRetries(k) /\ UNCHANGED firing
      BY <1>2, <2>1, <2>3 DEF CancelRetries
    <2>4. QED
      BY <1>5, <2>2, <2>3
  <1>6. ASSUME NEW i \in Ids, FastFire(i) PROVE CallTimers'
    <2>1. /\ timer[i] # NoLadder /\ timer' = [timer EXCEPT ![i] = NoLadder]
          /\ firing' \subseteq firing \cup {<<i, timer[i]>>}
      BY <1>6 DEF FastFire
    <2>2. QED
      BY <1>1, <2>1 DEF CallTimers
  <1>7. ASSUME NEW f \in firing, FastSettle(f) PROVE CallTimers'
    <2> DEFINE t == [f[2] EXCEPT !.left = @ - 1]
    <2>1. f[1] \in Ids /\ f[1] \in Calls
      BY <1>1 DEF CallTimers
    <2>2. firing' = firing \ {f} /\ (UNCHANGED timer \/ timer' = [timer EXCEPT ![f[1]] = t])
      BY <1>7 DEF FastSettle
    <2> HIDE DEF t
    <2>3. CASE UNCHANGED timer
      BY <2>2, <2>3 DEF CallTimers
    <2>4. QED
      BY <1>3, <2>1, <2>2, <2>3
  <1>8. CASE Crash
    BY <1>8 DEF Crash, CallTimers
  <1>9. CASE UNCHANGED ladder \/ \E p \in Peers : Drive(p)
    BY <1>9 DEF ladder, Drive, CallTimers
  <1>10. QED
    BY <1>1, <1>4, <1>5, <1>6, <1>7, <1>8, <1>9, LadderFrame

\* A frame nobody knows becomes known only when it has been stored.
LEMMA UnknownStays ==
  ASSUME TypeOK, [Next]_vars, NEW k \in Keys, k[2] \notin Early, sending'[k] # "idle", Unknown(k)
  PROVE  Unknown(k)'
  <1>0. /\ ~Crash /\ ~((EnqueueDone \/ EnqueueDoneAcked) /\ Head(ops).key = k)
        /\ StoreOK
    BY OpenSends DEF TypeOK
  <1>1. ~Retires(k) /\ ~NewAck(k)
    BY <1>0 DEF Retires, NewAck, Unknown, AckArrives, DropOne, PlanRetire
  <1>2. \A j \in 1..Len(ops') : ~(ops'[j].op = "ack" /\ ops'[j].key = k)
    BY <1>1, QueueStep DEF QueueMoves, Unknown, AcksAt
  <1>3. backoff'[k] = "none"
    BY <1>0, RetryRises DEF Unknown
  <1>4. k \notin settled'
    BY <1>1, SettledRises DEF Unknown, Retires
  <1>5. k \notin Stored'
    <2>1. CASE EnqueueDone \/ EnqueueDoneAcked
      <3>1. Head(ops).key \in Keys /\ StoreRow(Head(ops).key)
        BY <1>0, <2>1, HeadType DEF EnqueueDone, EnqueueDoneAcked, Head_
      <3>2. QED
        BY <1>0, <2>1, <3>1, RowFacts DEF Unknown
    <2>2. CASE AckDone
      <3>1. Head(ops).key \in Keys /\ RemoveRow(Head(ops).key)
        BY <1>0, <2>2, HeadType DEF AckDone, Head_
      <3>2. QED
        BY <1>0, <3>1, RowFacts DEF Unknown
    <2>3. CASE UNCHANGED row
      BY <2>3 DEF Unknown, Stored
    <2>4. EnqueueDone \/ EnqueueDoneAcked \/ AckDone \/ UNCHANGED row
      BY <1>0 DEF Next, StorageStep, StorageFault, PassStep, vars, store, EnqueueFails, AckFails,
         DropRead, SeedDone, FlushRead, StartDriving, EndPass, PlanSkip, PlanRetire, PlanRedrive,
         DriveSkip, Drive, Settle, StartFlush, StartSeed, StartDrop, StartSend, HeadStartOver,
         Deliver, LoseWire, LoseAck, AckArrives, DropOne, Due, FastFire, FastSettle, Deadline,
         ContactChanges
    <2>5. QED
      BY <2>1, <2>2, <2>3, <2>4
  <1>6. k \notin candidates'
    <2>1. ASSUME NEW q \in Keys, Invalidate(q) PROVE candidates' \subseteq candidates
      BY <2>1 DEF Invalidate, snapshot
    <2>2. ASSUME NEW ok \in BOOLEAN, FlushRead(ok) PROVE candidates' \subseteq candidates \cup Stored
      BY <2>2 DEF FlushRead, Visible
    <2>3. ASSUME StartFlush \/ EndPass \/ UNCHANGED snapshot PROVE candidates' \subseteq candidates
      BY <2>3 DEF StartFlush, EndPass, snapshot
    <2>4. QED
      BY <1>0, <2>1, <2>2, <2>3, SnapshotFrame DEF Unknown
  <1>7. k \notin doomed'
    <2>1. CASE \E ok \in BOOLEAN : DropRead(ok)
      <3>1. doomed' \subseteq doomed \cup Stored
        BY <2>1 DEF DropRead, Visible
      <3>2. QED
        BY <3>1 DEF Unknown
    <2>2. CASE doomed' \subseteq doomed
      BY <2>2 DEF Unknown
    <2>3. (\E ok \in BOOLEAN : DropRead(ok)) \/ doomed' \subseteq doomed
      BY <1>0 DEF Next, StorageStep, StorageFault, PassStep, vars, EnqueueDone, EnqueueDoneAcked,
         AckDone, EnqueueFails, AckFails, SeedDone, FlushRead, StartDriving, EndPass, PlanSkip,
         PlanRetire, PlanRedrive, DriveSkip, Drive, Settle, StartFlush, StartSeed, StartDrop,
         StartSend, HeadStartOver, Deliver, LoseWire, LoseAck, AckArrives, DropOne, Due, FastFire,
         FastSettle, Deadline, ContactChanges
    <2>4. QED
      BY <2>1, <2>2, <2>3
  <1>8. k \notin net' \cup acks'
    <2> SUFFICES ASSUME ~(UNCHANGED <<net, acks>>) PROVE k \notin net' \cup acks'
      BY DEF Unknown
    <2>1. CASE EnqueueDone
      BY <1>0, <2>1 DEF EnqueueDone, Unknown
    <2>2. ASSUME NEW q \in Sent, StartSend(q) PROVE k \notin net' \cup acks'
      BY <2>2 DEF StartSend, Unknown
    <2>3. ASSUME NEW q \in Keys, Deliver(q) \/ LoseWire(q) \/ LoseAck(q) \/ AckArrives(q)
          PROVE  k \notin net' \cup acks'
      BY <2>3 DEF Deliver, LoseWire, LoseAck, AckArrives, Unknown
    <2>4. ASSUME NEW i \in Ids, FastFire(i) PROVE k \notin net' \cup acks'
      <3> DEFINE q == <<timer[i].peer, i>>
      <3>1. UNCHANGED acks /\ (UNCHANGED net \/ (backoff[q] # "none" /\ net' = net \cup {q}))
        BY <2>4 DEF FastFire
      <3> HIDE DEF q
      <3>2. QED
        BY <3>1 DEF Unknown
    <2>5. ASSUME NEW p \in Peers, Drive(p) PROVE k \notin net' \cup acks'
      <3> DEFINE q == <<p, Head(lane[p])>>
      <3>1. UNCHANGED acks /\ q \in candidates /\ net' = net \cup {q}
        BY <2>5 DEF Drive
      <3> HIDE DEF q
      <3>2. QED
        BY <3>1 DEF Unknown
    <2>6. \/ EnqueueDone \/ UNCHANGED network
          \/ \E q \in Sent : StartSend(q)
          \/ \E q \in Keys : Deliver(q) \/ LoseWire(q) \/ LoseAck(q) \/ AckArrives(q)
          \/ \E i \in Ids : FastFire(i)
          \/ \E p \in Peers : Drive(p)
      BY DEF Next, StorageStep, StorageFault, PassStep, vars, network, EnqueueDoneAcked,
         EnqueueFails, AckDone, AckFails, DropRead, SeedDone, FlushRead, StartDriving, EndPass,
         PlanSkip, PlanRetire, PlanRedrive, DriveSkip, Settle, StartFlush,
         StartSeed, HeadStartOver, DropOne, Due, FastSettle, Deadline, ContactChanges,
         StartDrop, Crash, Sent
    <2>7. QED
      BY <2>1, <2>2, <2>3, <2>4, <2>5, <2>6 DEF network
  <1>9. QED
    BY <1>2, <1>3, <1>4, <1>5, <1>6, <1>7, <1>8 DEF Unknown, AcksAt

LEMMA OnceStep ==
  ASSUME TypeOK, OnceSent, [Next]_vars, SentAfresh
  PROVE  OnceSent'
  <1> SUFFICES ASSUME NEW k \in Keys, k[2] \in Calls \ Early, sending'[k] # "idle"
               PROVE  Unknown(k)'
    BY DEF OnceSent
  <1>1. Unknown(k)
    BY OpenSends DEF OnceSent, SentAfresh
  <1>2. QED
    BY <1>1, UnknownStays

\* The first operation of the queue is before every other.
LEMMA HeadFirst ==
  ASSUME ops \in Seq(Op), ops # <<>>
  PROVE  /\ 1 \in 1..Len(ops) /\ ops[1] = Head(ops)
         /\ \A j \in 1..Len(ops) : j # 1 => 1 < j
  OBVIOUS

\* The enqueue of a call signal that ends well is of one that is not acknowledged.
LEMMA FreshStored ==
  ASSUME SettleInv, LadderInv, EnqueueDone, Head(ops).key[2] \in Calls
  PROVE  /\ Head(ops).key \notin settled
         /\ \A j \in 1..Len(ops) : ops[j].op = "ack" => ops[j].key # Head(ops).key
  <1> DEFINE k == Head(ops).key
  <1>1. ops \in Seq(Op) /\ ops # <<>> /\ Head(ops).op = "enqueue" /\ k \notin ackedEarly
    BY DEF SettleInv, SendOK, EnqueueDone, Head_
  <1>2. /\ 1 \in 1..Len(ops) /\ ops[1].op = "enqueue" /\ ops[1].key = k
        /\ \A j \in 1..Len(ops) : j # 1 => 1 < j
    BY <1>1, HeadFirst
  <1>3. k \in Keys /\ sending[k] = "storing"
    BY <1>2 DEF SettleInv, OneEnqueue, Sent
  <1>4. k[2] \in Calls
    OBVIOUS
  <1> HIDE DEF k
  <1>5. k \notin settled
    BY <1>1, <1>3, <1>4 DEF LadderInv, EarlyWindow, OnceSent, Unknown
  <1>6. ASSUME NEW j \in 1..Len(ops), ops[j].op = "ack", ops[j].key = k PROVE FALSE
    <2>1. j # 1
      BY <1>2, <1>6
    <2>2. 1 < j
      BY <1>2, <2>1
    <2>3. QED
      BY <1>1, <1>2, <1>4, <1>6, <2>2 DEF LadderInv, AckRemembered
  <1>7. QED
    BY <1>5, <1>6 DEF k

LEMMA RememberedStep ==
  ASSUME TypeOK, SettleInv, SettleInv', LadderInv, [Next]_vars
  PROVE  AckRemembered'
  <1> SUFFICES ASSUME NEW i \in 1..Len(ops'), NEW j \in 1..Len(ops'), i < j,
                      ops'[i].op = "enqueue", ops'[j].op = "ack", ops'[i].key = ops'[j].key,
                      ops'[j].key[2] \in Calls
               PROVE  ops'[j].key \in ackedEarly'
    BY DEF AckRemembered
  <1> DEFINE k == ops'[j].key
  <1>1. k \in Keys /\ sending'[k] = "storing"
    BY DEF SettleInv, OneEnqueue, Sent
  <1>2. /\ ~Crash /\ ~((EnqueueDone \/ EnqueueDoneAcked) /\ Head(ops).key = k)
    BY <1>1, OpenSends
  <1>3. PICK d \in {0, 1} : QueueMoves(d) /\ Len(ops') \in Nat
    BY QueueStep
  <1>4. i # Len(ops')
    BY <1>3
  <1>5. i + d \in 1..Len(ops) /\ ops'[i] = ops[i + d]
    BY <1>3, <1>4 DEF QueueMoves
  <1>6. CASE j + d \in 1..Len(ops) /\ ops'[j] = ops[j + d]
    <2>1. i + d < j + d
      BY <1>3
    <2>2. k \in ackedEarly
      BY <1>5, <1>6, <2>1 DEF LadderInv, AckRemembered
    <2>3. QED
      BY <1>2, <2>2, Remembered
  <1>7. CASE NewAck(k)
    <2>1. Retires(k)
      BY <1>2, <1>7 DEF NewAck
    <2>2. sending[k] = "storing" /\ ackedEarly' = ackedEarly \cup ({k} \cap unpersisted)
      BY <1>1, <2>1, RetiresStep
    <2>3. CASE k[2] \in Early
      BY <1>1, <2>2, <2>3 DEF LadderInv, EarlyWindow
    <2>4. CASE k[2] \notin Early
      <3>1. Unknown(k)
        BY <1>1, <2>2, <2>4 DEF LadderInv, OnceSent
      <3>2. QED
        BY <2>1, <3>1 DEF Unknown, Retires, AckArrives, DropOne, PlanRetire
    <2>5. QED
      BY <2>3, <2>4
  <1>8. QED
    BY <1>3, <1>6, <1>7 DEF QueueMoves

LEMMA AckQuietStep ==
  ASSUME TypeOK, SettleInv, SnapInv, LadderInv, [Next]_vars
  PROVE  AckQuiet'
  <1> SUFFICES ASSUME NEW j \in 1..Len(ops'), ops'[j].op = "ack", ops'[j].key[2] \in Calls,
                      backoff'[ops'[j].key] # "none"
               PROVE  FALSE
    BY DEF AckQuiet
  <1> DEFINE k == ops'[j].key
  <1>1. PICK d \in {0, 1} : QueueMoves(d)
    BY QueueStep
  <1>2. CASE j + d \in 1..Len(ops) /\ ops'[j] = ops[j + d]
    <2>1. ops[j + d].op = "ack" /\ ops[j + d].key = k /\ k[2] \in Calls /\ backoff'[k] # "none"
      BY <1>2
    <2>2. k \in Keys
      <3>1. ops[j + d] \in Op
        BY <1>2 DEF TypeOK, StoreOK
      <3>2. QED
        BY <2>1, <3>1 DEF Op
    <2> HIDE DEF k
    <2>3. backoff[k] = "none" /\ k \notin candidates
      BY <1>2, <2>1 DEF LadderInv, AckQuiet, SnapInv, AckUncaptured
    <2>4. EnqueueDone /\ Head(ops).key = k
      BY <2>1, <2>2, <2>3, RetryRises
    <2>5. QED
      BY <1>2, <2>1, <2>4, FreshStored
  <1>3. CASE k \in Keys /\ NewAck(k)
    <2>1. CASE Retires(k)
      BY <1>3, <2>1, RetiresStep
    <2>2. CASE EnqueueDoneAcked /\ k = Head(ops).key
      <3>1. backoff' = [backoff EXCEPT ![k] = "none"]
        BY <2>2 DEF EnqueueDoneAcked
      <3>2. QED
        BY <1>3, <3>1 DEF TypeOK, LadderOK
    <2>3. QED
      BY <1>3, <2>1, <2>2 DEF NewAck
  <1>4. QED
    BY <1>1, <1>2, <1>3 DEF QueueMoves

LEMMA QuietStep ==
  ASSUME TypeOK, SettleInv, SnapInv, LadderInv, [Next]_vars
  PROVE  Quiet'
  <1> SUFFICES ASSUME NEW k \in settled', k \notin stuck', k[2] \in Calls, backoff'[k] # "none"
               PROVE  FALSE
    BY DEF Quiet
  <1>1. CASE k \notin settled
    <2>1. k \in Keys /\ Retires(k)
      BY <1>1, SettledRises DEF Retires
    <2>2. QED
      BY <2>1, RetiresStep
  <1>2. CASE k \in settled /\ k \notin stuck
    <2>1. k \in Keys
      BY <1>2 DEF TypeOK, HistoryOK
    <2>2. backoff[k] = "none" /\ k \notin candidates
      BY <1>2 DEF LadderInv, Quiet, SnapInv, RetiredUncaptured, Retired
    <2>3. EnqueueDone /\ Head(ops).key = k
      BY <2>1, <2>2, RetryRises
    <2>4. QED
      BY <1>2, <2>3, FreshStored
  <1>3. CASE k \in stuck
    <2>1. AckDone /\ Head(ops).key = k
      BY <1>3, SettledRises
    <2>2. /\ ops \in Seq(Op) /\ ops # <<>> /\ Head(ops).op = "ack" /\ UNCHANGED backoff
      BY <2>1 DEF TypeOK, StoreOK, AckDone, Head_, ladder
    <2>3. 1 \in 1..Len(ops) /\ ops[1].op = "ack" /\ ops[1].key = k
      BY <2>1, <2>2, HeadFirst
    <2>4. QED
      BY <2>2, <2>3 DEF LadderInv, AckQuiet
  <1>4. QED
    BY <1>1, <1>2, <1>3

LEMMA LadderStep ==
  ASSUME TypeOK, SettleInv, SettleInv', SnapInv, LadderInv, [Next]_vars, SentAfresh
  PROVE  LadderInv'
  <1>1. EarlyWindow' /\ OnceSent' /\ CallTimers'
    BY WindowStep, OnceStep, TimersStep DEF LadderInv
  <1>2. AckRemembered' /\ AckQuiet' /\ Quiet'
    BY RememberedStep, AckQuietStep, QuietStep
  <1>3. QED
    BY <1>1, <1>2 DEF LadderInv

\* An acknowledged call signal is not sent by its fast ladder again, whatever timer, callback,
\* re-drive or write of its row was under way when the acknowledgement came
\* (_scheduleFastCallRedrive, _retirePersisted, _sendingUnpersisted).  A call signal that is
\* stored first must carry a new id: an old acknowledgement of an id used again could come
\* while its row is being written, and that code remembers it for early frames alone.
THEOREM LadderStops == Spec /\ [][SentAfresh]_vars => LadderStopsAtAck
  <1> DEFINE Inv == TypeOK /\ RedriveInv /\ LadderInv
  <1>1. Init => Inv
    <2> SUFFICES ASSUME Init PROVE Inv
      OBVIOUS
    <2>1. TypeOK /\ RedriveInv
      BY TypeInit, InitRedrive
    <2>2. Len(ops) = 0
      BY DEF Init
    <2>3. LadderInv
      BY <2>2 DEF Init, LadderInv, EarlyWindow, OnceSent, AckRemembered, AckQuiet, Quiet,
         CallTimers
    <2>4. QED
      BY <2>1, <2>3
  <1>2. Inv /\ [Next]_vars /\ [SentAfresh]_vars => Inv'
    <2> SUFFICES ASSUME TypeOK, RedriveInv, LadderInv, [Next]_vars, [SentAfresh]_vars PROVE Inv'
      OBVIOUS
    <2>1. TypeOK' /\ RedriveInv' /\ SettleInv /\ SettleInv' /\ SnapInv
      BY TypeStep, StepRedrive DEF RedriveInv
    <2>2. SentAfresh
      <3>1. CASE UNCHANGED vars
        <4>1. sends \in Nat /\ sends' = sends
          BY <3>1 DEF vars, bounds, TypeOK, RestOK
        <4>2. \A k \in Sent : StartSend(k) => sends' = sends + 1
          BY DEF StartSend
        <4>3. \A k \in Sent : ~StartSend(k)
          BY <4>1, <4>2
        <4>4. QED
          BY <4>3 DEF SentAfresh
      <3>2. QED
        BY <3>1
    <2>3. LadderInv'
      BY <2>1, <2>2, LadderStep
    <2>4. QED
      BY <2>1, <2>3
  <1>3. Inv /\ [Next]_vars =>
          [\A f \in firing' \ firing : <<f[2].peer, f[1]>> \notin settled \ stuck]_vars
    <2> SUFFICES ASSUME TypeOK, LadderInv, [Next]_vars, NEW f \in firing' \ firing
                 PROVE  <<f[2].peer, f[1]>> \notin settled \ stuck
      OBVIOUS
    <2>1. PICK i \in Ids : FastFire(i)
      <3>1. StoreOK
        BY DEF TypeOK
      <3>2. ASSUME \/ EnqueueDone \/ EnqueueDoneAcked \/ Crash \/ UNCHANGED ladder
                   \/ \E k \in Keys : Due(k) \/ (CancelRetries(k) /\ UNCHANGED firing)
                   \/ \E g \in firing : FastSettle(g)
                   \/ \E p \in Peers : Drive(p)
            PROVE  firing' \subseteq firing
        BY <3>2 DEF EnqueueDone, EnqueueDoneAcked, Crash, ladder, Due, FastSettle, Drive
      <3>3. QED
        BY <3>1, <3>2, LadderFrame
    <2> DEFINE k == <<timer[i].peer, i>>
    <2>2. f = <<i, timer[i]>> /\ backoff[k] # "none" /\ timer[i] # NoLadder
      BY <2>1 DEF FastFire
    <2>3. k = <<f[2].peer, f[1]>> /\ k[2] \in Calls
      BY <2>2 DEF LadderInv, CallTimers
    <2> HIDE DEF k
    <2>4. QED
      BY <2>2, <2>3 DEF LadderInv, Quiet
  <1>4. QED
    BY <1>1, <1>2, <1>3, PTL DEF Spec, LadderStopsAtAck
=============================================================================
