--------------------------- MODULE ContactsProofs ---------------------------
(***************************************************************************)
(* Proofs about Contacts.  ConsentGiven is not inductive: an acceptance    *)
(* that is being honoured was found to answer a request, and a request     *)
(* pends only for a contact that is wanted.                                *)
(***************************************************************************)
EXTENDS Contacts, TLAPS

LEMMA BoundsFacts == MaxDecisions \in Nat /\ MaxCrashes \in Nat /\ MaxRefusals \in Nat
  BY ContactsAssumption

\* The lane of a node never handles a frame of the node itself.
LaneOfOther == \A n \in Nodes : lane[n] # Idle => lane[n].peer # n

TypeInv == TypeOK /\ LaneOfOther

LEMMA PairFacts ==
    ASSUME NEW k \in Pairs
    PROVE  /\ k[1] \in Nodes /\ k[2] \in Nodes /\ k[1] # k[2]
           /\ <<k[1], k[2]>> = k
           /\ \A i \in Ids : <<k[1], k[2], i>> \in Wires
  BY DEF Pairs, Wires

LEMMA WireFacts ==
    ASSUME NEW w \in Wires
    PROVE  /\ w[1] \in Nodes /\ w[2] \in Nodes /\ w[3] \in Ids /\ w[1] # w[2]
           /\ <<w[2], w[1]>> \in Pairs /\ <<w[1], w[2]>> \in Pairs
  BY DEF Pairs, Wires

\* What a busy lane holds.
LEMMA LaneFacts ==
    ASSUME TypeInv, NEW n \in Nodes, lane[n].step # "idle"
    PROVE  /\ lane[n] \in Job /\ lane[n].peer \in Nodes /\ lane[n].peer # n
           /\ <<n, lane[n].peer>> \in Pairs
           /\ <<n, lane[n].peer, Accept>> \in Wires
           /\ <<lane[n].peer, n, lane[n].id>> \in Wires
  <1>1. lane[n] \in Job /\ lane[n] # Idle
    BY DEF TypeInv, TypeOK, Idle
  <1>2. lane[n].peer \in Nodes /\ lane[n].id \in Ids
    BY <1>1 DEF Job, Ids
  <1>3. lane[n].peer # n
    BY <1>1 DEF TypeInv, LaneOfOther
  <1>4. QED
    BY <1>1, <1>2, <1>3 DEF Pairs, Wires, Ids

LEMMA TailFacts ==
    ASSUME NEW S, NEW s \in Seq(S), s # <<>>, Len(s) # 1
    PROVE  Tail(s) \in Seq(S) \ {<<>>}
  <1>1. Len(s) \in Nat /\ Len(s) # 0
    OBVIOUS
  <1>2. Tail(s) \in Seq(S) /\ Len(Tail(s)) = Len(s) - 1
    BY <1>1
  <1>3. Len(Tail(s)) # 0 /\ Len(<<>>) = 0
    BY <1>1, <1>2
  <1>4. Tail(s) # <<>>
    BY <1>3
  <1>5. QED
    BY <1>2, <1>4

\* A call that goes on is a call.
LEMMA RestFacts ==
    ASSUME TypeOK, NEW t \in tasks
    PROVE  Rest(t) \subseteq Task
  <1>1. t \in Task /\ t.todo \in Todo \ {<<>>}
    BY DEF TypeOK, Task
  <1>2. CASE Len(t.todo) = 1
    BY <1>2 DEF Rest, TypeOK
  <1>3. CASE Len(t.todo) # 1
    <2>1. Tail(t.todo) \in Todo \ {<<>>}
      BY <1>1, <1>3, TailFacts DEF Todo
    <2>2. [t EXCEPT !.todo = Tail(@)] \in Task
      BY <1>1, <2>1 DEF Task
    <2>3. QED
      BY <1>3, <2>2 DEF Rest, TypeOK
  <1>4. QED
    BY <1>2, <1>3

LEMMA TypeInit == Init => TypeInv
  <1> SUFFICES ASSUME Init PROVE TypeInv
    OBVIOUS
  <1>1. lane \in [Nodes -> Job \cup {Idle}] /\ LaneOfOther
    BY DEF Init, LaneOfOther
  <1>2. status \in [Pairs -> Status] /\ greeting \in [Pairs -> RequestIds \cup {NoId}]
    BY DEF Init, Status
  <1>3. /\ decisions \in 0..MaxDecisions /\ crashes \in 0..MaxCrashes
        /\ refusals \in 0..MaxRefusals
    BY BoundsFacts DEF Init
  <1>4. QED
    BY <1>1, <1>2, <1>3 DEF Init, TypeInv, TypeOK

LEMMA ContinueFacts ==
    ASSUME TypeOK, NEW k \in Pairs, NEW id \in Ids,
           NEW todo \in Todo \ {<<>>}, Continue(k, id, todo)
    PROVE  tasks' \subseteq Task
  BY DEF Continue, Task, TypeOK

\* What every decision leaves in its set.
DecisionRest ==
    /\ rows' \subseteq Wires /\ seen' \subseteq Wires
    /\ lane' \in [Nodes -> Job \cup {Idle}] /\ LaneOfOther'
    /\ acks' \subseteq Wires /\ removed' \subseteq Pairs
    /\ decisions' \in 0..MaxDecisions /\ crashes' \in 0..MaxCrashes
    /\ refusals' \in 0..MaxRefusals

LEMMA DecideFacts ==
    ASSUME TypeInv, NEW k \in Pairs, NEW name, Decide(k, name)
    PROVE  DecisionRest
  <1>1. decisions' \in 0..MaxDecisions
    BY BoundsFacts DEF Decide, TypeInv, TypeOK
  <1>2. QED
    BY <1>1 DEF Decide, DecisionRest, TypeInv, TypeOK, LaneOfOther

LEMMA DecisionType ==
    ASSUME DecisionRest, status' \in [Pairs -> Status],
           greeting' \in [Pairs -> RequestIds \cup {NoId}], tasks' \subseteq Task,
           sent' \subseteq Wires, used' \subseteq RequestIds, consent' \subseteq Pairs
    PROVE  TypeInv'
  BY DEF DecisionRest, TypeInv, TypeOK

LEMMA OwnerType == TypeInv /\ OwnerStep => TypeInv'
  <1> SUFFICES ASSUME TypeInv, NEW k \in Pairs,
                      \/ \E id \in RequestIds, empty \in BOOLEAN : SendRequest(k, id, empty)
                      \/ \E id \in RequestIds : ResendRequest(k, id)
                      \/ AcceptContact(k) \/ BlockContact(k) \/ UnblockContact(k)
                      \/ CancelRequest(k) \/ DeleteConversation(k)
                      \/ MirrorAccepted(k) \/ MirrorBlocked(k)
               PROVE  TypeInv'
    BY DEF OwnerStep
  <1> TypeOK
    BY DEF TypeInv
  <1>a. \A s \in Status : SetStatus(k, s) => status' \in [Pairs -> Status]
    BY DEF SetStatus, TypeOK
  <1>b. Wanted(k) \/ Unwanted(k) => consent' \subseteq Pairs
    BY DEF Wanted, Unwanted, TypeOK
  <1>c. RequestIds \subseteq Ids /\ Accept \in Ids
    BY DEF Ids
  <1>d. /\ <<"send">> \in Todo \ {<<>>}
        /\ <<"retire">> \in Todo \ {<<>>}
        /\ <<"remove">> \in Todo \ {<<>>}
        /\ <<"retire", "send">> \in Todo \ {<<>>}
        /\ <<"retire", "remove">> \in Todo \ {<<>>}
    BY DEF Todo
  <1>1. ASSUME NEW id \in RequestIds, NEW empty \in BOOLEAN, SendRequest(k, id, empty)
        PROVE  TypeInv'
    <2>1. DecisionRest
      BY <1>1, DecideFacts DEF SendRequest
    <2>2. status' \in [Pairs -> Status] /\ consent' \subseteq Pairs
      BY <1>1, <1>a, <1>b DEF SendRequest, Status
    <2>3. greeting' \in [Pairs -> RequestIds \cup {NoId}]
      BY <1>1 DEF SendRequest, TypeOK
    <2>4. tasks' \subseteq Task
      BY <1>1, <1>c, <1>d, ContinueFacts DEF SendRequest
    <2>5. sent' \subseteq Wires /\ used' \subseteq RequestIds
      BY <1>1 DEF SendRequest, TypeOK
    <2>6. QED
      BY <2>1, <2>2, <2>3, <2>4, <2>5, DecisionType
  <1>2. ASSUME NEW id \in RequestIds, ResendRequest(k, id) PROVE TypeInv'
    <2>1. DecisionRest
      BY <1>2, DecideFacts DEF ResendRequest
    <2>2. tasks' \subseteq Task
      BY <1>2, <1>c, <1>d, ContinueFacts DEF ResendRequest
    <2>3. used' \subseteq RequestIds
      BY <1>2 DEF ResendRequest, TypeOK
    <2>4. QED
      BY <1>2, <2>1, <2>2, <2>3, DecisionType DEF ResendRequest, TypeOK
  <1>3. CASE AcceptContact(k)
    <2>1. DecisionRest
      BY <1>3, DecideFacts DEF AcceptContact
    <2>2. status' \in [Pairs -> Status] /\ consent' \subseteq Pairs
      BY <1>3, <1>a, <1>b DEF AcceptContact, Status
    <2>3. tasks' \subseteq Task
      BY <1>3, <1>c, <1>d, ContinueFacts DEF AcceptContact
    <2>4. QED
      BY <1>3, <2>1, <2>2, <2>3, DecisionType DEF AcceptContact, TypeOK
  <1>4. CASE BlockContact(k) \/ MirrorBlocked(k)
    <2>1. DecisionRest
      BY <1>4, DecideFacts DEF BlockContact, MirrorBlocked
    <2>2. status' \in [Pairs -> Status] /\ consent' \subseteq Pairs
      BY <1>4, <1>a, <1>b DEF BlockContact, MirrorBlocked, Status
    <2>3. QED
      BY <1>4, <2>1, <2>2, DecisionType DEF BlockContact, MirrorBlocked, TypeOK
  <1>5. CASE UnblockContact(k)
    <2>1. DecisionRest
      BY <1>5, DecideFacts DEF UnblockContact
    <2>2. status' \in [Pairs -> Status] /\ consent' \subseteq Pairs
      BY <1>5, <1>a, <1>b DEF UnblockContact, Status
    <2>3. tasks' \subseteq Task
      BY <1>5, <1>c, <1>d, ContinueFacts DEF UnblockContact
    <2>4. QED
      BY <1>5, <2>1, <2>2, <2>3, DecisionType DEF UnblockContact, TypeOK
  <1>6. CASE CancelRequest(k) \/ DeleteConversation(k)
    <2>1. DecisionRest
      BY <1>6, DecideFacts DEF CancelRequest, DeleteConversation
    <2>2. tasks' \subseteq Task
      BY <1>6, <1>c, <1>d, ContinueFacts DEF CancelRequest, DeleteConversation
    <2>3. QED
      BY <1>6, <2>1, <2>2, DecisionType DEF CancelRequest, DeleteConversation, TypeOK
  <1>7. CASE MirrorAccepted(k)
    <2>1. DecisionRest
      BY <1>7, DecideFacts DEF MirrorAccepted
    <2>2. status' \in [Pairs -> Status] /\ consent' \subseteq Pairs
      BY <1>7, <1>a, <1>b DEF MirrorAccepted, Status
    <2>3. tasks' \subseteq Task
      BY <1>7, <1>c, <1>d, ContinueFacts DEF MirrorAccepted
    <2>4. sent' \subseteq Wires
      <3>1. <<k[1], k[2], Accept>> \in Wires
        BY <1>c, PairFacts
      <3>2. QED
        BY <1>7, <3>1 DEF MirrorAccepted, TypeOK
    <2>5. QED
      BY <1>7, <2>1, <2>2, <2>3, <2>4, DecisionType DEF MirrorAccepted, TypeOK
  <1>8. QED
    BY <1>1, <1>2, <1>3, <1>4, <1>5, <1>6, <1>7

\* The steps that are not decisions touch few of the variables each.
LEMMA TaskType == TypeInv /\ TaskStep => TypeInv'
  <1> SUFFICES ASSUME TypeInv, NEW t \in tasks, RetireStep(t) \/ SendStep(t) \/ RemoveStep(t)
               PROVE  TypeInv'
    BY DEF TaskStep
  <1>1. TypeOK /\ t \in Task
    BY DEF TypeInv, TypeOK
  <1>2. Rest(t) \subseteq Task
    BY <1>1, RestFacts
  <1>3. t.pair \in Pairs /\ t.id \in Ids /\ <<t.pair[1], t.pair[2], t.id>> \in Wires
    BY <1>1, PairFacts DEF Task
  <1>4. CASE RetireStep(t)
    <2>1. rows' \subseteq Wires /\ tasks' = Rest(t)
      BY <1>1, <1>4 DEF RetireStep, TypeOK
    <2>2. QED
      BY <1>1, <1>2, <1>4, <2>1 DEF RetireStep, TypeInv, TypeOK, LaneOfOther, bounds
  <1>5. CASE SendStep(t)
    <2>1. rows' \subseteq Wires /\ sent' \subseteq Wires /\ refusals' \in 0..MaxRefusals
      BY <1>1, <1>3, <1>5, BoundsFacts DEF SendStep, Enqueue, Refuse, TypeOK
    <2>2. QED
      BY <1>1, <1>2, <1>5, <2>1 DEF SendStep, TypeInv, TypeOK, LaneOfOther
  <1>6. CASE RemoveStep(t)
    <2>1. status' \in [Pairs -> Status] /\ greeting' \in [Pairs -> RequestIds \cup {NoId}]
      BY <1>1, <1>6 DEF RemoveStep, SetStatus, Status, TypeOK
    <2>2. consent' \subseteq Pairs /\ removed' \subseteq Pairs
      BY <1>1, <1>3, <1>6 DEF RemoveStep, Unwanted, TypeOK
    <2>3. QED
      BY <1>1, <1>2, <1>6, <2>1, <2>2 DEF RemoveStep, TypeInv, TypeOK, LaneOfOther, bounds
  <1>7. QED
    BY <1>4, <1>5, <1>6

LEMMA LaneType ==
    ASSUME TypeInv, NEW n \in Nodes, LaneStep(n)
    PROVE  TypeInv'
  <1>1. TypeOK /\ lane[n].step # "idle"
    BY DEF LaneStep, Reply, Ring, Honour, Settle, TypeInv
  <1> DEFINE p == lane[n].peer
  <1>2. /\ lane[n] \in Job /\ p \in Nodes /\ p # n
        /\ <<n, p>> \in Pairs /\ <<n, p, Accept>> \in Wires /\ <<p, n, lane[n].id>> \in Wires
    BY <1>1, LaneFacts
  <1>3. Finish(n) => lane' \in [Nodes -> Job \cup {Idle}] /\ LaneOfOther'
    BY <1>1 DEF Finish, TypeInv, TypeOK, LaneOfOther
  <1>4. \A s \in Status : SetStatus(<<n, p>>, s) => status' \in [Pairs -> Status]
    BY <1>1, <1>2 DEF SetStatus, TypeOK
  <1>5. CASE Reply(n)
    <2>1. rows' \subseteq Wires /\ sent' \subseteq Wires /\ refusals' \in 0..MaxRefusals
      BY <1>1, <1>2, <1>5, BoundsFacts DEF Reply, Enqueue, Refuse, TypeOK
    <2>2. QED
      BY <1>1, <1>3, <1>5, <2>1 DEF Reply, TypeInv, TypeOK
  <1>6. CASE Ring(n)
    <2>1. status' \in [Pairs -> Status] /\ consent' \subseteq Pairs
      BY <1>1, <1>4, <1>6 DEF Ring, Status, TypeOK
    <2>2. QED
      BY <1>1, <1>3, <1>6, <2>1 DEF Ring, TypeInv, TypeOK, bounds
  <1>7. CASE Honour(n)
    <2>1. status' \in [Pairs -> Status]
      BY <1>1, <1>4, <1>7 DEF Honour, Status
    <2>2. [lane[n] EXCEPT !.step = "settle"] \in Job
      BY <1>2, <1>7 DEF Honour, Job
    <2>3. lane' \in [Nodes -> Job \cup {Idle}]
      BY <1>1, <1>7, <2>2 DEF Honour, TypeOK
    <2>4. lane'[n].peer = p /\ \A m \in Nodes \ {n} : lane'[m] = lane[m]
      BY <1>1, <1>2, <1>7 DEF Honour, TypeOK, Job
    <2>5. LaneOfOther'
      BY <1>2, <2>4 DEF LaneOfOther, TypeInv
    <2>6. QED
      BY <1>1, <1>7, <2>1, <2>3, <2>5 DEF Honour, TypeInv, TypeOK, bounds
  <1>8. CASE Settle(n)
    <2>1. seen' \subseteq Wires /\ acks' \subseteq Wires /\ rows' \subseteq Wires
      BY <1>1, <1>2, <1>8 DEF Settle, TypeOK
    <2>2. QED
      BY <1>1, <1>3, <1>8, <2>1 DEF Settle, TypeInv, TypeOK, bounds
  <1>9. QED
    BY <1>5, <1>6, <1>7, <1>8 DEF LaneStep

LEMMA TakeType ==
    ASSUME TypeInv, NEW w \in Wires, Take(w)
    PROVE  TypeInv'
  <1>1. TypeOK /\ w[1] \in Nodes /\ w[2] \in Nodes /\ w[1] # w[2] /\ w[3] \in Ids
    BY WireFacts DEF TypeInv
  <1>2. ASSUME NEW s, Start(w[2], w, s), [peer |-> w[1], id |-> w[3], step |-> s] \in Job
        PROVE  lane' \in [Nodes -> Job \cup {Idle}] /\ LaneOfOther'
    <2>1. lane' \in [Nodes -> Job \cup {Idle}]
      BY <1>1, <1>2 DEF Start, TypeOK
    <2>2. lane'[w[2]].peer = w[1] /\ \A m \in Nodes \ {w[2]} : lane'[m] = lane[m]
      BY <1>1, <1>2 DEF Start, TypeOK
    <2>3. QED
      BY <1>1, <2>1, <2>2 DEF LaneOfOther, TypeInv
  <1>3. IsRequest(w) => \A s \in {"reply", "ring"} :
                            [peer |-> w[1], id |-> w[3], step |-> s] \in Job
    BY <1>1 DEF IsRequest, Job, Ids
  <1>4. seen \cup Remembered(w) \subseteq Wires
    BY <1>1 DEF Remembered, TypeOK
  <1>5. CASE TakeAccepted(w)
    <2>1. lane' \in [Nodes -> Job \cup {Idle}] /\ LaneOfOther'
      <3>1. CASE w \notin seen /\ IsRequest(w)
        BY <1>2, <1>3, <1>5, <3>1 DEF TakeAccepted
      <3>2. CASE ~(w \notin seen /\ IsRequest(w))
        BY <1>1, <1>5, <3>2 DEF TakeAccepted, TypeInv, TypeOK, LaneOfOther
      <3>3. QED
        BY <3>1, <3>2
    <2>2. acks' \subseteq Wires /\ seen' \subseteq Wires
      BY <1>1, <1>4, <1>5 DEF TakeAccepted, TypeOK
    <2>3. QED
      BY <1>1, <1>5, <2>1, <2>2 DEF TakeAccepted, TypeInv, TypeOK, bounds
  <1>6. CASE TakeRequest(w)
    <2>1. lane' \in [Nodes -> Job \cup {Idle}] /\ LaneOfOther'
      BY <1>2, <1>3, <1>6 DEF TakeRequest
    <2>2. QED
      BY <1>1, <1>4, <1>6, <2>1 DEF TakeRequest, TypeInv, TypeOK, bounds
  <1>7. CASE TakeAccept(w)
    <2>1. [peer |-> w[1], id |-> w[3], step |-> "honour"] \in Job
      BY <1>1, <1>7 DEF TakeAccept, IsRequest, Job
    <2>2. lane' \in [Nodes -> Job \cup {Idle}] /\ LaneOfOther'
      BY <1>2, <1>7, <2>1 DEF TakeAccept
    <2>3. QED
      BY <1>1, <1>7, <2>2 DEF TakeAccept, TypeInv, TypeOK, bounds
  <1>8. QED
    BY <1>5, <1>6, <1>7 DEF Take

LEMMA CrashType ==
    ASSUME TypeInv, NEW n \in Nodes, Crash(n)
    PROVE  TypeInv'
  <1>1. lane' \in [Nodes -> Job \cup {Idle}] /\ LaneOfOther'
    BY DEF Crash, Finish, TypeInv, TypeOK, LaneOfOther
  <1>2. crashes' \in 0..MaxCrashes
    BY BoundsFacts DEF Crash, TypeInv, TypeOK
  <1>3. seen' \subseteq Wires /\ tasks' \subseteq Task
    BY DEF Crash, TypeInv, TypeOK
  <1>4. QED
    BY <1>1, <1>2, <1>3 DEF Crash, TypeInv, TypeOK

LEMMA TypeStep == TypeInv /\ [Next]_vars => TypeInv'
  <1> SUFFICES ASSUME TypeInv, [Next]_vars PROVE TypeInv'
    OBVIOUS
  <1>1. CASE UNCHANGED vars
    BY <1>1 DEF TypeInv, TypeOK, LaneOfOther, vars, bounds
  <1>2. ASSUME NEW w \in Wires, AckArrives(w) \/ RetireOrphan(w) PROVE TypeInv'
    <2>1. rows' \subseteq Wires
      BY <1>2 DEF AckArrives, RetireOrphan, TypeInv, TypeOK
    <2>2. QED
      BY <1>2, <2>1 DEF AckArrives, RetireOrphan, TypeInv, TypeOK, LaneOfOther, bounds
  <1>3. QED
    BY <1>1, <1>2, OwnerType, TaskType, LaneType, TakeType, CrashType DEF Next

\* Every variable of the handshake stays in its set, for any nodes, requests, decisions and
\* bounds; a node's lane never works on a frame of its own.
THEOREM TypeCorrect == Spec => []TypeOK
  <1>1. TypeInv => TypeOK
    BY DEF TypeInv
  <1>2. QED
    BY <1>1, TypeInit, TypeStep, PTL DEF Spec

-----------------------------------------------------------------------------
\* A request pends only for a contact that is wanted.
PendingWanted == \A k \in Pairs : status[k] = "pendingOutgoing" => k \in consent

\* An acceptance that is being honoured was found to answer such a request.
HonourWanted ==
    \A n \in Nodes : lane[n].step = "honour" => <<n, lane[n].peer>> \in consent

ConsentInv == TypeInv /\ ConsentGiven /\ PendingWanted /\ HonourWanted

LEMMA ConsentInit == Init => ConsentInv
  BY TypeInit DEF Init, ConsentInv, ConsentGiven, PendingWanted, HonourWanted, Idle

\* A contact is written and wanted, and no lane changes.
LEMMA WantedKeeps ==
    ASSUME ConsentInv, NEW k \in Pairs, NEW s, SetStatus(k, s), Wanted(k), UNCHANGED lane
    PROVE  ConsentGiven' /\ PendingWanted' /\ HonourWanted'
  BY DEF ConsentInv, TypeInv, TypeOK, SetStatus, Wanted, ConsentGiven, PendingWanted,
     HonourWanted

\* A contact is written and not wanted any more, unless an acceptance is being honoured.
LEMMA UnwantedKeeps ==
    ASSUME ConsentInv, NEW k \in Pairs, NEW s \in {"none", "blocked"}, SetStatus(k, s),
           Unwanted(k), UNCHANGED lane
    PROVE  ConsentGiven' /\ PendingWanted' /\ HonourWanted'
  <1>1. ConsentGiven' /\ PendingWanted'
    BY DEF ConsentInv, TypeInv, TypeOK, SetStatus, Unwanted, ConsentGiven, PendingWanted
  <1>2. ASSUME NEW n \in Nodes, lane[n].step = "honour" PROVE <<n, lane[n].peer>> \in consent'
    <2>1. <<n, lane[n].peer>> \in consent
      BY <1>2 DEF ConsentInv, HonourWanted
    <2>2. CASE <<n, lane[n].peer>> = k
      BY <1>2, <2>1, <2>2 DEF Unwanted
    <2>3. CASE <<n, lane[n].peer>> # k
      BY <2>1, <2>3 DEF Unwanted
    <2>4. QED
      BY <2>2, <2>3
  <1>3. QED
    BY <1>1, <1>2 DEF HonourWanted

\* A step that touches neither statuses nor wishes, and honours nothing new.
LEMMA QuietKeeps ==
    ASSUME ConsentInv, UNCHANGED <<status, consent>>,
           \A n \in Nodes : lane'[n].step = "honour" => lane'[n] = lane[n]
    PROVE  ConsentGiven' /\ PendingWanted' /\ HonourWanted'
  BY DEF ConsentInv, ConsentGiven, PendingWanted, HonourWanted

LEMMA OwnerConsent ==
    ASSUME ConsentInv, OwnerStep
    PROVE  ConsentGiven' /\ PendingWanted' /\ HonourWanted'
  <1> SUFFICES ASSUME NEW k \in Pairs,
                      \/ \E id \in RequestIds, empty \in BOOLEAN : SendRequest(k, id, empty)
                      \/ \E id \in RequestIds : ResendRequest(k, id)
                      \/ AcceptContact(k) \/ BlockContact(k) \/ UnblockContact(k)
                      \/ CancelRequest(k) \/ DeleteConversation(k)
                      \/ MirrorAccepted(k) \/ MirrorBlocked(k)
               PROVE  ConsentGiven' /\ PendingWanted' /\ HonourWanted'
    BY DEF OwnerStep
  <1>1. CASE \/ \E id \in RequestIds, empty \in BOOLEAN : SendRequest(k, id, empty)
             \/ AcceptContact(k) \/ UnblockContact(k) \/ MirrorAccepted(k)
    BY <1>1, WantedKeeps
       DEF SendRequest, AcceptContact, UnblockContact, MirrorAccepted, Decide
  <1>2. CASE BlockContact(k) \/ MirrorBlocked(k)
    BY <1>2, UnwantedKeeps DEF BlockContact, MirrorBlocked, Decide
  <1>3. CASE \/ \E id \in RequestIds : ResendRequest(k, id)
             \/ CancelRequest(k) \/ DeleteConversation(k)
    BY <1>3, QuietKeeps DEF ResendRequest, CancelRequest, DeleteConversation, Decide
  <1>4. QED
    BY <1>1, <1>2, <1>3

LEMMA TaskConsent ==
    ASSUME ConsentInv, TaskStep
    PROVE  ConsentGiven' /\ PendingWanted' /\ HonourWanted'
  <1> SUFFICES ASSUME NEW t \in tasks, RetireStep(t) \/ SendStep(t) \/ RemoveStep(t)
               PROVE  ConsentGiven' /\ PendingWanted' /\ HonourWanted'
    BY DEF TaskStep
  <1>1. CASE RetireStep(t) \/ SendStep(t)
    BY <1>1, QuietKeeps DEF RetireStep, SendStep
  <1>2. CASE RemoveStep(t)
    <2>1. t.pair \in Pairs
      BY DEF ConsentInv, TypeInv, TypeOK, Task
    <2>2. QED
      BY <1>2, <2>1, UnwantedKeeps DEF RemoveStep
  <1>3. QED
    BY <1>1, <1>2

LEMMA LaneConsent ==
    ASSUME ConsentInv, NEW n \in Nodes, LaneStep(n)
    PROVE  ConsentGiven' /\ PendingWanted' /\ HonourWanted'
  <1>1. TypeOK /\ lane[n].step # "idle" /\ TypeInv
    BY DEF LaneStep, Reply, Ring, Honour, Settle, ConsentInv, TypeInv
  <1> DEFINE k == <<n, lane[n].peer>>
  <1>2. k \in Pairs /\ k[1] = n
    BY <1>1, LaneFacts
  <1>3. Finish(n) => \A m \in Nodes : lane'[m].step = "honour" => lane'[m] = lane[m] /\ m # n
    BY <1>1 DEF Finish, Idle, TypeOK
  <1>4. CASE Reply(n) \/ Settle(n)
    BY <1>3, <1>4, QuietKeeps DEF Reply, Settle
  <1>5. CASE Ring(n)
    <2>1. /\ consent' = consent \ {k}
          /\ status' = [status EXCEPT ![k] = "pendingIncoming"]
      BY <1>5 DEF Ring, SetStatus
    <2>2. ConsentGiven' /\ PendingWanted'
      BY <1>1, <1>2, <2>1 DEF ConsentInv, ConsentGiven, PendingWanted, TypeOK
    <2>3. ASSUME NEW m \in Nodes, lane'[m].step = "honour"
          PROVE  <<m, lane'[m].peer>> \in consent'
      <3>1. lane'[m] = lane[m] /\ m # n
        BY <1>3, <1>5, <2>3 DEF Ring
      <3>2. <<m, lane[m].peer>> \in consent
        BY <2>3, <3>1 DEF ConsentInv, HonourWanted
      <3>3. QED
        BY <2>1, <3>1, <3>2
    <2>4. QED
      BY <2>2, <2>3 DEF HonourWanted
  <1>6. CASE Honour(n)
    <2>1. k \in consent
      BY <1>6 DEF Honour, ConsentInv, HonourWanted
    <2>2. status' = [status EXCEPT ![k] = "accepted"] /\ consent' = consent
      BY <1>6 DEF Honour, SetStatus
    <2>3. ConsentGiven' /\ PendingWanted'
      BY <1>1, <1>2, <2>1, <2>2 DEF ConsentInv, ConsentGiven, PendingWanted, TypeOK
    <2>4. lane[n] \in Job
      BY <1>1, LaneFacts
    <2>5. \A m \in Nodes : lane'[m].step = "honour" => lane'[m] = lane[m]
      <3>1. lane'[n].step = "settle"
        BY <1>1, <1>6, <2>4 DEF Honour, TypeOK, Job
      <3>2. \A m \in Nodes \ {n} : lane'[m] = lane[m]
        BY <1>1, <1>6 DEF Honour, TypeOK
      <3>3. QED
        BY <3>1, <3>2
    <2>6. HonourWanted'
      BY <2>2, <2>5 DEF ConsentInv, HonourWanted
    <2>7. QED
      BY <2>3, <2>6
  <1>7. QED
    BY <1>4, <1>5, <1>6 DEF LaneStep

LEMMA TakeConsent ==
    ASSUME ConsentInv, NEW w \in Wires, Take(w)
    PROVE  ConsentGiven' /\ PendingWanted' /\ HonourWanted'
  <1>1. TypeOK /\ w[2] \in Nodes /\ <<w[2], w[1]>> \in Pairs
    BY WireFacts DEF ConsentInv, TypeInv
  <1>2. ASSUME NEW s, Start(w[2], w, s)
        PROVE  /\ lane'[w[2]].peer = w[1] /\ lane'[w[2]].step = s
               /\ \A m \in Nodes \ {w[2]} : lane'[m] = lane[m]
    BY <1>1, <1>2 DEF Start, TypeOK
  <1>3. CASE TakeAccepted(w) \/ TakeRequest(w)
    <2>1. \A n \in Nodes : lane'[n].step = "honour" => lane'[n] = lane[n]
      <3>1. Start(w[2], w, "reply") \/ Start(w[2], w, "ring") \/ UNCHANGED lane
        BY <1>3 DEF TakeAccepted, TakeRequest
      <3>2. QED
        BY <1>2, <3>1
    <2>2. QED
      BY <1>3, <2>1, QuietKeeps DEF TakeAccepted, TakeRequest
  <1>4. CASE TakeAccept(w)
    <2>1. <<w[2], w[1]>> \in consent
      BY <1>1, <1>4 DEF TakeAccept, Asked, Found, ConsentInv, PendingWanted
    <2>2. UNCHANGED <<status, consent>>
      BY <1>4 DEF TakeAccept
    <2>3. HonourWanted'
      BY <1>2, <1>4, <2>1, <2>2 DEF TakeAccept, ConsentInv, HonourWanted
    <2>4. QED
      BY <2>2, <2>3 DEF ConsentInv, ConsentGiven, PendingWanted
  <1>5. QED
    BY <1>3, <1>4 DEF Take

LEMMA ConsentStep == ConsentInv /\ [Next]_vars => ConsentInv'
  <1> SUFFICES ASSUME ConsentInv, [Next]_vars PROVE ConsentInv'
    OBVIOUS
  <1>1. TypeInv'
    BY TypeStep DEF ConsentInv
  <1>2. CASE UNCHANGED vars
    BY <1>1, <1>2, QuietKeeps DEF vars, ConsentInv
  <1>3. ASSUME NEW w \in Wires, AckArrives(w) \/ RetireOrphan(w) PROVE ConsentInv'
    BY <1>1, <1>3, QuietKeeps DEF AckArrives, RetireOrphan, ConsentInv
  <1>4. ASSUME NEW n \in Nodes, Crash(n) PROVE ConsentInv'
    <2>1. \A m \in Nodes : lane'[m].step = "honour" => lane'[m] = lane[m]
      BY <1>4 DEF Crash, Finish, Idle, ConsentInv, TypeInv, TypeOK
    <2>2. QED
      BY <1>1, <1>4, <2>1, QuietKeeps DEF Crash, ConsentInv
  <1>5. QED
    BY <1>1, <1>2, <1>3, <1>4, OwnerConsent, TaskConsent, LaneConsent, TakeConsent
       DEF Next, ConsentInv

\* However late, often or out of order the frames of a handshake arrive, a contact is accepted
\* only if its owner wants it: it was asked, accepted or unblocked and not since given up
\* (the accept arm of _dispatch, setStatus, removeConversation).
THEOREM ConsentHolds == Spec => []ConsentGiven
  <1>1. ConsentInv => ConsentGiven
    BY DEF ConsentInv
  <1>2. QED
    BY <1>1, ConsentInit, ConsentStep, PTL DEF Spec

-----------------------------------------------------------------------------
\* A request remembered by the durable gate is answered or about to be, whatever became of the
\* contact since, short of its removal.
Answered(w) ==
    IsRequest(w) /\ Steady(<<w[1], w[2]>>) =>
        Answering(<<w[2], w[1]>>) /\ status[<<w[2], w[1]>>] # "none"
AllAnswered == refusals = 0 => \A w \in seen : Answered(w)

AnswerInv == TypeInv /\ AllAnswered

\* What was remembered stays answered if its acceptance is neither lost nor given up.
LEMMA AnswerStays ==
    ASSUME NEW w \in Wires, Answered(w),
           removed \subseteq removed', acks \subseteq acks',
           status'[<<w[2], w[1]>>] = "none" =>
               status[<<w[2], w[1]>>] = "none" \/ <<w[2], w[1]>> \in removed',
           <<w[2], w[1], Accept>> \in rows =>
               \/ <<w[2], w[1], Accept>> \in rows' \cup acks'
               \/ status[<<w[2], w[1]>>] = "none",
           lane[w[2]].step = "reply" =>
               lane'[w[2]] = lane[w[2]] \/ <<w[2], lane[w[2]].peer, Accept>> \in rows'
    PROVE  Answered(w)'
  <1> DEFINE k == <<w[2], w[1]>>
  <1> SUFFICES ASSUME IsRequest(w), Steady(<<w[1], w[2]>>)'
               PROVE  Answering(k)' /\ status'[k] # "none"
    BY DEF Answered, IsRequest
  <1>1. k \notin removed' /\ <<w[2], w[1], Accept>> \notin acks' /\ Steady(<<w[1], w[2]>>)
    BY DEF Steady
  <1>2. Answering(k) /\ status[k] # "none"
    BY <1>1 DEF Answered
  <1>3. status'[k] # "none"
    BY <1>1, <1>2
  <1>4. Answering(k)'
    BY <1>1, <1>2 DEF Answering
  <1>5. QED
    BY <1>3, <1>4

\* No request is remembered anew.
LEMMA AnswersStay ==
    ASSUME AnswerInv, TypeInv', refusals' = 0 => refusals = 0,
           \A w \in seen' : IsRequest(w) => w \in seen,
           removed \subseteq removed', acks \subseteq acks',
           \A k \in Pairs : status'[k] = "none" => status[k] = "none" \/ k \in removed',
           \A w \in rows : w \in rows' \cup acks' \/ IsRequest(w) \/ status[<<w[1], w[2]>>] = "none",
           \A w \in seen' : lane[w[2]].step = "reply" =>
               \/ lane'[w[2]] = lane[w[2]]
               \/ <<w[2], lane[w[2]].peer, Accept>> \in rows'
               \/ refusals' # 0
    PROVE  AnswerInv'
  <1> SUFFICES ASSUME refusals' = 0, NEW w \in seen', IsRequest(w) PROVE Answered(w)'
    BY DEF AnswerInv, AllAnswered, Answered, IsRequest
  <1>1. w \in Wires /\ w \in seen /\ Answered(w)
    BY DEF AnswerInv, AllAnswered, TypeInv, TypeOK
  <1>2. <<w[2], w[1]>> \in Pairs /\ ~IsRequest(<<w[2], w[1], Accept>>)
    BY <1>1, WireFacts DEF IsRequest
  <1>3. <<w[2], w[1], Accept>> \in rows =>
           \/ <<w[2], w[1], Accept>> \in rows' \cup acks'
           \/ status[<<w[2], w[1]>>] = "none"
    BY <1>2
  <1>4. QED
    BY <1>1, <1>2, <1>3, AnswerStays

LEMMA RequestsFacts ==
    ASSUME NEW k, NEW w \in Requests(k)
    PROVE  IsRequest(w)
  <1>1. PICK i \in RequestIds : w = <<k[1], k[2], i>>
    BY DEF Requests
  <1>2. w[3] = i
    BY <1>1
  <1>3. QED
    BY <1>2, ContactsAssumption DEF IsRequest

LEMMA OwnerAnswers ==
    ASSUME AnswerInv, TypeInv', OwnerStep
    PROVE  AnswerInv'
  <1> SUFFICES ASSUME NEW k \in Pairs,
                      \/ \E id \in RequestIds, empty \in BOOLEAN : SendRequest(k, id, empty)
                      \/ \E id \in RequestIds : ResendRequest(k, id)
                      \/ AcceptContact(k) \/ BlockContact(k) \/ UnblockContact(k)
                      \/ CancelRequest(k) \/ DeleteConversation(k)
                      \/ MirrorAccepted(k) \/ MirrorBlocked(k)
               PROVE  AnswerInv'
    BY DEF OwnerStep
  <1>1. UNCHANGED <<rows, seen, lane, acks, removed, refusals>>
    BY DEF SendRequest, ResendRequest, AcceptContact, BlockContact, UnblockContact,
       CancelRequest, DeleteConversation, MirrorAccepted, MirrorBlocked, Decide
  <1>2. \A l \in Pairs : status'[l] = "none" => status[l] = "none"
    BY DEF SendRequest, ResendRequest, AcceptContact, BlockContact, UnblockContact,
       CancelRequest, DeleteConversation, MirrorAccepted, MirrorBlocked, SetStatus,
       AnswerInv, TypeInv, TypeOK
  <1>3. QED
    BY <1>1, <1>2, AnswersStay

LEMMA TaskAnswers ==
    ASSUME AnswerInv, TypeInv', TaskStep
    PROVE  AnswerInv'
  <1> SUFFICES ASSUME NEW t \in tasks, RetireStep(t) \/ SendStep(t) \/ RemoveStep(t)
               PROVE  AnswerInv'
    BY DEF TaskStep
  <1>1. t.pair \in Pairs /\ refusals \in Nat /\ status \in [Pairs -> Status]
    BY BoundsFacts DEF AnswerInv, TypeInv, TypeOK, Task
  <1>2. CASE RetireStep(t)
    <2>1. \A w \in rows : w \in rows' \/ IsRequest(w)
      BY <1>2, RequestsFacts DEF RetireStep
    <2>2. QED
      BY <1>2, <2>1, AnswersStay DEF RetireStep, bounds
  <1>3. CASE SendStep(t)
    <2>1. rows \subseteq rows' /\ (refusals' = 0 => refusals = 0)
      BY <1>1, <1>3 DEF SendStep, Enqueue, Refuse
    <2>2. QED
      BY <1>3, <2>1, AnswersStay DEF SendStep
  <1>4. CASE RemoveStep(t)
    <2>1. \A l \in Pairs : status'[l] = "none" => status[l] = "none" \/ l \in removed'
      BY <1>1, <1>4 DEF RemoveStep, SetStatus
    <2>2. QED
      BY <1>4, <2>1, AnswersStay DEF RemoveStep, bounds
  <1>5. QED
    BY <1>2, <1>3, <1>4

LEMMA LaneAnswers ==
    ASSUME AnswerInv, TypeInv', NEW n \in Nodes, LaneStep(n)
    PROVE  AnswerInv'
  <1>1. /\ TypeInv /\ lane[n].step # "idle" /\ refusals \in Nat
        /\ lane \in [Nodes -> Job \cup {Idle}] /\ status \in [Pairs -> Status]
    BY BoundsFacts DEF LaneStep, Reply, Ring, Honour, Settle, AnswerInv, TypeInv, TypeOK
  <1>2. lane[n] \in Job /\ <<n, lane[n].peer>> \in Pairs
    BY <1>1, LaneFacts
  <1>3. \A w \in seen : w[2] \in Nodes
    BY WireFacts DEF AnswerInv, TypeInv, TypeOK
  <1>4. \A m \in Nodes \ {n} : lane'[m] = lane[m]
    BY <1>1 DEF LaneStep, Reply, Ring, Honour, Settle, Finish
  <1>5. CASE Reply(n)
    <2>1. rows \subseteq rows' /\ (refusals' = 0 => refusals = 0)
      BY <1>1, <1>5 DEF Reply, Enqueue, Refuse
    <2>2. <<n, lane[n].peer, Accept>> \in rows' \/ refusals' # 0
      BY <1>1, <1>5 DEF Reply, Enqueue, Refuse
    <2>3. UNCHANGED <<status, seen, acks, removed>>
      BY <1>5 DEF Reply
    <2>4. QED
      BY <1>3, <1>4, <2>1, <2>2, <2>3, AnswersStay
  <1>6. CASE Ring(n) \/ Honour(n)
    <2>1. UNCHANGED <<rows, seen, acks, removed, refusals>> /\ lane[n].step # "reply"
      BY <1>6 DEF Ring, Honour, bounds
    <2>2. \A l \in Pairs : status'[l] = "none" => status[l] = "none"
      BY <1>1, <1>6 DEF Ring, Honour, SetStatus
    <2>3. QED
      BY <1>3, <1>4, <2>1, <2>2, AnswersStay
  <1>7. CASE Settle(n)
    <2>1. lane[n].id = Accept /\ lane[n].step # "reply"
      BY <1>2, <1>7 DEF Settle, Job
    <2>2. UNCHANGED <<status, removed, refusals>> /\ acks \subseteq acks'
      BY <1>7 DEF Settle, bounds
    <2>3. \A w \in seen' : w \in seen \/ ~IsRequest(w)
      BY <1>7, <2>1 DEF Settle, IsRequest
    <2>4. \A w \in rows : w \in rows' \/ IsRequest(w)
      BY <1>7, RequestsFacts DEF Settle
    <2>5. \A w \in seen' : lane[w[2]].step = "reply" => lane'[w[2]] = lane[w[2]]
      <3>1. seen' \subseteq Wires
        BY DEF TypeInv, TypeOK
      <3>2. QED
        BY <1>4, <2>1, <3>1, WireFacts
    <2>6. QED
      BY <2>2, <2>3, <2>4, <2>5, AnswersStay
  <1>8. QED
    BY <1>5, <1>6, <1>7 DEF LaneStep

\* A request remembered now is being answered.
LEMMA TakeAnswers ==
    ASSUME AnswerInv, TypeInv', NEW w \in Wires, Take(w)
    PROVE  AnswerInv'
  <1>1. /\ lane \in [Nodes -> Job \cup {Idle}] /\ lane[w[2]] = Idle /\ w[2] \in Nodes
        /\ w[3] \in Ids /\ refusals' = refusals /\ UNCHANGED <<status, rows, removed>>
        /\ acks \subseteq acks'
    BY WireFacts DEF AnswerInv, TypeInv, TypeOK, Take, TakeAccepted, TakeRequest, TakeAccept,
       bounds
  <1>2. \A v \in seen : lane[v[2]].step = "reply" => lane'[v[2]] = lane[v[2]]
    <2>1. \A m \in Nodes \ {w[2]} : lane'[m] = lane[m]
      BY <1>1 DEF Take, TakeAccepted, TakeRequest, TakeAccept, Start
    <2>2. lane[w[2]].step # "reply"
      BY <1>1 DEF Idle
    <2>3. \A v \in seen : v[2] \in Nodes
      BY WireFacts DEF AnswerInv, TypeInv, TypeOK
    <2>4. QED
      BY <2>1, <2>2, <2>3
  <1>3. CASE w \notin seen /\ IsRequest(w) /\ TakeAccepted(w)
    <2>1. lane'[w[2]] = [peer |-> w[1], id |-> w[3], step |-> "reply"]
      BY <1>1, <1>3 DEF TakeAccepted, Start
    <2>2. Answering(<<w[2], w[1]>>)' /\ status'[<<w[2], w[1]>>] # "none"
      BY <1>1, <1>3, <2>1 DEF Answering, TakeAccepted, Found
    <2>3. Answered(w)'
      BY <2>2 DEF Answered
    <2>4. \A v \in seen : Answered(v) => Answered(v)'
      <3>1. \A v \in seen : v \in Wires
        BY DEF AnswerInv, TypeInv, TypeOK
      <3>2. QED
        BY <1>1, <1>2, <3>1, AnswerStays
    <2>5. seen' = seen \cup {w}
      BY <1>3 DEF TakeAccepted, Remembered
    <2>6. QED
      BY <1>1, <2>3, <2>4, <2>5 DEF AnswerInv, AllAnswered
  <1>4. CASE ~(w \notin seen /\ IsRequest(w) /\ TakeAccepted(w))
    <2>1. \A v \in seen' : v \in seen \/ (v = w /\ ~IsRequest(w))
      BY <1>4 DEF Take, TakeAccepted, TakeRequest, TakeAccept, Remembered
    <2>2. \A v \in seen' : lane[v[2]].step = "reply" => lane'[v[2]] = lane[v[2]]
      BY <1>1, <1>2, <2>1 DEF Idle
    <2>3. QED
      BY <1>1, <2>1, <2>2, AnswersStay
  <1>5. QED
    BY <1>3, <1>4

LEMMA AnswerStep == AnswerInv /\ [Next]_vars => AnswerInv'
  <1> SUFFICES ASSUME AnswerInv, [Next]_vars PROVE AnswerInv'
    OBVIOUS
  <1>1. TypeInv' /\ refusals \in Nat
    BY TypeStep, BoundsFacts DEF AnswerInv, TypeInv, TypeOK
  <1>2. CASE UNCHANGED vars
    BY <1>1, <1>2, AnswersStay DEF vars, bounds
  <1>3. ASSUME NEW w \in Wires, AckArrives(w) \/ RetireOrphan(w) PROVE AnswerInv'
    <2>1. UNCHANGED <<status, seen, lane, acks, removed, refusals>>
      BY <1>3 DEF AckArrives, RetireOrphan, bounds
    <2>2. \A v \in rows : v \in rows' \cup acks' \/ status[<<v[1], v[2]>>] = "none"
      BY <1>3 DEF AckArrives, RetireOrphan
    <2>3. QED
      BY <1>1, <2>1, <2>2, AnswersStay
  <1>4. ASSUME NEW n \in Nodes, Crash(n) PROVE AnswerInv'
    <2>1. UNCHANGED <<status, rows, acks, removed, refusals>> /\ seen' \subseteq seen
      BY <1>4 DEF Crash
    <2>2. \A w \in seen' : lane'[w[2]] = lane[w[2]]
      BY <1>4, WireFacts DEF Crash, Finish, AnswerInv, TypeInv, TypeOK
    <2>3. QED
      BY <1>1, <2>1, <2>2, AnswersStay
  <1>5. QED
    BY <1>1, <1>2, <1>3, <1>4, OwnerAnswers, TaskAnswers, LaneAnswers, TakeAnswers DEF Next

\* A request that was remembered, and so will be dropped whenever it comes again, is answered:
\* the acceptance is stored or about to be, through any crash, as long as storage refuses no row
\* (the durable gate, handleRequestOrReconnect).
THEOREM AnswerStands == Spec => []AnswerIsOwed
  <1>1. Init => AnswerInv
    BY TypeInit DEF Init, AnswerInv, AllAnswered
  <1>2. AnswerInv => AnswerIsOwed
    BY DEF AnswerInv, AllAnswered, Answered, AnswerIsOwed
  <1>3. QED
    BY <1>1, <1>2, AnswerStep, PTL DEF Spec
=============================================================================
