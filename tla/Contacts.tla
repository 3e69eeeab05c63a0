------------------------------ MODULE Contacts ------------------------------
(***************************************************************************)
(* Contact consent between two nodes: _MessagingContacts in                *)
(* lib/state/messaging_contacts.dart and the request, accept and ack arms  *)
(* of lib/state/messaging_inbound_dispatch.dart, on every node at once.    *)
(*                                                                         *)
(* A pair <<n, p>> is the view node n has of p, and a wire <<n, p, id>> a  *)
(* handshake frame n sends to p.  Inbound frames of a node are handled one *)
(* at a time (_inboundChain), but a handler awaits storage between reading *)
(* the contact and writing it, and decisions of the owner and mirrored     *)
(* ones from the owner's other devices run in between.  A row of the       *)
(* outbox is sent again and again until it is retired, as Outbox models.   *)
(* The network is the set of all wires, and the set of all                 *)
(* acknowledgements, ever sent: each may arrive late, often or never.      *)
(***************************************************************************)
EXTENDS Naturals, Sequences, FiniteSets

CONSTANTS
    Nodes,        \* identities
    RequestIds,   \* the uuids of request:<uuid> frames
    Accept,       \* the id accept:<peer>, the same for every acceptance of a peer
    NoNode, NoId,
    Decisions,    \* what owners may do in a run
    MaxDecisions, \* bound: decisions of owners
    MaxCrashes,   \* bound: crashes
    MaxRefusals   \* bound: rows that storage refuses to write

Pairs  == {k \in Nodes \X Nodes : k[1] # k[2]}
Ids    == RequestIds \cup {Accept}
Wires  == {w \in Nodes \X Nodes \X Ids : w[1] # w[2]}
Status == {"none", "pendingOutgoing", "pendingIncoming", "accepted", "blocked"}

ASSUME ContactsAssumption ==
    /\ IsFiniteSet(Nodes) /\ IsFiniteSet(RequestIds)
    /\ NoNode \notin Nodes /\ Accept \notin RequestIds /\ NoId \notin Ids
    /\ Decisions \subseteq {"request", "resend", "accept", "block", "unblock", "cancel",
                            "delete", "mirror accepted", "mirror blocked"}
    /\ MaxDecisions \in Nat /\ MaxCrashes \in Nat /\ MaxRefusals \in Nat

VARIABLES
    status,    \* the stored status of each contact; "none" if there is no record
    greeting,  \* id of the first outgoing message of a conversation that is not accepted
    rows,      \* stored outbox rows
    seen,      \* _seenFrames of the recipient of each wire
    lane,      \* what is left of the inbound handler of each node
    tasks,     \* what is left of the owner's calls
    sent,      \* wires ever handed to the network
    acks,      \* wires ever acknowledged by their recipient
    used,      \* uuids taken
    consent,   \* history: pairs whose first node wants the contact
    removed,   \* history: pairs whose first node has removed the contact once
    decisions, crashes, refusals   \* numbers of each so far

bounds == <<decisions, crashes, refusals>>
vars == <<status, greeting, rows, seen, lane, tasks, sent, acks, used, consent, removed,
          bounds>>

\* A handler awaiting storage: the frame it handles and the step it comes to next.
Idle == [peer |-> NoNode, id |-> Accept, step |-> "idle"]
Job  == [peer : Nodes, id : RequestIds, step : {"reply", "ring"}]
        \cup [peer : Nodes, id : {Accept}, step : {"honour", "settle"}]

\* A call of the owner awaiting storage: the storage steps to go, "send" being of frame id.
Todo == Seq({"retire", "send", "remove"})
Task == [pair : Pairs, id : Ids, todo : Todo \ {<<>>}]

Init ==
    /\ status = [k \in Pairs |-> "none"] /\ greeting = [k \in Pairs |-> NoId]
    /\ rows = {} /\ seen = {} /\ lane = [n \in Nodes |-> Idle] /\ tasks = {}
    /\ sent = {} /\ acks = {} /\ used = {} /\ consent = {}
    /\ removed = {}
    /\ decisions = 0 /\ crashes = 0 /\ refusals = 0

-----------------------------------------------------------------------------
(* Decisions of an owner, and the storage steps they continue with.        *)

\* setStatus up to and including its write.
SetStatus(k, s) == status' = [status EXCEPT ![k] = s]

Decide(k, name) ==
    /\ name \in Decisions /\ decisions < MaxDecisions /\ decisions' = decisions + 1
    /\ UNCHANGED <<rows, seen, lane, acks, removed, crashes, refusals>>

Continue(k, id, todo) == tasks' = tasks \cup {[pair |-> k, id |-> id, todo |-> todo]}

\* The owner wants the contact; or no longer, unless an acceptance is just being honoured:
\* the handler has read a pending request and writes over the decision.
Wanted(k) == consent' = consent \cup {k}
Unwanted(k) ==
    consent' = IF lane[k[1]].step = "honour" /\ lane[k[1]].peer = k[2]
               THEN consent ELSE consent \ {k}

\* sendRequest; the greeting may be empty, and then is not stored.
SendRequest(k, id, empty) ==
    /\ Decide(k, "request") /\ id \notin used
    /\ used' = used \cup {id}
    /\ SetStatus(k, "pendingOutgoing")
    /\ greeting' = IF empty \/ greeting[k] # NoId THEN greeting
                   ELSE [greeting EXCEPT ![k] = id]
    /\ Continue(k, id, <<"send">>) /\ Wanted(k) /\ UNCHANGED sent

\* resendRequest: under the id of the stored row, else of the greeting, else under a new one.
ResendRequest(k, id) ==
    /\ Decide(k, "resend") /\ status[k] = "pendingOutgoing"
    /\ LET stored == {i \in RequestIds : <<k[1], k[2], i>> \in rows} IN
       id \in IF stored # {} THEN stored
              ELSE IF greeting[k] # NoId THEN {greeting[k]} ELSE RequestIds \ used
    /\ used' = used \cup {id}
    /\ Continue(k, id, <<"send">>)
    /\ UNCHANGED <<status, greeting, sent, consent>>

AcceptContact(k) ==
    /\ Decide(k, "accept")
    /\ SetStatus(k, "accepted")
    /\ Continue(k, Accept, <<"retire", "send">>) /\ Wanted(k)
    /\ UNCHANGED <<greeting, sent, used>>

BlockContact(k) ==
    /\ Decide(k, "block")
    /\ SetStatus(k, "blocked") /\ Unwanted(k)
    /\ UNCHANGED <<greeting, tasks, sent, used>>

UnblockContact(k) ==
    /\ Decide(k, "unblock") /\ status[k] = "blocked"
    /\ SetStatus(k, "accepted")
    /\ Continue(k, Accept, <<"retire">>) /\ Wanted(k)
    /\ UNCHANGED <<greeting, sent, used>>

CancelRequest(k) ==
    /\ Decide(k, "cancel")
    /\ Continue(k, Accept, <<"retire", "remove">>)
    /\ UNCHANGED <<status, greeting, sent, used, consent>>

\* deleteConversation removes the conversation and the contact; its outbox rows stay.
DeleteConversation(k) ==
    /\ Decide(k, "delete") /\ status[k] # "none"
    /\ Continue(k, Accept, <<"remove">>)
    /\ UNCHANGED <<status, greeting, sent, used, consent>>

\* applyMirroredContactStatus of a decision made on another device of the owner, which sent
\* the acceptance itself.
MirrorAccepted(k) ==
    /\ Decide(k, "mirror accepted") /\ status[k] # "accepted"
    /\ SetStatus(k, "accepted")
    /\ Continue(k, Accept, <<"retire">>) /\ Wanted(k)
    /\ sent' = sent \cup {<<k[1], k[2], Accept>>}
    /\ UNCHANGED <<greeting, used>>

MirrorBlocked(k) ==
    /\ Decide(k, "mirror blocked") /\ status[k] # "blocked"
    /\ SetStatus(k, "blocked") /\ Unwanted(k)
    /\ UNCHANGED <<greeting, tasks, sent, used>>

Requests(k) == {<<k[1], k[2], i>> : i \in RequestIds}
Rest(t) ==
    IF Len(t.todo) = 1 THEN tasks \ {t}
    ELSE (tasks \ {t}) \cup {[t EXCEPT !.todo = Tail(@)]}

\* retireRequests
RetireStep(t) ==
    /\ t \in tasks /\ Head(t.todo) = "retire"
    /\ rows' = rows \ Requests(t.pair) /\ tasks' = Rest(t)
    /\ UNCHANGED <<status, greeting, seen, lane, sent, acks, used, consent, removed,
                   bounds>>

\* Mutant: a frame is sent and not stored.
LiveOnly(w) == sent' = sent \cup {w} /\ UNCHANGED rows

\* Storing a row and handing its first copies to the network; a row that exists stays.
Enqueue(w) == rows' = rows \cup {w} /\ sent' = sent \cup {w}
Refuse == refusals < MaxRefusals /\ refusals' = refusals + 1 /\ UNCHANGED <<rows, sent>>

SendStep(t) ==
    /\ t \in tasks /\ Head(t.todo) = "send"
    /\ \/ Enqueue(<<t.pair[1], t.pair[2], t.id>>) /\ UNCHANGED refusals
       \/ Refuse
    /\ tasks' = Rest(t)
    /\ UNCHANGED <<status, greeting, seen, lane, acks, used, consent, removed,
                   decisions, crashes>>

\* removeConversation
RemoveStep(t) ==
    /\ t \in tasks /\ Head(t.todo) = "remove"
    /\ SetStatus(t.pair, "none") /\ greeting' = [greeting EXCEPT ![t.pair] = NoId]
    /\ Unwanted(t.pair) /\ removed' = removed \cup {t.pair} /\ tasks' = Rest(t)
    /\ UNCHANGED <<rows, seen, lane, sent, acks, used, bounds>>

-----------------------------------------------------------------------------
(* The inbound lane.                                                       *)

Start(n, w, step) == lane' = [lane EXCEPT ![n] = [peer |-> w[1], id |-> w[3], step |-> step]]
Finish(n) == lane' = [lane EXCEPT ![n] = Idle]

\* What the dispatch finds when it reads the contact of the sender of w.
Found(w) == status[<<w[2], w[1]>>]

\* Mutant: every frame of an accepted contact is answered like a request.
AnyFrame(w) == TRUE

IsRequest(w) == w[3] # Accept

\* Mutant: frames are remembered before there is consent.
RememberAny(w) == {w}

\* Only frames of an accepted contact pass the durable gate and are remembered there.
Remembered(w) == IF Found(w) = "accepted" THEN {w} ELSE {}

\* The durable gate: a frame of an accepted contact is acknowledged whether or not it was seen,
\* and a request seen for the first time is answered with the acceptance, once more.
TakeAccepted(w) ==
    /\ w \in sent /\ lane[w[2]] = Idle /\ Found(w) = "accepted"
    /\ acks' = acks \cup {w} /\ seen' = seen \cup Remembered(w)
    /\ IF w \notin seen /\ IsRequest(w) THEN Start(w[2], w, "reply") ELSE UNCHANGED lane
    /\ UNCHANGED <<status, greeting, rows, tasks, sent, used, consent, removed,
                   bounds>>

\* A request from anyone else rings, unless it rang already or its sender is blocked.
TakeRequest(w) ==
    /\ w \in sent /\ lane[w[2]] = Idle /\ IsRequest(w)
    /\ Found(w) \in {"none", "pendingOutgoing"}
    /\ Start(w[2], w, "ring") /\ seen' = seen \cup Remembered(w)
    /\ UNCHANGED <<status, greeting, rows, tasks, sent, acks, used, consent, removed,
                   bounds>>

\* Mutant: an acceptance is honoured by whoever has not decided otherwise.
Undecided(w) == Found(w) \in {"none", "pendingIncoming", "pendingOutgoing"}

\* An acceptance is honoured only for a request that is pending.
Asked(w) == Found(w) = "pendingOutgoing"

TakeAccept(w) ==
    /\ w \in sent /\ lane[w[2]] = Idle /\ ~IsRequest(w) /\ Asked(w)
    /\ Start(w[2], w, "honour")
    /\ UNCHANGED <<status, greeting, rows, seen, tasks, sent, acks, used, consent, removed,
                   bounds>>

\* handleRequestOrReconnect for a contact read as accepted.
Reply(n) ==
    /\ lane[n].step = "reply" /\ Finish(n)
    /\ \/ Enqueue(<<n, lane[n].peer, Accept>>) /\ UNCHANGED refusals
       \/ Refuse
    /\ UNCHANGED <<status, greeting, seen, tasks, acks, used, consent, removed,
                   decisions, crashes>>

\* handleRequestOrReconnect for a contact read as unknown, or as asked by us.
Ring(n) ==
    /\ lane[n].step = "ring" /\ Finish(n)
    /\ SetStatus(<<n, lane[n].peer>>, "pendingIncoming")
    /\ consent' = consent \ {<<n, lane[n].peer>>}
    /\ UNCHANGED <<greeting, rows, seen, tasks, sent, acks, used, removed, bounds>>

\* The accept arm: the status first, then the requests are retired, and the frame is settled.
Honour(n) ==
    /\ lane[n].step = "honour" /\ lane' = [lane EXCEPT ![n].step = "settle"]
    /\ SetStatus(<<n, lane[n].peer>>, "accepted")
    /\ UNCHANGED <<greeting, rows, seen, tasks, sent, acks, used, consent, removed,
                   bounds>>

Settle(n) ==
    /\ lane[n].step = "settle" /\ Finish(n)
    /\ LET w == <<lane[n].peer, n, lane[n].id>> IN
       seen' = seen \cup {w} /\ acks' = acks \cup {w}
    /\ rows' = rows \ Requests(<<n, lane[n].peer>>)
    /\ UNCHANGED <<status, greeting, tasks, sent, used, consent, removed,
                   bounds>>

\* The ack arm: only a contact's acknowledgement retires a row.
AckArrives(w) ==
    /\ w \in acks \cap rows /\ lane[w[1]] = Idle
    /\ status[<<w[1], w[2]>>] = "accepted"
    /\ rows' = rows \ {w}
    /\ UNCHANGED <<status, greeting, seen, lane, tasks, sent, acks, used, consent, removed,
                   bounds>>

-----------------------------------------------------------------------------
(* The flush pass, and crashes.                                            *)

\* A row whose contact is gone is retired; other rows are sent again unless the contact is
\* blocked, and what was sent once is in the network for good.
RetireOrphan(w) ==
    /\ w \in rows /\ status[<<w[1], w[2]>>] = "none"
    /\ rows' = rows \ {w}
    /\ UNCHANGED <<status, greeting, seen, lane, tasks, sent, acks, used, consent, removed,
                   bounds>>

Resent(w) == w \in rows /\ status[<<w[1], w[2]>>] \notin {"none", "blocked"}

Crash(n) ==
    /\ crashes < MaxCrashes /\ crashes' = crashes + 1
    /\ seen' = {w \in seen : w[2] # n}
    /\ Finish(n) /\ tasks' = {t \in tasks : t.pair[1] # n}
    /\ UNCHANGED <<status, greeting, rows, sent, acks, used, consent, removed,
                   decisions, refusals>>

-----------------------------------------------------------------------------
OwnerStep ==
    \E k \in Pairs :
        \/ \E id \in RequestIds, empty \in BOOLEAN : SendRequest(k, id, empty)
        \/ \E id \in RequestIds : ResendRequest(k, id)
        \/ AcceptContact(k) \/ BlockContact(k) \/ UnblockContact(k) \/ CancelRequest(k)
        \/ DeleteConversation(k) \/ MirrorAccepted(k) \/ MirrorBlocked(k)
TaskStep == \E t \in tasks : RetireStep(t) \/ SendStep(t) \/ RemoveStep(t)
LaneStep(n) == Reply(n) \/ Ring(n) \/ Honour(n) \/ Settle(n)
Take(w) == TakeAccepted(w) \/ TakeRequest(w) \/ TakeAccept(w)

Next ==
    \/ OwnerStep \/ TaskStep
    \/ \E n \in Nodes : LaneStep(n) \/ Crash(n)
    \/ \E w \in Wires : Take(w) \/ AckArrives(w) \/ RetireOrphan(w)

Spec == Init /\ [][Next]_vars

-----------------------------------------------------------------------------
(* Safety.                                                                 *)

\* Every variable stays in its set.
TypeOK ==
    /\ status \in [Pairs -> Status] /\ greeting \in [Pairs -> RequestIds \cup {NoId}]
    /\ rows \subseteq Wires /\ seen \subseteq Wires
    /\ lane \in [Nodes -> Job \cup {Idle}] /\ tasks \subseteq Task
    /\ sent \subseteq Wires /\ acks \subseteq Wires
    /\ used \subseteq RequestIds /\ consent \subseteq Pairs
    /\ removed \subseteq Pairs
    /\ decisions \in 0..MaxDecisions /\ crashes \in 0..MaxCrashes
    /\ refusals \in 0..MaxRefusals

\* A node treats as accepted only a contact its owner wants: one the owner asked, accepted or
\* unblocked and has not since cancelled, deleted, blocked or been asked by.  No acceptance that
\* arrives late, twice or for an earlier request makes a contact of anyone else, unless the
\* owner decides while the handler that read the pending request is at work (the accept arm).
ConsentGiven == \A k \in Pairs : status[k] = "accepted" => k \in consent

\* Between two nodes that never removed each other and whose acceptance was never acknowledged,
\* who could be misled by a frame of an earlier relationship.
Steady(k) == {k, <<k[2], k[1]>>} \cap removed = {} /\ <<k[2], k[1], Accept>> \notin acks

\* A request that the durable gate will not let through again is answered durably: its sender's
\* contact accepts it, so the acceptance is a row, or about to become one, unless storage has
\* refused a row (the durable gate, handleRequestOrReconnect).
Answering(k) ==
    \/ <<k[1], k[2], Accept>> \in rows
    \/ lane[k[1]].step = "reply" /\ lane[k[1]].peer = k[2]
AnswerIsOwed ==
    refusals = 0 => \A w \in seen :
        IsRequest(w) /\ status[<<w[2], w[1]>>] = "accepted" /\ Steady(<<w[1], w[2]>>)
        => Answering(<<w[2], w[1]>>)

\* A doorbell never takes back a decision: what an owner accepted or blocked does not become a
\* request to be decided again (handleRequestOrReconnect, applyMirroredContactStatus).
DecisionStands ==
    [][\A k \in Pairs : status[k] \in {"accepted", "blocked"}
                        => status'[k] # "pendingIncoming"]_vars

-----------------------------------------------------------------------------
(* Liveness.                                                               *)

\* Calls and handlers go on, and a row that is sent again and again arrives.
Fairness ==
    /\ WF_vars(TaskStep) /\ \A n \in Nodes : WF_vars(LaneStep(n))
    /\ \A w \in Wires : SF_vars(Resent(w) /\ Take(w))

LiveSpec == Spec /\ Fairness

\* The handshake completes: when one side waits for an answer to a stored request and the other
\* has accepted, the first learns of it, or one of them changes its mind (sendRequest,
\* handleRequestOrReconnect).
Waiting(k) ==
    /\ status[k] = "pendingOutgoing" /\ status[<<k[2], k[1]>>] = "accepted"
    /\ Requests(k) \cap rows # {}
SteadyHandshakeCompletes ==
    \A k \in Pairs : Waiting(k) /\ Steady(k) ~> ~(Waiting(k) /\ Steady(k))

\* The same of any two nodes: "they wiped + re-intro'd and we still hold them: re-send the
\* accept so the handshake completes, instead of stranding either side".
HandshakeCompletes == \A k \in Pairs : Waiting(k) ~> ~Waiting(k)
=============================================================================
