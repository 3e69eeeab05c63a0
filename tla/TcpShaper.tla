----------------------------- MODULE TcpShaper -----------------------------
(***************************************************************************)
(* The blind FIFO of the loopback stands for TCP                           *)
(* (scripts/tcp_fifo_shaper.py).  One event loop runs a pump for each      *)
(* direction of each connection.  The pumps of one reservation group take  *)
(* its asyncio.Lock in turn, capture the rate, may sleep under the lock to *)
(* bound the backlog, reserve, and then sleep, write and drain outside it. *)
(* A pump may be cancelled at every one of those awaits.                   *)
(***************************************************************************)
EXTENDS ShaperClock, SequencesExt

CONSTANTS Conns,        \* the connections of a run
          Link,         \* the target each connects to
          Reads,        \* how many reads each pump makes before its EOF
          ChunkSize,    \* the size of one read
          Sides,        \* the directions of a connection: {0, 1} or one of them
          PerTarget     \* scope = "per-target" instead of "aggregate"

Pumps == Conns \X Sides

ASSUME TcpAssumption ==
    /\ IsFiniteSet(Conns) /\ Sides \subseteq {0, 1}
    /\ Reads \in [Pumps -> Nat]
    /\ ChunkSize \in Nat \ {0}
    /\ PerTarget \in BOOLEAN

VARIABLES server,       \* "up", "closing", "cancelling", "waiting", "down"
          conn,         \* the life of each connection
          handlers,     \* connections whose handler stop() will cancel
          pc,           \* where each pump is
          took,         \* reads each pump has made
          work,         \* what a pump holds: captured rate, time, reservation
          lock,         \* [group -> pumps in line for the lock, holder first]
          tnext,        \* _next_at
          pending,      \* _pending
          tslots        \* history: the reservations of each group

tcpVars == <<server, conn, handlers, pc, took, work, lock, tnext, pending, tslots>>

Group(p) == <<p[2], IF PerTarget THEN Link[p[1]] ELSE 0>>
Groups == {Group(p) : p \in Pumps}
Nothing == [rate |-> 0, at |-> 0, wake |-> 0, ready |-> 0]
PumpsOf(c) == {c} \X Sides

TcpInit ==
    /\ server = "up"
    /\ conn = [c \in Conns |-> "none"]
    /\ handlers = {}
    /\ pc = [p \in Pumps |-> "off"]
    /\ took = [p \in Pumps |-> 0]
    /\ work = [p \in Pumps |-> Nothing]
    /\ lock = [g \in Groups |-> <<>>]
    /\ tnext = [g \in Groups |-> 0]
    /\ pending = [g \in Groups |-> 0]
    /\ tslots = [g \in Groups |-> <<>>]

At(p, where) == pc[p] = where
Goto(p, where) == pc' = [pc EXCEPT ![p] = where]

-----------------------------------------------------------------------------
(* Connections.                                                            *)

(* The server socket accepts; the callback runs in a later turn.           *)
Arrive(c) ==
    /\ server = "up"
    /\ conn[c] = "none"
    /\ conn' = [conn EXCEPT ![c] = "arriving"]
    /\ UNCHANGED <<server, handlers, pc, took, work, lock, tnext, pending, tslots>>

(* accepted(): the handler task exists and may be cancelled by name.       *)
Accepted(c) ==
    /\ conn[c] = "arriving"
    /\ conn' = [conn EXCEPT ![c] = "connecting"]
    /\ UNCHANGED <<server, handlers, pc, took, work, lock, tnext, pending, tslots>>

Connected(c) ==
    /\ conn[c] = "connecting"
    /\ conn' = [conn EXCEPT ![c] = "open"]
    /\ pc' = [p \in Pumps |-> IF p \in PumpsOf(c) THEN "read" ELSE pc[p]]
    /\ UNCHANGED <<server, handlers, took, work, lock, tnext, pending, tslots>>

(* The target refuses or does not answer within five seconds.              *)
Refused(c) ==
    /\ conn[c] = "connecting"
    /\ conn' = [conn EXCEPT ![c] = "closing"]
    /\ UNCHANGED <<server, handlers, pc, took, work, lock, tnext, pending, tslots>>

(* Both pumps have ended, by themselves or cancelled: the endpoints close. *)
Finish(c) ==
    /\ \/ conn[c] = "open" /\ \A p \in PumpsOf(c) : At(p, "done")
       \/ conn[c] = "closing" /\ \A p \in PumpsOf(c) : pc[p] \in {"off", "done", "gone"}
    /\ conn' = [conn EXCEPT ![c] = "closed"]
    /\ UNCHANGED <<server, handlers, pc, took, work, lock, tnext, pending, tslots>>

-----------------------------------------------------------------------------
(* One pump.                                                               *)

(* A read, which joins the line for the group's lock.                      *)
Read(p) ==
    /\ At(p, "read")
    /\ took[p] < Reads[p]
    /\ took' = [took EXCEPT ![p] = @ + 1]
    /\ lock' = [lock EXCEPT ![Group(p)] = Append(@, p)]
    /\ Goto(p, "lock")
    /\ UNCHANGED <<server, conn, handlers, work, tnext, pending, tslots>>

(* The source has ended: write_eof, only after the last chunk was drained, *)
(* and a last drain.  It holds neither lock nor reservation; when it       *)
(* raises or is cancelled the outcome is that of Reset or CancelPump at    *)
(* "read".                                                                 *)
Eof(p) ==
    /\ At(p, "read")
    /\ took[p] = Reads[p]
    /\ Goto(p, "done")
    /\ UNCHANGED <<server, conn, handlers, took, work, lock, tnext, pending, tslots>>

(* Mutant: the lock is no queue, any waiting pump may take it.             *)
HolderUnfair(p) == \E i \in DOMAIN lock[Group(p)] : lock[Group(p)][i] = p

Holder(p) == lock[Group(p)] # <<>> /\ Head(lock[Group(p)]) = p

(* The pump holds the lock: it captures the rate and the time until which  *)
(* it must wait for the backlog to fall below the queue's limit.           *)
Capture(p) ==
    /\ At(p, "lock")
    /\ Holder(p)
    /\ work' = [work EXCEPT ![p] = [Nothing EXCEPT !.rate = rate_bps, !.at = now,
          !.wake = IF rate_bps = 0 THEN now ELSE MaxOf(now, tnext[Group(p)] - MaxQueue)]]
    /\ Goto(p, "throttle")
    /\ UNCHANGED <<server, conn, handlers, took, lock, tnext, pending, tslots>>

(* Mutant: the slot starts now, beside the other connections' slots.       *)
ReadyAlone(p) ==
    IF work[p].rate = 0 THEN work[p].at ELSE now + Service(ChunkSize, work[p].rate)

(* When the slot ends: after the group's last one, at the captured rate.   *)
ReadyOf(p) ==
    IF work[p].rate = 0 THEN work[p].at
    ELSE MaxOf(now, tnext[Group(p)]) + Service(ChunkSize, work[p].rate)

(* The reservation, at the rate captured before the wait.                  *)
TakeSlot(p) ==
    /\ At(p, "throttle")
    /\ now >= work[p].wake
    /\ LET g == Group(p)
       IN /\ work' = [work EXCEPT ![p].ready = ReadyOf(p)]
          /\ tnext' = [tnext EXCEPT ![g] = ReadyOf(p)]
          /\ pending' = [pending EXCEPT ![g] = @ + 1]
          /\ lock' = [lock EXCEPT ![g] = Tail(@)]
          /\ tslots' = [tslots EXCEPT ![g] = Append(@,
                [item |-> <<p, took[p]>>, at |-> now, ready |-> ReadyOf(p),
                 from |-> ReadyOf(p) - Service(ChunkSize, work[p].rate)])]
    /\ Goto(p, "sleep")
    /\ UNCHANGED <<server, conn, handlers, took>>

Write(p) ==
    /\ At(p, "sleep")
    /\ now >= work[p].ready
    /\ Goto(p, "drain")
    /\ UNCHANGED <<server, conn, handlers, took, work, lock, tnext, pending, tslots>>

Drained(p) ==
    /\ At(p, "drain")
    /\ pending' = [pending EXCEPT ![Group(p)] = @ - 1]
    /\ work' = [work EXCEPT ![p] = Nothing]
    /\ Goto(p, "read")
    /\ UNCHANGED <<server, conn, handlers, took, lock, tnext, tslots>>

(* Mutant: a cancelled pump keeps its pending reservation.                 *)
GiveBackLockOnly(p) ==
    /\ lock' = [lock EXCEPT ![Group(p)] = RemoveFirst(@, p)]
    /\ UNCHANGED pending
    /\ work' = [work EXCEPT ![p] = Nothing]

(* What leaving the pump from an await gives back: the lock or the place   *)
(* in its line, and the pending reservation.                               *)
GiveBack(p) ==
    /\ lock' = [lock EXCEPT ![Group(p)] = RemoveFirst(@, p)]
    /\ pending' = [pending EXCEPT ![Group(p)] =
                      @ - (IF pc[p] \in {"sleep", "drain"} THEN 1 ELSE 0)]
    /\ work' = [work EXCEPT ![p] = Nothing]

(* The peer resets the connection under a read or a drain, the one after   *)
(* write_eof included: the handler goes to its finally block and nothing   *)
(* is replayed.                                                            *)
Reset(p) ==
    /\ conn[p[1]] = "open"
    /\ pc[p] \in {"read", "drain"}
    /\ GiveBack(p)
    /\ Goto(p, "gone")
    /\ conn' = [conn EXCEPT ![p[1]] = "closing"]
    /\ UNCHANGED <<server, handlers, took, tnext, tslots>>

(* The finally block of the handler cancels the pumps, wherever they wait. *)
CancelPump(p) ==
    /\ conn[p[1]] = "closing"
    /\ pc[p] \in {"read", "lock", "throttle", "sleep", "drain"}
    /\ GiveBack(p)
    /\ Goto(p, "gone")
    /\ UNCHANGED <<server, conn, handlers, took, tnext, tslots>>

-----------------------------------------------------------------------------
(* stop() and the finally block of _run.                                   *)

RequestClose ==
    /\ server = "up"
    /\ server' = "closing"
    /\ UNCHANGED <<conn, handlers, pc, took, work, lock, tnext, pending, tslots>>

(* After one turn of the loop the handlers that exist are cancelled.       *)
CancelHandlers ==
    /\ server = "closing"
    /\ handlers' = {c \in Conns : conn[c] \in {"connecting", "open", "closing"}}
    /\ conn' = [c \in Conns |-> IF c \in handlers' THEN "closing" ELSE conn[c]]
    /\ server' = "cancelling"
    /\ UNCHANGED <<pc, took, work, lock, tnext, pending, tslots>>

HandlersGone ==
    /\ server = "cancelling"
    /\ \A c \in handlers : conn[c] = "closed"
    /\ server' = "waiting"
    /\ UNCHANGED <<conn, handlers, pc, took, work, lock, tnext, pending, tslots>>

(* wait_closed: a connection whose callback came after the cancellation is *)
(* waited for, not cancelled.                                              *)
ServersClosed ==
    /\ server = "waiting"
    /\ \A c \in Conns : conn[c] \in {"none", "closed"}
    /\ server' = "down"
    /\ UNCHANGED <<conn, handlers, pc, took, work, lock, tnext, pending, tslots>>

TcpStep ==
    \/ \E c \in Conns : Arrive(c) \/ Accepted(c) \/ Connected(c) \/ Refused(c) \/ Finish(c)
    \/ \E p \in Pumps :
          \/ Read(p) \/ Eof(p) \/ Capture(p) \/ TakeSlot(p) \/ Write(p) \/ Drained(p)
          \/ Reset(p) \/ CancelPump(p)
    \/ RequestClose
    \/ CancelHandlers
    \/ HandlersGone
    \/ ServersClosed

TcpNext ==
    \/ TcpStep /\ UNCHANGED clockVars
    \/ (Tick \/ \E r \in Rates : SetRate(r)) /\ UNCHANGED tcpVars

TcpSpec == ClockInit /\ TcpInit /\ [][TcpNext]_<<clockVars, tcpVars>>

-----------------------------------------------------------------------------
(* Properties.                                                             *)

(* However pumps are cancelled, the group's books stay true: its pending   *)
(* count is the number of pumps that hold a reservation, and its lock is   *)
(* held or awaited by live pumps only, the first of which alone may sleep  *)
(* under it.                                                               *)
CancelLeavesNothing ==
    \A g \in Groups :
        LET in(where) == {p \in Pumps : Group(p) = g /\ pc[p] \in where}
        IN /\ pending[g] = Cardinality(in({"sleep", "drain"}))
           /\ ToSet(lock[g]) = in({"lock", "throttle"})
           /\ \A i \in DOMAIN lock[g] : pc[lock[g][i]] = "throttle" => i = 1

(* The capacity is shared, not granted to each connection: the service     *)
(* times of one group's reservations never overlap, and the backlog a      *)
(* reservation sees is bounded by max_queue_ms, although the rate may rise *)
(* while a pump sleeps under the lock with the old one.                    *)
SharedCapacity ==
    \A g \in Groups : \A i \in DOMAIN tslots[g] :
        /\ i > 1 => tslots[g][i - 1].ready <= tslots[g][i].from
        /\ tslots[g][i].from - tslots[g][i].at <= MaxQueue

(* The reservations of each direction are taken in the order of the reads, *)
(* across connections: each group is an ordered link.                      *)
GroupItems(g) == UNION {{p} \X (1..Reads[p]) : p \in {q \in Pumps : Group(q) = g}}
GroupLine(g) == [i \in DOMAIN lock[g] |-> <<lock[g][i], took[lock[g][i]]>>]
GroupUsed(g) == UNION {{p} \X (1..took[p]) : p \in {q \in Pumps : Group(q) = g}}
GroupGot(g) == [i \in DOMAIN tslots[g] |-> tslots[g][i].item]
Outward == INSTANCE OrderedLink WITH Items <- GroupItems(<<0, 0>>),
    line <- GroupLine(<<0, 0>>), used <- GroupUsed(<<0, 0>>), got <- GroupGot(<<0, 0>>)
TcpIsOrderedLink == Outward!LinkSpec
=============================================================================
