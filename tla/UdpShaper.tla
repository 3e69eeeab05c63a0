----------------------------- MODULE UdpShaper -----------------------------
(***************************************************************************)
(* The blind FIFO of the loopback stands for datagrams                     *)
(* (scripts/udp_fifo_shaper.py).  One worker thread reads the sockets,     *)
(* admits or drops each datagram against a reservation clock per direction *)
(* and sends what is due.  The stand's thread sets the rate and the stop   *)
(* flag at any time, so the admission of one datagram reads the rate in    *)
(* three separate steps.                                                   *)
(***************************************************************************)
EXTENDS ShaperClock

CONSTANTS Packets,        \* the datagrams of a run
          PSize,          \* their sizes
          PDir,           \* the direction of each: 0 to the node, 1 back
          TraceCapacity   \* trace_capacity of the metadata ring

ASSUME UdpAssumption ==
    /\ PSize \in [Packets -> Nat \ {0}]
    /\ PDir \in [Packets -> {0, 1}]
    /\ TraceCapacity \in Nat \ {0}

VARIABLES seen,       \* datagrams the sockets have delivered to the worker
          cur,        \* the datagram being enqueued: its phase, or Idle
          queues,     \* [direction -> Seq of admitted datagrams]
          next_at,    \* [direction -> end of the last reservation]
          slots,      \* history: the reservations of each direction
          sent,       \* history: what was sent, in order, with its time
          stats,      \* received, sent, drops per direction
          rows,       \* the trace ring, oldest first
          events,     \* trace_events: rows ever added
          stopped,    \* threading.Event set by stop()
          worker      \* "running", "failed" or "exited"

udpVars == <<seen, cur, queues, next_at, slots, sent, stats, rows, events, stopped, worker>>

Dirs == {0, 1}
Idle == [phase |-> "idle"]
NoRow == -1

UdpInit ==
    /\ seen = {}
    /\ cur = Idle
    /\ queues = [d \in Dirs |-> <<>>]
    /\ next_at = [d \in Dirs |-> 0]
    /\ slots = [d \in Dirs |-> <<>>]
    /\ sent = [d \in Dirs |-> <<>>]
    /\ stats = [d \in Dirs |-> [received |-> 0, sent |-> 0, drops |-> 0]]
    /\ rows = <<>>
    /\ events = 0
    /\ stopped = FALSE
    /\ worker = "running"

-----------------------------------------------------------------------------
(* The trace ring.                                                         *)

(* Mutant: the ring has no maxlen.                                        *)
AddRowUnbounded(rs, row) == Append(rs, row)

(* WireTrace.add: a deque with maxlen forgets its oldest row.              *)
AddRow(rs, row) ==
    IF Len(rs) < TraceCapacity THEN Append(rs, row) ELSE Append(Tail(rs), row)

(* Mutant: the age of a completed row is clamped to the ring.              *)
FinishRowClamped(rs, total, ev) ==
    LET offset == IF total - ev > Len(rs) THEN Len(rs) ELSE total - ev
    IN IF ev # NoRow /\ 0 < offset
         THEN [rs EXCEPT ![Len(rs) - offset + 1] = [event |-> ev, done |-> TRUE]]
         ELSE rs

(* WireTrace.finish: the row is found by its distance from the newest one, *)
(* and only while it is still inside the ring.                             *)
FinishRow(rs, total, ev) ==
    LET offset == total - ev
    IN IF ev # NoRow /\ 0 < offset /\ offset <= Len(rs)
         THEN [rs EXCEPT ![Len(rs) - offset + 1] = [event |-> ev, done |-> TRUE]]
         ELSE rs

-----------------------------------------------------------------------------
(* enqueue(), in the three steps between which the rate may change.        *)

Count(d, field) == [stats EXCEPT ![d][field] = @ + 1]

(* A datagram is read; it is traced when a rate is in force.               *)
Receive(p) ==
    /\ worker = "running"
    /\ cur = Idle
    /\ p \notin seen
    /\ seen' = seen \cup {p}
    /\ stats' = Count(PDir[p], "received")
    /\ LET ev == IF rate_bps > 0 THEN events ELSE NoRow
       IN /\ cur' = [phase |-> "check", pkt |-> p, at |-> now, event |-> ev]
          /\ events' = IF ev = NoRow THEN events ELSE events + 1
          /\ rows' = IF ev = NoRow THEN rows
                     ELSE AddRow(rows, [event |-> ev, done |-> FALSE])
    /\ UNCHANGED <<queues, next_at, slots, sent, stopped, worker>>

Backlog(d, at) == MaxOf(0, next_at[d] - at)

(* The queue is full: the datagram is counted as a drop.                   *)
Overflow ==
    /\ cur.phase = "check"
    /\ LET d == PDir[cur.pkt]
       IN /\ rate_bps > 0
          /\ Backlog(d, cur.at) >= MaxQueue
          /\ stats' = Count(d, "drops")
    /\ rows' = FinishRow(rows, events, cur.event)
    /\ cur' = Idle
    /\ UNCHANGED <<seen, queues, next_at, slots, sent, events, stopped, worker>>

(* Mutant: every datagram is admitted, however long the queue.             *)
AdmitAlways ==
    /\ cur.phase = "check"
    /\ cur' = [cur EXCEPT !.phase = "reserve"]
    /\ UNCHANGED <<seen, queues, next_at, slots, sent, stats, rows, events, stopped, worker>>

Admit ==
    /\ cur.phase = "check"
    /\ rate_bps = 0 \/ Backlog(PDir[cur.pkt], cur.at) < MaxQueue
    /\ cur' = [cur EXCEPT !.phase = "reserve"]
    /\ UNCHANGED <<seen, queues, next_at, slots, sent, stats, rows, events, stopped, worker>>

(* Mutant: the reservation starts at the arrival, not at the last one.     *)
ReserveAtArrival ==
    /\ cur.phase = "reserve"
    /\ LET d     == PDir[cur.pkt]
           from  == cur.at
           ready == from + Service(PSize[cur.pkt], rate_bps)
       IN /\ next_at' = [next_at EXCEPT ![d] = ready]
          /\ slots' = [slots EXCEPT ![d] = Append(@,
                [pkt |-> cur.pkt, at |-> cur.at, from |-> from, ready |-> ready])]
          /\ queues' = [queues EXCEPT ![d] = Append(@,
                [pkt |-> cur.pkt, ready |-> ready, event |-> cur.event])]
    /\ cur' = Idle
    /\ UNCHANGED <<seen, sent, stats, rows, events, stopped, worker>>

(* The datagram takes the next slot of its direction's reservation clock.  *)
Reserve ==
    /\ cur.phase = "reserve"
    /\ LET d     == PDir[cur.pkt]
           from  == MaxOf(cur.at, next_at[d])
           ready == from + Service(PSize[cur.pkt], rate_bps)
       IN /\ next_at' = [next_at EXCEPT ![d] = ready]
          /\ slots' = [slots EXCEPT ![d] = Append(@,
                [pkt |-> cur.pkt, at |-> cur.at, from |-> from, ready |-> ready])]
          /\ queues' = [queues EXCEPT ![d] = Append(@,
                [pkt |-> cur.pkt, ready |-> ready, event |-> cur.event])]
    /\ cur' = Idle
    /\ UNCHANGED <<seen, sent, stats, rows, events, stopped, worker>>

-----------------------------------------------------------------------------
(* The release pass.                                                       *)

(* Mutant: the pass does not look at the deadline of the datagram.         *)
DueAnyTime(d) == queues[d] # <<>>

Due(d) == queues[d] # <<>> /\ Head(queues[d]).ready <= now

(* Mutant: a datagram that was sent stays at the head of its queue.        *)
SendPeeked(d) ==
    /\ worker = "running"
    /\ cur = Idle
    /\ Due(d)
    /\ LET item == Head(queues[d])
       IN /\ sent' = [sent EXCEPT ![d] = Append(@,
                         [pkt |-> item.pkt, at |-> now, ready |-> item.ready])]
          /\ rows' = FinishRow(rows, events, item.event)
    /\ stats' = Count(d, "sent")
    /\ UNCHANGED <<seen, cur, queues, next_at, slots, events, stopped, worker>>

(* A due datagram goes out.                                                *)
Send(d) ==
    /\ worker = "running"
    /\ cur = Idle
    /\ Due(d)
    /\ LET item == Head(queues[d])
       IN /\ sent' = [sent EXCEPT ![d] = Append(@,
                         [pkt |-> item.pkt, at |-> now, ready |-> item.ready])]
          /\ rows' = FinishRow(rows, events, item.event)
    /\ queues' = [queues EXCEPT ![d] = Tail(@)]
    /\ stats' = Count(d, "sent")
    /\ UNCHANGED <<seen, cur, next_at, slots, events, stopped, worker>>

(* Mutant: a datagram the socket refused is not counted anywhere.          *)
SendBlockedUncounted(d) ==
    /\ worker = "running"
    /\ cur = Idle
    /\ Due(d)
    /\ rows' = FinishRow(rows, events, Head(queues[d]).event)
    /\ queues' = [queues EXCEPT ![d] = Tail(@)]
    /\ UNCHANGED <<seen, cur, next_at, slots, sent, stats, events, stopped, worker>>

(* The socket would block: the datagram is counted as a drop.              *)
SendBlocked(d) ==
    /\ worker = "running"
    /\ cur = Idle
    /\ Due(d)
    /\ rows' = FinishRow(rows, events, Head(queues[d]).event)
    /\ queues' = [queues EXCEPT ![d] = Tail(@)]
    /\ stats' = Count(d, "drops")
    /\ UNCHANGED <<seen, cur, next_at, slots, sent, events, stopped, worker>>

(* Any other error of a socket ends the worker; run_guarded keeps its name *)
(* and the datagram in hand is neither sent nor dropped.                   *)
WorkerFails(d) ==
    /\ worker = "running"
    /\ cur = Idle
    /\ Due(d)
    /\ queues' = [queues EXCEPT ![d] = Tail(@)]
    /\ worker' = "failed"
    /\ UNCHANGED <<seen, cur, next_at, slots, sent, stats, rows, events, stopped>>

RequestStop ==
    /\ ~stopped
    /\ stopped' = TRUE
    /\ UNCHANGED <<seen, cur, queues, next_at, slots, sent, stats, rows, events, worker>>

(* The loop looks at the flag between two passes; what is still queued     *)
(* stays unsent.                                                           *)
WorkerExits ==
    /\ worker = "running"
    /\ stopped
    /\ cur = Idle
    /\ worker' = "exited"
    /\ UNCHANGED <<seen, cur, queues, next_at, slots, sent, stats, rows, events, stopped>>

UdpStep ==
    \/ \E p \in Packets : Receive(p)
    \/ Overflow
    \/ Admit
    \/ Reserve
    \/ \E d \in Dirs : Send(d) \/ SendBlocked(d) \/ WorkerFails(d)
    \/ RequestStop
    \/ WorkerExits

UdpNext ==
    \/ UdpStep /\ UNCHANGED clockVars
    \/ (Tick \/ \E r \in Rates : SetRate(r)) /\ UNCHANGED udpVars

UdpSpec == ClockInit /\ UdpInit /\ [][UdpNext]_<<clockVars, udpVars>>

-----------------------------------------------------------------------------
(* Properties.                                                             *)

(* Every variable stays in its set, and the ring in its capacity.          *)
EventId == Nat \cup {NoRow}
InCheck == [phase : {"check", "reserve"}, pkt : Packets, at : Nat, event : EventId]
Slot == [pkt : Packets, at : Nat, from : Nat, ready : Nat]
UdpTypeOK ==
    /\ now \in Nat /\ rate_bps \in Nat
    /\ seen \subseteq Packets
    /\ cur \in InCheck \cup {Idle}
    /\ queues \in [Dirs -> Seq([pkt : Packets, ready : Nat, event : EventId])]
    /\ next_at \in [Dirs -> Nat]
    /\ slots \in [Dirs -> Seq(Slot)]
    /\ sent \in [Dirs -> Seq([pkt : Packets, at : Nat, ready : Nat])]
    /\ stats \in [Dirs -> [received : Nat, sent : Nat, drops : Nat]]
    /\ rows \in Seq([event : Nat, done : BOOLEAN]) /\ Len(rows) <= TraceCapacity
    /\ events \in Nat
    /\ stopped \in BOOLEAN
    /\ worker \in {"running", "failed", "exited"}

(* Every datagram that was counted as received is accounted for: sent,     *)
(* dropped, still queued or in hand; a worker that died lost at most the   *)
(* one it was sending.  The stands compute their loss from these counters. *)
InHand(d) == IF cur # Idle /\ PDir[cur.pkt] = d THEN 1 ELSE 0
Conservation ==
    \A d \in Dirs :
        LET rest == stats[d].received - stats[d].sent - stats[d].drops
                      - Len(queues[d]) - InHand(d)
        IN rest \in (IF worker = "failed" THEN {0, 1} ELSE {0})

(* The capacity is never exceeded: the reservations of one direction do    *)
(* not overlap, and nothing leaves before its reservation has ended,       *)
(* whenever the rate is set.                                               *)
CapacityKept ==
    \A d \in Dirs :
        /\ \A i \in 1..(Len(slots[d]) - 1) : slots[d][i].ready <= slots[d][i + 1].from
        /\ \A i \in DOMAIN sent[d] : sent[d][i].at >= sent[d][i].ready

(* The delay the FIFO adds is bounded: a datagram that is admitted waits   *)
(* at most max_queue_ms and its own service, at a rate of this run,        *)
(* although the rate is read again after the queue was found short enough  *)
(* and nothing is checked before the stand has set one.                    *)
BoundedDelay ==
    \A d \in Dirs : \A i \in DOMAIN slots[d] : \E r \in Rates \cup {0} :
        slots[d][i].ready - slots[d][i].at <= MaxQueue + Service(PSize[slots[d][i].pkt], r)

(* A completed row never replaces the row of another datagram, although    *)
(* datagrams complete long after the ring has moved on: the ring always    *)
(* holds the rows of the newest events, in order.                          *)
RingKeepsItsRows ==
    \A i \in DOMAIN rows : rows[i].event = events - Len(rows) + i - 1

(* Each direction is a lossy ordered link: blind, in order, no duplicates. *)
DirItems(d) == {p \in Packets : PDir[p] = d}
DirLine(d) == [i \in DOMAIN queues[d] |-> queues[d][i].pkt]
DirUsed(d) == {slots[d][i].pkt : i \in DOMAIN slots[d]}
DirGot(d) == [i \in DOMAIN sent[d] |-> sent[d][i].pkt]
ToNode == INSTANCE OrderedLink WITH Items <- DirItems(0),
    line <- DirLine(0), used <- DirUsed(0), got <- DirGot(0)
Back == INSTANCE OrderedLink WITH Items <- DirItems(1),
    line <- DirLine(1), used <- DirUsed(1), got <- DirGot(1)
UdpIsOrderedLink == ToNode!LinkSpec /\ Back!LinkSpec
=============================================================================
