-------------------------- MODULE ShapedLinkProofs --------------------------
(***************************************************************************)
(* Proofs about the shapers of a stand: for any number of packets,         *)
(* connections, reads, rates and requests, what the books of the UDP and   *)
(* the TCP shaper say is true, what they grant is the capacity the stand   *)
(* set and a bounded delay, and each is an ordered link; the shaper        *)
(* process applies what it reports and is reaped.  The last theorem        *)
(* carries all of it over to a run of the stand, whichever it picked.      *)
(***************************************************************************)
EXTENDS ShapedLink, SequenceTheorems, FiniteSetTheorems, TLAPS

Item == [pkt : Packets, ready : Nat, event : EventId]
Departure == [pkt : Packets, at : Nat, ready : Nat]
Row == [event : Nat, done : BOOLEAN]

ClockIsLastSlot ==
    \A d \in Dirs : /\ slots[d] # <<>> => next_at[d] = slots[d][Len(slots[d])].ready
                    /\ \A i \in 1..Len(slots[d]) : slots[d][i] \in Slot

-----------------------------------------------------------------------------
(* Lemmas on sequences and on the two helpers of the ring.                 *)

LEMMA AppendFacts ==
    ASSUME NEW S, NEW s \in Seq(S), NEW x \in S
    PROVE  /\ Append(s, x) \in Seq(S) /\ Len(Append(s, x)) = Len(s) + 1
           /\ \A i \in 1..Len(s) : Append(s, x)[i] = s[i]
           /\ Append(s, x)[Len(s) + 1] = x
OBVIOUS

LEMMA TailFacts ==
    ASSUME NEW S, NEW s \in Seq(S), s # <<>>
    PROVE  /\ Tail(s) \in Seq(S) /\ Len(Tail(s)) = Len(s) - 1 /\ Len(s) >= 1
           /\ Head(s) \in S /\ Head(s) = s[1]
           /\ \A i \in 1..(Len(s) - 1) : Tail(s)[i] = s[i + 1]
OBVIOUS

LEMMA ServiceIsNat ==
    ASSUME NEW p \in Packets, NEW r \in Nat
    PROVE  Service(PSize[p], r) \in Nat
BY UdpAssumption DEF Service

LEMMA MaxIsNat ==
    ASSUME NEW a \in Nat, NEW b \in Nat
    PROVE  MaxOf(a, b) \in Nat /\ MaxOf(a, b) >= a /\ MaxOf(a, b) >= b
BY DEF MaxOf

(* WireTrace.add keeps the newest rows, and no more than the capacity.     *)
LEMMA AddRowFacts ==
    ASSUME NEW rs \in Seq(Row), Len(rs) <= TraceCapacity, NEW row \in Row
    PROVE  LET new == AddRow(rs, row) IN
           /\ new \in Seq(Row) /\ Len(new) <= TraceCapacity
           /\ Len(new) <= Len(rs) + 1 /\ Len(new) >= 1
           /\ new[Len(new)] = row
           /\ \A i \in 1..(Len(new) - 1) : new[i] = rs[Len(rs) - Len(new) + 1 + i]
<1>1. CASE Len(rs) < TraceCapacity
  BY <1>1, UdpAssumption DEF AddRow
<1>2. CASE ~(Len(rs) < TraceCapacity)
  <2>1. rs # <<>>
    BY <1>2, UdpAssumption
  <2>2. /\ Tail(rs) \in Seq(Row) /\ Len(Tail(rs)) = Len(rs) - 1 /\ Len(rs) >= 1
        /\ \A i \in 1..(Len(rs) - 1) : Tail(rs)[i] = rs[i + 1]
    BY <2>1, TailFacts
  <2>. QED  BY <1>2, <2>2, UdpAssumption DEF AddRow
<1>. QED  BY <1>1, <1>2

(* WireTrace.finish changes at most the row of its own event.              *)
LEMMA FinishRowFacts ==
    ASSUME NEW rs \in Seq(Row), NEW total \in Nat, NEW ev \in EventId,
           \A i \in 1..Len(rs) : rs[i].event = total - Len(rs) + i - 1
    PROVE  LET new == FinishRow(rs, total, ev) IN
           /\ new \in Seq(Row) /\ Len(new) = Len(rs)
           /\ \A i \in 1..Len(new) : new[i].event = rs[i].event
<1>1. CASE ev # NoRow /\ 0 < total - ev /\ total - ev <= Len(rs)
  <2>1. ev \in Nat
    BY <1>1 DEF EventId
  <2>2. Len(rs) - (total - ev) + 1 \in 1..Len(rs)
    BY <1>1, <2>1
  <2>3. rs[Len(rs) - (total - ev) + 1].event = ev
    BY <2>1, <2>2
  <2>4. [event |-> ev, done |-> TRUE] \in Row
    BY <2>1 DEF Row
  <2>. QED  BY <1>1, <2>2, <2>3, <2>4 DEF FinishRow
<1>2. CASE ~(ev # NoRow /\ 0 < total - ev /\ total - ev <= Len(rs))
  BY <1>2 DEF FinishRow
<1>. QED  BY <1>1, <1>2

-----------------------------------------------------------------------------
(* Types.                                                                  *)

UInv == UdpTypeOK /\ RingKeepsItsRows /\ ClockIsLastSlot

LEMMA InHandType ==
    ASSUME UdpTypeOK, cur # Idle
    PROVE  cur \in InCheck /\ PDir[cur.pkt] \in Dirs /\ cur.pkt \in Packets
           /\ cur.at \in Nat /\ cur.event \in EventId /\ PSize[cur.pkt] \in Nat
BY UdpAssumption DEF UdpTypeOK, InCheck, Dirs

LEMMA BusyIsNotIdle == cur.phase \in {"check", "reserve"} => cur # Idle
BY DEF Idle

LEMMA RowsAreRows ==
    ASSUME UdpTypeOK, RingKeepsItsRows, NEW ev \in EventId
    PROVE  LET new == FinishRow(rows, events, ev) IN
           /\ new \in Seq(Row) /\ Len(new) = Len(rows) /\ Len(new) <= TraceCapacity
           /\ \A i \in 1..Len(new) : new[i].event = events - Len(new) + i - 1
<1>1. rows \in Seq(Row) /\ Len(rows) <= TraceCapacity /\ events \in Nat
  BY DEF UdpTypeOK, Row
<1>2. \A i \in 1..Len(rows) : rows[i].event = events - Len(rows) + i - 1
  BY <1>1 DEF RingKeepsItsRows
<1>. QED  BY <1>1, <1>2, FinishRowFacts

Counters == [received : Nat, sent : Nat, drops : Nat]

LEMMA CountFacts ==
    ASSUME UdpTypeOK, NEW d \in Dirs
    PROVE  /\ stats \in [Dirs -> Counters]
           /\ Count(d, "received") \in [Dirs -> Counters]
           /\ Count(d, "sent") \in [Dirs -> Counters]
           /\ Count(d, "drops") \in [Dirs -> Counters]
           /\ \A e \in Dirs : e # d => /\ Count(d, "received")[e] = stats[e]
                                      /\ Count(d, "sent")[e] = stats[e]
                                      /\ Count(d, "drops")[e] = stats[e]
           /\ Count(d, "received")[d] = [stats[d] EXCEPT !.received = @ + 1]
           /\ Count(d, "sent")[d] = [stats[d] EXCEPT !.sent = @ + 1]
           /\ Count(d, "drops")[d] = [stats[d] EXCEPT !.drops = @ + 1]
<1>1. stats \in [Dirs -> Counters] /\ stats[d] \in Counters
  BY DEF UdpTypeOK, Counters
<1>2. /\ [stats[d] EXCEPT !.received = @ + 1] \in Counters
      /\ [stats[d] EXCEPT !.sent = @ + 1] \in Counters
      /\ [stats[d] EXCEPT !.drops = @ + 1] \in Counters
  BY <1>1 DEF Counters
<1>. QED  BY <1>1, <1>2 DEF Count

LEMMA ReceiveInv ==
    ASSUME UInv, NEW p \in Packets, Receive(p), UNCHANGED clockVars
    PROVE  UdpTypeOK' /\ RingKeepsItsRows'
<1> USE DEF UInv
<1>1. PDir[p] \in Dirs
  BY UdpAssumption DEF Dirs
<1>2. stats' \in [Dirs -> [received : Nat, sent : Nat, drops : Nat]]
  BY <1>1, CountFacts DEF Receive, Counters
<1>3. CASE rate_bps > 0
  <2>1. cur' = [phase |-> "check", pkt |-> p, at |-> now, event |-> events]
        /\ events' = events + 1 /\ rows' = AddRow(rows, [event |-> events, done |-> FALSE])
    BY <1>3 DEF Receive, UdpTypeOK, NoRow
  <2>2. cur' \in InCheck
    BY <2>1 DEF InCheck, EventId, UdpTypeOK
  <2>3. rows \in Seq(Row) /\ [event |-> events, done |-> FALSE] \in Row /\ Len(rows) <= TraceCapacity
    BY DEF UdpTypeOK, Row
  <2>4. /\ rows' \in Seq(Row) /\ Len(rows') <= TraceCapacity
        /\ Len(rows') <= Len(rows) + 1 /\ Len(rows') >= 1
        /\ rows'[Len(rows')] = [event |-> events, done |-> FALSE]
        /\ \A i \in 1..(Len(rows') - 1) : rows'[i] = rows[Len(rows) - Len(rows') + 1 + i]
    BY <2>1, <2>3, AddRowFacts
  <2>5. RingKeepsItsRows'
    <3> SUFFICES ASSUME NEW i \in 1..Len(rows')
                 PROVE  rows'[i].event = events' - Len(rows') + i - 1
      BY <2>4 DEF RingKeepsItsRows
    <3>0. events \in Nat /\ events' = events + 1 /\ Len(rows) \in Nat /\ Len(rows') \in Nat /\ i \in Nat
      BY <2>1, <2>3, <2>4 DEF UdpTypeOK
    <3>1. CASE i = Len(rows')
      <4>1. rows'[i].event = events
        BY <2>4, <3>1
      <4>. QED  BY <3>0, <3>1, <4>1
    <3>2. CASE i # Len(rows')
      <4>1. Len(rows) - Len(rows') + 1 + i \in 1..Len(rows) /\ Len(rows) - Len(rows') + 1 + i \in DOMAIN rows
        BY <2>3, <2>4, <3>0, <3>2
      <4>2. rows[Len(rows) - Len(rows') + 1 + i].event = events - Len(rows) + (Len(rows) - Len(rows') + 1 + i) - 1
        BY <4>1 DEF RingKeepsItsRows
      <4>3. rows'[i] = rows[Len(rows) - Len(rows') + 1 + i]
        BY <2>4, <3>0, <3>2
      <4>. QED  BY <3>0, <4>2, <4>3
    <3>. QED  BY <3>1, <3>2
  <2>6. /\ seen' \subseteq Packets /\ events' \in Nat
        /\ UNCHANGED <<now, rate_bps, queues, next_at, slots, sent, stopped, worker>>
    BY <2>1 DEF Receive, UdpTypeOK, clockVars
  <2>. QED  BY <1>2, <2>2, <2>4, <2>5, <2>6 DEF UdpTypeOK, Row
<1>4. CASE ~(rate_bps > 0)
  <2>1. cur' \in InCheck /\ UNCHANGED <<events, rows>>
    BY <1>4 DEF Receive, InCheck, EventId, UdpTypeOK
  <2>. QED  BY <1>2, <2>1 DEF Receive, UdpTypeOK, RingKeepsItsRows, clockVars
<1>. QED  BY <1>3, <1>4

LEMMA OverflowInv ==
    ASSUME UInv, Overflow, UNCHANGED clockVars
    PROVE  UdpTypeOK' /\ RingKeepsItsRows'
<1> USE DEF UInv
<1>1. PDir[cur.pkt] \in Dirs /\ cur.event \in EventId
  BY BusyIsNotIdle, InHandType DEF Overflow
<1>2. rows' = FinishRow(rows, events, cur.event) /\ events' = events /\ cur' = Idle
  BY DEF Overflow
<1>3. /\ rows' \in Seq(Row) /\ Len(rows') <= TraceCapacity
      /\ \A i \in 1..Len(rows') : rows'[i].event = events - Len(rows') + i - 1
  BY <1>1, <1>2, RowsAreRows
<1>4. stats' \in [Dirs -> [received : Nat, sent : Nat, drops : Nat]]
  BY <1>1, CountFacts DEF Overflow, Counters
<1>5. UNCHANGED <<now, rate_bps, seen, queues, next_at, slots, sent, events, stopped, worker>>
  BY DEF Overflow, clockVars
<1>6. RingKeepsItsRows'
  BY <1>2, <1>3 DEF RingKeepsItsRows
<1>7. cur' \in InCheck \cup {Idle}
  BY <1>2
<1>. QED  BY <1>2, <1>3, <1>4, <1>5, <1>6, <1>7 DEF UdpTypeOK, Row

LEMMA AdmitInv ==
    ASSUME UInv, Admit, UNCHANGED clockVars
    PROVE  UdpTypeOK' /\ RingKeepsItsRows'
<1>1. cur \in InCheck
  BY BusyIsNotIdle, InHandType DEF UInv, Admit
<1>2. cur' \in InCheck
  BY <1>1 DEF Admit, InCheck
<1>. QED  BY <1>2 DEF UInv, Admit, UdpTypeOK, RingKeepsItsRows, clockVars

(* What the reservation of a datagram appends.                             *)
Here == PDir[cur.pkt]
SlotFrom == MaxOf(cur.at, next_at[Here])
SlotReady == SlotFrom + Service(PSize[cur.pkt], rate_bps)
NewSlot == [pkt |-> cur.pkt, at |-> cur.at, from |-> SlotFrom, ready |-> SlotReady]
NewItem == [pkt |-> cur.pkt, ready |-> SlotReady, event |-> cur.event]

LEMMA ReserveFacts ==
    ASSUME UdpTypeOK, Reserve
    PROVE  /\ Here \in Dirs /\ SlotReady \in Nat /\ SlotFrom \in Nat
           /\ SlotFrom >= next_at[Here] /\ SlotReady >= SlotFrom
           /\ NewSlot \in Slot /\ NewItem \in Item
           /\ next_at' = [next_at EXCEPT ![Here] = SlotReady]
           /\ slots' = [slots EXCEPT ![Here] = Append(slots[Here], NewSlot)]
           /\ queues' = [queues EXCEPT ![Here] = Append(queues[Here], NewItem)]
           /\ cur' = Idle /\ cur # Idle
<1>1. /\ Here \in Dirs /\ cur.pkt \in Packets /\ cur.at \in Nat /\ cur.event \in EventId
      /\ cur # Idle
  BY BusyIsNotIdle, InHandType DEF Reserve, Here
<1>2. next_at[Here] \in Nat /\ rate_bps \in Nat
  BY <1>1 DEF UdpTypeOK
<1>3. SlotFrom \in Nat /\ SlotFrom >= next_at[Here]
  BY <1>1, <1>2, MaxIsNat DEF SlotFrom
<1>4. Service(PSize[cur.pkt], rate_bps) \in Nat
  BY <1>1, <1>2, ServiceIsNat
<1>5. SlotReady \in Nat /\ SlotReady >= SlotFrom
  BY <1>3, <1>4 DEF SlotReady
<1>6. NewSlot \in Slot /\ NewItem \in Item
  BY <1>1, <1>3, <1>5 DEF Slot, Item, NewSlot, NewItem
<1>7. /\ next_at' = [next_at EXCEPT ![Here] = SlotReady]
      /\ slots' = [slots EXCEPT ![Here] = Append(slots[Here], NewSlot)]
      /\ queues' = [queues EXCEPT ![Here] = Append(queues[Here], NewItem)]
      /\ cur' = Idle
  BY DEF Reserve, Here, SlotFrom, SlotReady, NewSlot, NewItem
<1>. QED  BY <1>1, <1>3, <1>5, <1>6, <1>7

LEMMA ReserveInv ==
    ASSUME UInv, Reserve, UNCHANGED clockVars
    PROVE  UdpTypeOK' /\ RingKeepsItsRows'
<1>1. /\ slots' \in [Dirs -> Seq(Slot)] /\ queues' \in [Dirs -> Seq(Item)]
      /\ next_at' \in [Dirs -> Nat] /\ cur' = Idle
  <2>1. slots \in [Dirs -> Seq(Slot)] /\ queues \in [Dirs -> Seq(Item)] /\ next_at \in [Dirs -> Nat]
    BY DEF UInv, UdpTypeOK, Item
  <2>2. Here \in Dirs /\ NewSlot \in Slot /\ NewItem \in Item /\ SlotReady \in Nat
    BY ReserveFacts DEF UInv
  <2>3. Append(slots[Here], NewSlot) \in Seq(Slot) /\ Append(queues[Here], NewItem) \in Seq(Item)
    BY <2>1, <2>2
  <2>4. /\ next_at' = [next_at EXCEPT ![Here] = SlotReady]
        /\ slots' = [slots EXCEPT ![Here] = Append(slots[Here], NewSlot)]
        /\ queues' = [queues EXCEPT ![Here] = Append(queues[Here], NewItem)]
        /\ cur' = Idle
    BY ReserveFacts DEF UInv
  <2>. QED  BY <2>1, <2>2, <2>3, <2>4
<1>2. UNCHANGED <<now, rate_bps, seen, sent, stats, rows, events, stopped, worker>>
  BY DEF Reserve, clockVars
<1>. QED  BY <1>1, <1>2 DEF UInv, UdpTypeOK, RingKeepsItsRows, Item

(* What leaves a queue.                                                    *)
LEMMA HeadFacts ==
    ASSUME UdpTypeOK, NEW d \in Dirs, Due(d)
    PROVE  /\ Head(queues[d]) \in Item /\ Head(queues[d]).ready <= now
           /\ Tail(queues[d]) \in Seq(Item) /\ Len(Tail(queues[d])) = Len(queues[d]) - 1
           /\ Len(queues[d]) \in Nat /\ Len(queues[d]) >= 1
<1>1. queues[d] \in Seq(Item) /\ queues[d] # <<>>
  BY DEF UdpTypeOK, Due, Item
<1>. QED  BY <1>1, TailFacts DEF Due

LEMMA LeaveInv ==
    ASSUME UInv, UNCHANGED clockVars, NEW d \in Dirs, Send(d) \/ SendBlocked(d) \/ WorkerFails(d)
    PROVE  UdpTypeOK' /\ RingKeepsItsRows'
<1> USE DEF UInv
<1>1. Due(d)
  BY DEF Send, SendBlocked, WorkerFails
<1>2. Head(queues[d]) \in Item /\ Tail(queues[d]) \in Seq(Item)
  BY <1>1, HeadFacts
<1>3. queues' = [queues EXCEPT ![d] = Tail(queues[d])]
  BY DEF Send, SendBlocked, WorkerFails
<1>4. queues' \in [Dirs -> Seq(Item)]
  BY <1>2, <1>3 DEF UdpTypeOK, Item
<1>5. /\ FinishRow(rows, events, Head(queues[d]).event) \in Seq(Row)
      /\ Len(FinishRow(rows, events, Head(queues[d]).event)) <= TraceCapacity
      /\ \A i \in 1..Len(FinishRow(rows, events, Head(queues[d]).event)) :
            FinishRow(rows, events, Head(queues[d]).event)[i].event
              = events - Len(FinishRow(rows, events, Head(queues[d]).event)) + i - 1
  BY <1>2, RowsAreRows DEF Item
<1>6. rows' \in Seq(Row) /\ Len(rows') <= TraceCapacity /\ RingKeepsItsRows'
  <2>1. events' = events /\ rows' \in {rows, FinishRow(rows, events, Head(queues[d]).event)}
    BY DEF Send, SendBlocked, WorkerFails
  <2>2. rows \in Seq(Row) /\ Len(rows) <= TraceCapacity
    BY DEF UdpTypeOK, Row
  <2>3. CASE rows' = rows
    BY <2>1, <2>2, <2>3 DEF RingKeepsItsRows
  <2>4. CASE rows' # rows
    BY <2>1, <2>4, <1>5 DEF RingKeepsItsRows
  <2>. QED  BY <2>3, <2>4
<1>7. stats' \in [Dirs -> [received : Nat, sent : Nat, drops : Nat]]
  BY CountFacts DEF Send, SendBlocked, WorkerFails, Counters
<1>8. sent' \in [Dirs -> Seq(Departure)]
  <2>1. CASE Send(d)
    <3>1. [pkt |-> Head(queues[d]).pkt, at |-> now, ready |-> Head(queues[d]).ready] \in Departure
      BY <1>2 DEF Departure, Item, UdpTypeOK
    <3>. QED  BY <2>1, <3>1, AppendFacts DEF Send, UdpTypeOK, Departure
  <2>2. CASE SendBlocked(d) \/ WorkerFails(d)
    BY <2>2 DEF SendBlocked, WorkerFails, UdpTypeOK, Departure
  <2>. QED  BY <2>1, <2>2
<1>. QED  BY <1>4, <1>6, <1>7, <1>8 DEF Send, SendBlocked, WorkerFails, UdpTypeOK, clockVars, Item, Row, Departure

LEMMA ClockInv ==
    ASSUME UInv, Tick \/ \E r \in Rates : SetRate(r), UNCHANGED udpVars
    PROVE  UdpTypeOK' /\ RingKeepsItsRows'
<1>1. now' \in Nat /\ rate_bps' \in Nat
  BY RatesAssumption DEF UInv, UdpTypeOK, Tick, SetRate
<1>. QED  BY <1>1 DEF UInv, UdpTypeOK, RingKeepsItsRows, udpVars

-----------------------------------------------------------------------------
(* Capacity: every slot starts at or after the end of the one before, and  *)
(* nothing leaves before the end of its slot.                              *)

SlotsInOrder(d) == \A i \in 1..(Len(slots[d]) - 1) : slots[d][i].ready <= slots[d][i + 1].from
LeftInTime(d) == \A i \in 1..Len(sent[d]) : sent[d][i].at >= sent[d][i].ready
CapacityInv == ClockIsLastSlot /\ \A d \in Dirs : SlotsInOrder(d) /\ LeftInTime(d)

LEMMA CapacityFollows == UdpTypeOK /\ CapacityInv => CapacityKept
<1> SUFFICES ASSUME UdpTypeOK, CapacityInv PROVE CapacityKept
  OBVIOUS
<1>1. \A d \in Dirs : DOMAIN sent[d] = 1..Len(sent[d])
  BY DEF UdpTypeOK
<1>. QED  BY <1>1 DEF CapacityInv, CapacityKept, SlotsInOrder, LeftInTime

LEMMA ReserveCapacity ==
    ASSUME UdpTypeOK, CapacityInv, Reserve
    PROVE  CapacityInv'
<1>1. /\ Here \in Dirs /\ NewSlot \in Slot /\ SlotFrom >= next_at[Here]
      /\ SlotFrom \in Nat /\ SlotReady \in Nat /\ next_at[Here] \in Nat
      /\ next_at \in [Dirs -> Nat] /\ slots \in [Dirs -> Seq(Slot)]
      /\ next_at' = [next_at EXCEPT ![Here] = SlotReady]
      /\ slots' = [slots EXCEPT ![Here] = Append(slots[Here], NewSlot)]
  BY ReserveFacts DEF UdpTypeOK
<1>2. sent' = sent
  BY DEF Reserve
<1>3. NewSlot.from = SlotFrom /\ NewSlot.ready = SlotReady
  BY DEF NewSlot
<1> SUFFICES ASSUME NEW d \in Dirs
             PROVE  /\ slots'[d] # <<>> => next_at'[d] = slots'[d][Len(slots'[d])].ready
                    /\ \A i \in 1..Len(slots'[d]) : slots'[d][i] \in Slot
                    /\ \A i \in 1..(Len(slots'[d]) - 1) : slots'[d][i].ready <= slots'[d][i + 1].from
                    /\ LeftInTime(d)'
  BY DEF CapacityInv, ClockIsLastSlot, SlotsInOrder
<1>4. LeftInTime(d)'
  BY <1>2 DEF CapacityInv, LeftInTime
<1>5. CASE d # Here
  <2>1. slots'[d] = slots[d] /\ next_at'[d] = next_at[d]
    BY <1>1, <1>5
  <2>. QED  BY <1>4, <2>1 DEF CapacityInv, ClockIsLastSlot, SlotsInOrder
<1>6. CASE d = Here
  <2>1. /\ slots'[d] = Append(slots[d], NewSlot) /\ next_at'[d] = SlotReady
        /\ Len(slots'[d]) = Len(slots[d]) + 1 /\ Len(slots[d]) \in Nat
        /\ slots'[d][Len(slots[d]) + 1] = NewSlot
        /\ \A i \in 1..Len(slots[d]) : slots'[d][i] = slots[d][i] /\ slots[d][i] \in Slot
    BY <1>1, <1>6
  <2>2. ASSUME NEW i \in 1..(Len(slots'[d]) - 1)
        PROVE  slots'[d][i].ready <= slots'[d][i + 1].from
    <3>1. CASE i = Len(slots[d])
      <4>1. slots[d] # <<>>
        BY <2>1, <3>1
      <4>2. slots[d][i].ready = next_at[d]
        BY <3>1, <4>1 DEF CapacityInv, ClockIsLastSlot
      <4>. QED  BY <1>1, <1>3, <1>6, <2>1, <3>1, <4>2
    <3>2. CASE i # Len(slots[d])
      <4>1. i \in 1..(Len(slots[d]) - 1) /\ i + 1 \in 1..Len(slots[d]) /\ i \in 1..Len(slots[d])
        BY <2>1, <3>2
      <4>. QED  BY <2>1, <4>1 DEF CapacityInv, SlotsInOrder
    <3>. QED  BY <3>1, <3>2
  <2>3. \A i \in 1..Len(slots'[d]) : slots'[d][i] \in Slot
    BY <1>1, <2>1
  <2>. QED  BY <1>3, <1>4, <2>1, <2>2, <2>3
<1>. QED  BY <1>5, <1>6

LEMMA SendCapacity ==
    ASSUME UdpTypeOK, CapacityInv, NEW e \in Dirs, Send(e)
    PROVE  CapacityInv'
<1>1. UNCHANGED <<slots, next_at>>
  BY DEF Send
<1>2. Head(queues[e]) \in Item /\ Head(queues[e]).ready <= now
  BY HeadFacts DEF Send
<1>3. /\ sent \in [Dirs -> Seq(Departure)]
      /\ sent' = [sent EXCEPT ![e] = Append(sent[e],
            [pkt |-> Head(queues[e]).pkt, at |-> now, ready |-> Head(queues[e]).ready])]
  BY DEF Send, UdpTypeOK, Departure
<1>4. ASSUME NEW d \in Dirs PROVE LeftInTime(d)'
  <2>1. CASE d # e
    BY <1>3, <2>1 DEF CapacityInv, LeftInTime
  <2>2. CASE d = e
    <3> DEFINE new == [pkt |-> Head(queues[e]).pkt, at |-> now, ready |-> Head(queues[e]).ready]
    <3>1. new \in Departure
      BY <1>2 DEF Item, Departure, UdpTypeOK
    <3>2. /\ sent'[d] = Append(sent[d], new) /\ Len(sent'[d]) = Len(sent[d]) + 1
          /\ Len(sent[d]) \in Nat /\ sent'[d][Len(sent[d]) + 1] = new
          /\ \A i \in 1..Len(sent[d]) : sent'[d][i] = sent[d][i]
      BY <1>3, <2>2, <3>1
    <3>3. new.at >= new.ready
      BY <1>2 DEF Item, UdpTypeOK
    <3>. QED  BY <3>2, <3>3 DEF CapacityInv, LeftInTime
  <2>. QED  BY <2>1, <2>2
<1>. QED  BY <1>1, <1>4 DEF CapacityInv, ClockIsLastSlot, SlotsInOrder

-----------------------------------------------------------------------------
(* Conservation: what rest there is, is in a queue or in hand.             *)

Rest(d) == stats[d].received - stats[d].sent - stats[d].drops - Len(queues[d]) - InHand(d)

ConservationInv ==
    /\ \A d \in Dirs : Rest(d) \in (IF worker = "failed" THEN {0, 1} ELSE {0})
    /\ worker = "failed" => cur = Idle

Settled(d) == stats[d].received - stats[d].sent - stats[d].drops

LEMMA RestIsSettled ==
    ASSUME NEW d \in Dirs
    PROVE  /\ Rest(d) = Settled(d) - Len(queues[d]) - InHand(d)
           /\ Rest(d)' = Settled(d)' - Len(queues'[d]) - InHand(d)'
           /\ Settled(d)' = stats'[d].received - stats'[d].sent - stats'[d].drops
BY DEF Rest, Settled

LEMMA CountSettles ==
    ASSUME UdpTypeOK, NEW d \in Dirs, NEW e \in Dirs
    PROVE  /\ Settled(d) \in Int
           /\ stats' = stats => Settled(d)' = Settled(d)
           /\ stats' = Count(e, "received") => Settled(d)' = Settled(d) + (IF d = e THEN 1 ELSE 0)
           /\ stats' \in {Count(e, "sent"), Count(e, "drops")}
                => Settled(d)' = Settled(d) - (IF d = e THEN 1 ELSE 0)
<1>1. stats[d].received \in Nat /\ stats[d].sent \in Nat /\ stats[d].drops \in Nat /\ stats[d] \in Counters
  BY DEF UdpTypeOK, Counters
<1>2. Settled(d) = stats[d].received - stats[d].sent - stats[d].drops /\ Settled(d) \in Int
  BY <1>1 DEF Settled
<1>3. Settled(d)' = stats'[d].received - stats'[d].sent - stats'[d].drops
  BY DEF Settled
<1>4. CASE d # e
  <2>1. /\ Count(e, "received")[d] = stats[d] /\ Count(e, "sent")[d] = stats[d]
        /\ Count(e, "drops")[d] = stats[d]
    BY <1>4, CountFacts
  <2>2. stats'[d] = stats[d] => Settled(d)' = Settled(d)
    BY <1>2, <1>3
  <2>. QED  BY <1>2, <1>4, <2>1, <2>2
<1>5. CASE d = e
  <2>1. stats' = stats => Settled(d)' = Settled(d)
    BY <1>2, <1>3
  <2>2. ASSUME stats' = Count(e, "received") PROVE Settled(d)' = Settled(d) + 1
    <3>1. stats'[d] = [stats[d] EXCEPT !.received = @ + 1]
      BY <1>5, <2>2, CountFacts
    <3>2. /\ stats'[d].received = stats[d].received + 1
          /\ stats'[d].sent = stats[d].sent /\ stats'[d].drops = stats[d].drops
      BY <1>1, <3>1 DEF Counters
    <3>. QED  BY <1>1, <1>2, <1>3, <3>2
  <2>3. ASSUME stats' = Count(e, "sent") PROVE Settled(d)' = Settled(d) - 1
    <3>1. stats'[d] = [stats[d] EXCEPT !.sent = @ + 1]
      BY <1>5, <2>3, CountFacts
    <3>2. /\ stats'[d].received = stats[d].received
          /\ stats'[d].sent = stats[d].sent + 1 /\ stats'[d].drops = stats[d].drops
      BY <1>1, <3>1 DEF Counters
    <3>. QED  BY <1>1, <1>2, <1>3, <3>2
  <2>4. ASSUME stats' = Count(e, "drops") PROVE Settled(d)' = Settled(d) - 1
    <3>1. stats'[d] = [stats[d] EXCEPT !.drops = @ + 1]
      BY <1>5, <2>4, CountFacts
    <3>2. /\ stats'[d].received = stats[d].received
          /\ stats'[d].sent = stats[d].sent /\ stats'[d].drops = stats[d].drops + 1
      BY <1>1, <3>1 DEF Counters
    <3>. QED  BY <1>1, <1>2, <1>3, <3>2
  <2>. QED  BY <1>2, <1>5, <2>1, <2>2, <2>3, <2>4
<1>. QED  BY <1>4, <1>5

LEMMA ConservationStep ==
    ASSUME UdpTypeOK, ConservationInv, UdpStep
    PROVE  ConservationInv'
<1>0. \A d \in Dirs : /\ stats[d] \in Counters /\ Len(queues[d]) \in Nat
                      /\ stats[d].received \in Nat /\ stats[d].sent \in Nat /\ stats[d].drops \in Nat
  BY DEF UdpTypeOK, Counters
<1>1. ASSUME NEW p \in Packets, Receive(p) PROVE ConservationInv'
  <2>1. PDir[p] \in Dirs
    BY UdpAssumption DEF Dirs
  <2>2. /\ worker = "running" /\ worker' = worker /\ cur = Idle /\ queues' = queues
        /\ stats' = Count(PDir[p], "received")
        /\ cur'.pkt = p /\ cur'.phase = "check"
    BY <1>1 DEF Receive
  <2>3. cur' # Idle
    BY <2>2 DEF Idle
  <2>4. ASSUME NEW d \in Dirs PROVE Rest(d)' = Rest(d)
    <3>1. InHand(d) = 0 /\ InHand(d)' = (IF d = PDir[p] THEN 1 ELSE 0)
      BY <2>2, <2>3 DEF InHand
    <3>2. Settled(d) \in Int /\ Settled(d)' = Settled(d) + (IF d = PDir[p] THEN 1 ELSE 0)
      BY <2>1, <2>2, CountSettles
    <3>. QED  BY <1>0, <2>2, <3>1, <3>2, RestIsSettled
  <2>. QED  BY <2>2, <2>4 DEF ConservationInv
<1>2. ASSUME Overflow PROVE ConservationInv'
  <2>1. Here \in Dirs /\ cur # Idle
    BY <1>2, BusyIsNotIdle, InHandType DEF Overflow, Here
  <2>2. worker' = worker /\ cur' = Idle /\ queues' = queues /\ stats' = Count(Here, "drops")
    BY <1>2 DEF Overflow, Here
  <2>3. ASSUME NEW d \in Dirs PROVE Rest(d)' = Rest(d)
    <3>1. InHand(d)' = 0 /\ InHand(d) = (IF d = Here THEN 1 ELSE 0)
      BY <2>1, <2>2 DEF InHand, Here
    <3>2. Settled(d) \in Int /\ Settled(d)' = Settled(d) - (IF d = Here THEN 1 ELSE 0)
      BY <2>1, <2>2, CountSettles
    <3>. QED  BY <1>0, <2>2, <3>1, <3>2, RestIsSettled
  <2>. QED  BY <2>2, <2>3 DEF ConservationInv
<1>3. ASSUME Admit PROVE ConservationInv'
  <2>1. /\ cur \in InCheck /\ cur' = [cur EXCEPT !.phase = "reserve"]
        /\ UNCHANGED <<stats, queues, worker>>
    BY <1>3, BusyIsNotIdle, InHandType DEF Admit
  <2>2. cur # Idle /\ cur' # Idle /\ cur'.pkt = cur.pkt
    BY <2>1 DEF InCheck, Idle
  <2>3. \A d \in Dirs : Rest(d)' = Rest(d)
    BY <2>1, <2>2 DEF Rest, InHand
  <2>. QED  BY <2>1, <2>2, <2>3 DEF ConservationInv
<1>4. ASSUME Reserve PROVE ConservationInv'
  <2>1. /\ Here \in Dirs /\ NewItem \in Item /\ cur' = Idle /\ cur # Idle
        /\ queues' = [queues EXCEPT ![Here] = Append(queues[Here], NewItem)]
        /\ queues \in [Dirs -> Seq(Item)]
    BY <1>4, ReserveFacts DEF UdpTypeOK, Item
  <2>2. stats' = stats /\ worker' = worker
    BY <1>4 DEF Reserve
  <2>3. ASSUME NEW d \in Dirs PROVE Rest(d)' = Rest(d)
    <3>1. InHand(d)' = 0 /\ InHand(d) = (IF d = Here THEN 1 ELSE 0)
      BY <2>1 DEF InHand, Here
    <3>2. Settled(d) \in Int /\ Settled(d)' = Settled(d)
      BY <2>1, <2>2, CountSettles
    <3>3. CASE d = Here
      <4>1. Len(queues'[d]) = Len(queues[d]) + 1
        BY <2>1, <3>3
      <4>. QED  BY <1>0, <3>1, <3>2, <3>3, <4>1, RestIsSettled
    <3>4. CASE d # Here
      <4>1. queues'[d] = queues[d]
        BY <2>1, <3>4
      <4>. QED  BY <1>0, <3>1, <3>2, <3>4, <4>1, RestIsSettled
    <3>. QED  BY <3>3, <3>4
  <2>. QED  BY <2>1, <2>2, <2>3 DEF ConservationInv
<1>5. ASSUME NEW e \in Dirs, Send(e) \/ SendBlocked(e) PROVE ConservationInv'
  <2>1. /\ worker = "running" /\ worker' = worker /\ cur = Idle /\ cur' = Idle /\ Due(e)
        /\ queues' = [queues EXCEPT ![e] = Tail(queues[e])]
        /\ stats' \in {Count(e, "sent"), Count(e, "drops")}
    BY <1>5 DEF Send, SendBlocked
  <2>2. Len(Tail(queues[e])) = Len(queues[e]) - 1
    BY <2>1, HeadFacts
  <2>3. ASSUME NEW d \in Dirs PROVE Rest(d)' = Rest(d)
    <3>0. InHand(d) = 0 /\ InHand(d)' = 0
      BY <2>1 DEF InHand
    <3>1. Settled(d) \in Int /\ Settled(d)' = Settled(d) - (IF d = e THEN 1 ELSE 0)
      BY <2>1, CountSettles
    <3>2. queues \in [Dirs -> Seq(Item)]
      BY DEF UdpTypeOK, Item
    <3>3. CASE d = e
      <4>1. queues'[d] = Tail(queues[d]) /\ Len(Tail(queues[d])) = Len(queues[d]) - 1
        BY <2>1, <2>2, <3>2, <3>3
      <4>2. Settled(d)' = Settled(d) - 1
        BY <3>1, <3>3
      <4>3. Len(queues'[d]) = Len(queues[d]) - 1 /\ Len(queues[d]) \in Nat /\ Settled(d) \in Int
        BY <1>0, <3>1, <4>1
      <4>4. Rest(d) = Settled(d) - Len(queues[d]) - 0 /\ Rest(d)' = Settled(d)' - Len(queues'[d]) - 0
        BY <3>0, RestIsSettled
      <4>. QED  BY <4>2, <4>3, <4>4
    <3>4. CASE d # e
      <4>1. queues'[d] = queues[d]
        BY <2>1, <3>2, <3>4
      <4>. QED  BY <1>0, <3>0, <3>1, <3>4, <4>1, RestIsSettled
    <3>. QED  BY <3>3, <3>4
  <2>. QED  BY <2>1, <2>3 DEF ConservationInv
<1>6. ASSUME NEW e \in Dirs, WorkerFails(e) PROVE ConservationInv'
  <2>1. /\ worker = "running" /\ worker' = "failed" /\ cur = Idle /\ cur' = Idle /\ Due(e)
        /\ queues' = [queues EXCEPT ![e] = Tail(queues[e])] /\ stats' = stats
    BY <1>6 DEF WorkerFails
  <2>2. Len(Tail(queues[e])) = Len(queues[e]) - 1
    BY <2>1, HeadFacts
  <2>3. ASSUME NEW d \in Dirs PROVE Rest(d)' \in {0, 1}
    <3>0. InHand(d) = 0 /\ InHand(d)' = 0 /\ Rest(d) = 0
      BY <2>1 DEF InHand, ConservationInv
    <3>1. Len(queues'[d]) \in {Len(queues[d]), Len(queues[d]) - 1}
      BY <2>1, <2>2 DEF UdpTypeOK
    <3>2. Settled(d) \in Int /\ Settled(d)' = Settled(d) /\ Len(queues[d]) \in Nat
      BY <1>0, <2>1, CountSettles
    <3>3. Rest(d) = Settled(d) - Len(queues[d]) - 0 /\ Rest(d)' = Settled(d)' - Len(queues'[d]) - 0
      BY <3>0, RestIsSettled
    <3>4. Settled(d) = Len(queues[d])
      BY <3>0, <3>2, <3>3
    <3>5. CASE Len(queues'[d]) = Len(queues[d])
      <4>1. Rest(d)' = 0
        BY <3>2, <3>3, <3>4, <3>5
      <4>. QED  BY <4>1
    <3>6. CASE Len(queues'[d]) = Len(queues[d]) - 1
      <4>1. Rest(d)' = 1
        BY <3>2, <3>3, <3>4, <3>6
      <4>. QED  BY <4>1
    <3>. QED  BY <3>1, <3>5, <3>6
  <2>. QED  BY <2>1, <2>3 DEF ConservationInv
<1>7. ASSUME RequestStop \/ WorkerExits PROVE ConservationInv'
  BY <1>7 DEF RequestStop, WorkerExits, ConservationInv, Rest, InHand
<1>. QED  BY <1>1, <1>2, <1>3, <1>4, <1>5, <1>6, <1>7 DEF UdpStep

-----------------------------------------------------------------------------
(* Delay: no datagram reserves with more than max_queue_ms before it.  The *)
(* queue is not looked at while no rate is set, but then no reservation    *)
(* clock is ahead of the time.                                             *)

SlotBounded(s) == \E r \in Rates \cup {0} : s.ready - s.at <= MaxQueue + Service(PSize[s.pkt], r)

DelayInv ==
    /\ rate_bps \in Rates \cup {0}
    /\ rate_bps = 0 => \A d \in Dirs : next_at[d] <= now
    /\ cur # Idle => /\ cur.at <= now
                     /\ rate_bps = 0 => next_at[Here] <= cur.at
                     /\ cur.phase = "reserve" => next_at[Here] - cur.at <= MaxQueue
    /\ \A d \in Dirs : \A i \in 1..Len(slots[d]) : SlotBounded(slots[d][i])

LEMMA DelayFollows == UdpTypeOK /\ DelayInv => BoundedDelay
<1>1. ASSUME UdpTypeOK PROVE \A d \in Dirs : DOMAIN slots[d] = 1..Len(slots[d])
  BY <1>1 DEF UdpTypeOK
<1>. QED  BY <1>1 DEF DelayInv, BoundedDelay, SlotBounded

LEMMA BusyFacts ==
    ASSUME UdpTypeOK, cur # Idle
    PROVE  Here \in Dirs /\ next_at[Here] \in Nat /\ cur.at \in Nat /\ now \in Nat /\ rate_bps \in Nat
<1>1. Here \in Dirs /\ cur.at \in Nat
  BY InHandType DEF Here
<1>. QED  BY <1>1 DEF UdpTypeOK

LEMMA ReserveDelay ==
    ASSUME UdpTypeOK, DelayInv, Reserve, UNCHANGED clockVars
    PROVE  DelayInv'
<1>1. /\ Here \in Dirs /\ SlotReady \in Nat /\ SlotFrom \in Nat /\ NewSlot \in Slot
      /\ next_at' = [next_at EXCEPT ![Here] = SlotReady]
      /\ slots' = [slots EXCEPT ![Here] = Append(slots[Here], NewSlot)]
      /\ cur' = Idle /\ cur # Idle /\ cur.phase = "reserve" /\ now' = now /\ rate_bps' = rate_bps
      /\ next_at \in [Dirs -> Nat] /\ slots \in [Dirs -> Seq(Slot)]
  BY ReserveFacts DEF Reserve, UdpTypeOK, clockVars
<1>2. next_at[Here] \in Nat /\ cur.at \in Nat /\ now \in Nat /\ rate_bps \in Nat
  BY <1>1, BusyFacts
<1>3. next_at[Here] - cur.at <= MaxQueue /\ cur.at <= now
  BY <1>1 DEF DelayInv
<1>4. SlotFrom - cur.at <= MaxQueue
  BY <1>2, <1>3, TimeAssumption DEF SlotFrom, MaxOf
<1>5. Service(PSize[cur.pkt], rate_bps) \in Nat
  BY <1>1, <1>2, InHandType, ServiceIsNat
<1>6. SlotReady - cur.at <= MaxQueue + Service(PSize[cur.pkt], rate_bps)
  BY <1>1, <1>2, <1>4, <1>5, TimeAssumption DEF SlotReady
<1>7. SlotBounded(NewSlot)
  BY <1>6 DEF SlotBounded, NewSlot, DelayInv
<1>8. ASSUME NEW d \in Dirs, NEW i \in 1..Len(slots'[d]) PROVE SlotBounded(slots'[d][i])
  <2>1. CASE d # Here
    BY <1>1, <1>8, <2>1 DEF DelayInv
  <2>2. CASE d = Here
    <3>1. /\ slots'[d] = Append(slots[d], NewSlot) /\ Len(slots'[d]) = Len(slots[d]) + 1
          /\ Len(slots[d]) \in Nat /\ slots'[d][Len(slots[d]) + 1] = NewSlot
          /\ \A j \in 1..Len(slots[d]) : slots'[d][j] = slots[d][j]
      BY <1>1, <2>2
    <3>2. CASE i = Len(slots[d]) + 1
      BY <1>7, <3>1, <3>2
    <3>3. CASE i # Len(slots[d]) + 1
      <4>1. i \in 1..Len(slots[d])
        BY <1>8, <3>1, <3>3
      <4>. QED  BY <3>1, <4>1 DEF DelayInv
    <3>. QED  BY <3>2, <3>3
  <2>. QED  BY <2>1, <2>2
<1>9. ASSUME rate_bps = 0, NEW d \in Dirs PROVE next_at'[d] <= now
  <2>1. CASE d # Here
    BY <1>1, <1>9, <2>1 DEF DelayInv
  <2>2. CASE d = Here
    <3>1. SlotReady = SlotFrom + 0 /\ next_at[Here] <= now
      BY <1>1, <1>9 DEF SlotReady, Service, DelayInv
    <3>2. SlotFrom <= now
      BY <1>2, <1>3, <3>1 DEF SlotFrom, MaxOf
    <3>. QED  BY <1>1, <1>2, <2>2, <3>1, <3>2
  <2>. QED  BY <2>1, <2>2
<1>. QED  BY <1>1, <1>8, <1>9 DEF DelayInv, SlotBounded

LEMMA DelayStep ==
    ASSUME UdpTypeOK, DelayInv, [UdpNext]_<<clockVars, udpVars>>
    PROVE  DelayInv'
<1>0. next_at \in [Dirs -> Nat] /\ now \in Nat /\ rate_bps \in Nat
  BY DEF UdpTypeOK
<1>1. ASSUME NEW p \in Packets, Receive(p), UNCHANGED clockVars PROVE DelayInv'
  <2>1. /\ PDir[p] \in Dirs /\ cur'.pkt = p /\ cur'.at = now /\ cur'.phase = "check"
        /\ UNCHANGED <<next_at, slots, now, rate_bps>>
    BY <1>1, UdpAssumption DEF Receive, Dirs, clockVars
  <2>. QED  BY <1>0, <2>1 DEF DelayInv, SlotBounded, Here
<1>2. ASSUME Admit, UNCHANGED clockVars PROVE DelayInv'
  <2>1. /\ cur # Idle /\ cur \in InCheck /\ cur' = [cur EXCEPT !.phase = "reserve"]
        /\ UNCHANGED <<next_at, slots, now, rate_bps>>
        /\ rate_bps = 0 \/ Backlog(Here, cur.at) < MaxQueue
    BY <1>2, BusyIsNotIdle, InHandType DEF Admit, clockVars, Here
  <2>2. cur'.at = cur.at /\ Here' = Here
    BY <2>1 DEF InCheck, Here
  <2>3. next_at[Here] \in Nat /\ cur.at \in Nat /\ cur.at <= now
    BY <2>1, BusyFacts DEF DelayInv
  <2>4. next_at[Here] - cur.at <= MaxQueue
    <3>1. CASE rate_bps = 0
      BY <2>1, <2>3, <3>1, TimeAssumption DEF DelayInv
    <3>2. CASE Backlog(Here, cur.at) < MaxQueue
      BY <2>3, <3>2, TimeAssumption DEF Backlog, MaxOf
    <3>. QED  BY <2>1, <3>1, <3>2
  <2>. QED  BY <2>1, <2>2, <2>3, <2>4 DEF DelayInv, SlotBounded
<1>3. ASSUME \/ Overflow \/ RequestStop \/ WorkerExits
             \/ \E d \in Dirs : Send(d) \/ SendBlocked(d) \/ WorkerFails(d),
             UNCHANGED clockVars
      PROVE  DelayInv'
  <2>1. UNCHANGED <<next_at, slots, now, rate_bps>> /\ cur' \in {cur, Idle}
    BY <1>3 DEF Overflow, Send, SendBlocked, WorkerFails, RequestStop, WorkerExits, clockVars
  <2>. QED  BY <2>1 DEF DelayInv, SlotBounded, Here
<1>4. ASSUME Tick, UNCHANGED udpVars PROVE DelayInv'
  <2>1. now' = now + 1 /\ rate_bps' = rate_bps /\ UNCHANGED <<next_at, slots, cur>>
    BY <1>4 DEF Tick, udpVars
  <2>2. \A d \in Dirs : next_at[d] <= now => next_at[d] <= now'
    BY <1>0, <2>1
  <2>3. cur # Idle => cur.at \in Nat
    BY BusyFacts
  <2>4. cur # Idle /\ cur.at <= now => cur.at <= now'
    BY <1>0, <2>1, <2>3
  <2>. QED  BY <2>1, <2>2, <2>4 DEF DelayInv, SlotBounded, Here
<1>5. ASSUME NEW r \in Rates, SetRate(r), UNCHANGED udpVars PROVE DelayInv'
  <2>1. rate_bps' = r /\ r # 0 /\ now' = now /\ UNCHANGED <<next_at, slots, cur>>
    BY <1>5, RatesAssumption DEF SetRate, udpVars
  <2>. QED  BY <2>1 DEF DelayInv, SlotBounded, Here
<1>6. ASSUME UNCHANGED <<clockVars, udpVars>> PROVE DelayInv'
  BY <1>6 DEF DelayInv, SlotBounded, Here, clockVars, udpVars
<1>7. CASE UdpStep /\ UNCHANGED clockVars
  BY <1>1, <1>2, <1>3, <1>7, ReserveDelay DEF UdpStep
<1>. QED  BY <1>4, <1>5, <1>6, <1>7 DEF UdpNext

-----------------------------------------------------------------------------
(* Order: a direction is an ordered link.                                  *)

(* A datagram reserves once: it has been seen before, and the one in hand  *)
(* has not reserved yet.                                                   *)
UsedInv ==
    /\ cur # Idle => cur.pkt \in seen
    /\ \A d \in Dirs : \A i \in 1..Len(slots[d]) :
          slots[d][i].pkt \in seen /\ (cur # Idle => slots[d][i].pkt # cur.pkt)

LEMMA UsedStep ==
    ASSUME UdpTypeOK, UsedInv, UdpStep
    PROVE  UsedInv'
<1>1. ASSUME NEW p \in Packets, Receive(p) PROVE UsedInv'
  <2>1. p \notin seen /\ seen' = seen \cup {p} /\ slots' = slots /\ cur'.pkt = p
    BY <1>1 DEF Receive
  <2>. QED  BY <2>1 DEF UsedInv
<1>2. ASSUME Admit PROVE UsedInv'
  <2>1. cur # Idle /\ cur \in InCheck /\ cur' = [cur EXCEPT !.phase = "reserve"]
        /\ slots' = slots /\ seen' = seen
    BY <1>2, BusyIsNotIdle, InHandType DEF Admit
  <2>2. cur'.pkt = cur.pkt
    BY <2>1 DEF InCheck
  <2>. QED  BY <2>1, <2>2 DEF UsedInv
<1>3. ASSUME Reserve PROVE UsedInv'
  <2>1. /\ Here \in Dirs /\ NewSlot \in Slot /\ cur' = Idle /\ cur # Idle /\ seen' = seen
        /\ slots' = [slots EXCEPT ![Here] = Append(slots[Here], NewSlot)]
        /\ slots \in [Dirs -> Seq(Slot)]
    BY <1>3, ReserveFacts DEF Reserve, UdpTypeOK
  <2>2. NewSlot.pkt = cur.pkt
    BY DEF NewSlot
  <2>3. ASSUME NEW d \in Dirs, NEW i \in 1..Len(slots'[d]) PROVE slots'[d][i].pkt \in seen
    <3>1. CASE d # Here
      BY <2>1, <2>3, <3>1 DEF UsedInv
    <3>2. CASE d = Here
      <4>1. /\ Len(slots'[d]) = Len(slots[d]) + 1 /\ Len(slots[d]) \in Nat
            /\ slots'[d][Len(slots[d]) + 1] = NewSlot
            /\ \A j \in 1..Len(slots[d]) : slots'[d][j] = slots[d][j]
        BY <2>1, <3>2
      <4>2. CASE i \in 1..Len(slots[d])
        BY <4>1, <4>2 DEF UsedInv
      <4>3. CASE i = Len(slots[d]) + 1
        BY <2>1, <2>2, <4>1, <4>3 DEF UsedInv
      <4>. QED  BY <2>3, <4>1, <4>2, <4>3
    <3>. QED  BY <3>1, <3>2
  <2>. QED  BY <2>1, <2>3 DEF UsedInv
<1>4. ASSUME \/ Overflow \/ RequestStop \/ WorkerExits
             \/ \E d \in Dirs : Send(d) \/ SendBlocked(d) \/ WorkerFails(d)
      PROVE  UsedInv'
  <2>1. slots' = slots /\ seen' = seen /\ cur' \in {cur, Idle}
    BY <1>4 DEF Overflow, Send, SendBlocked, WorkerFails, RequestStop, WorkerExits
  <2>. QED  BY <2>1 DEF UsedInv
<1>. QED  BY <1>1, <1>2, <1>3, <1>4 DEF UdpStep

-----------------------------------------------------------------------------
(* The inductive invariant and the theorems.                               *)

UdpInv == UInv /\ CapacityInv /\ ConservationInv /\ DelayInv /\ UsedInv

LEMMA UdpInitInv == ClockInit /\ UdpInit => UdpInv
<1> SUFFICES ASSUME ClockInit, UdpInit PROVE UdpInv
  OBVIOUS
<1>1. UdpTypeOK
  <2>1. /\ queues \in [Dirs -> Seq([pkt : Packets, ready : Nat, event : EventId])]
        /\ slots \in [Dirs -> Seq(Slot)]
        /\ sent \in [Dirs -> Seq([pkt : Packets, at : Nat, ready : Nat])]
    BY DEF UdpInit
  <2>2. stats \in [Dirs -> [received : Nat, sent : Nat, drops : Nat]]
    BY DEF UdpInit
  <2>3. rows \in Seq([event : Nat, done : BOOLEAN]) /\ Len(rows) <= TraceCapacity
    BY UdpAssumption DEF UdpInit
  <2>. QED  BY <2>1, <2>2, <2>3 DEF UdpInit, ClockInit, UdpTypeOK
<1>2. RingKeepsItsRows
  BY DEF UdpInit, RingKeepsItsRows
<1>3. CapacityInv
  BY DEF UdpInit, CapacityInv, ClockIsLastSlot, SlotsInOrder, LeftInTime
<1>4. ConservationInv
  <2>1. \A d \in Dirs : Len(queues[d]) = 0 /\ InHand(d) = 0
    BY DEF UdpInit, InHand
  <2>2. \A d \in Dirs : stats[d].received = 0 /\ stats[d].sent = 0 /\ stats[d].drops = 0
    BY DEF UdpInit
  <2>. QED  BY <2>1, <2>2 DEF UdpInit, ConservationInv, Rest
<1>5. DelayInv /\ UsedInv
  BY DEF ClockInit, UdpInit, DelayInv, UsedInv
<1>. QED  BY <1>1, <1>2, <1>3, <1>4, <1>5 DEF UdpInv, UInv, CapacityInv

LEMMA UdpStepInv == UdpInv /\ [UdpNext]_<<clockVars, udpVars>> => UdpInv'
<1> SUFFICES ASSUME UdpInv, [UdpNext]_<<clockVars, udpVars>> PROVE UdpInv'
  OBVIOUS
<1> USE DEF UdpInv
<1>0. UdpTypeOK
  BY DEF UInv
<1>4. DelayInv'
  BY <1>0, DelayStep
<1>1. CASE UdpStep /\ UNCHANGED clockVars
  <2>1. UdpTypeOK' /\ RingKeepsItsRows'
    <3>1. CASE RequestStop \/ WorkerExits
      BY <1>1, <3>1 DEF UInv, RequestStop, WorkerExits, UdpTypeOK, RingKeepsItsRows, clockVars
    <3>. QED  BY <1>1, <3>1, ReceiveInv, OverflowInv, AdmitInv, ReserveInv, LeaveInv DEF UdpStep
  <2>2. CapacityInv'
    <3>1. CASE \/ \E p \in Packets : Receive(p)
               \/ Overflow \/ Admit \/ RequestStop \/ WorkerExits
               \/ \E d \in Dirs : SendBlocked(d) \/ WorkerFails(d)
      <4>1. UNCHANGED <<slots, next_at, sent>>
        BY <3>1 DEF Receive, Overflow, Admit, RequestStop, WorkerExits, SendBlocked, WorkerFails
      <4>. QED  BY <4>1 DEF CapacityInv, ClockIsLastSlot, SlotsInOrder, LeftInTime
    <3>. QED  BY <1>0, <1>1, <3>1, ReserveCapacity, SendCapacity DEF UdpStep
  <2>3. ConservationInv'
    BY <1>0, <1>1, ConservationStep
  <2>4. UsedInv'
    BY <1>0, <1>1, UsedStep
  <2>. QED  BY <1>4, <2>1, <2>2, <2>3, <2>4 DEF UInv, CapacityInv
<1>2. CASE (Tick \/ \E r \in Rates : SetRate(r)) /\ UNCHANGED udpVars
  <2>1. UdpTypeOK' /\ RingKeepsItsRows'
    BY <1>2, ClockInv
  <2>. QED  BY <1>2, <1>4, <2>1 DEF UInv, CapacityInv, ClockIsLastSlot, SlotsInOrder, LeftInTime,
                                  ConservationInv, Rest, InHand, UsedInv, udpVars
<1>3. CASE UNCHANGED <<clockVars, udpVars>>
  BY <1>3, <1>4 DEF UInv, UsedInv, UdpTypeOK, RingKeepsItsRows, CapacityInv, ClockIsLastSlot, SlotsInOrder,
              LeftInTime, ConservationInv, Rest, InHand, clockVars, udpVars
<1>. QED  BY <1>1, <1>2, <1>3 DEF UdpNext

(* Every variable stays in its set, and the ring in its capacity.          *)
THEOREM UdpTypes == UdpSpec => []UdpTypeOK
<1>1. UdpInv => UdpTypeOK
  BY DEF UdpInv, UInv
<1>. QED  BY UdpInitInv, UdpStepInv, <1>1, PTL DEF UdpSpec

(* The rows of the ring are those of the newest events (WireTrace).        *)
THEOREM RowsAreKept == UdpSpec => []RingKeepsItsRows
<1>1. UdpInv => RingKeepsItsRows
  BY DEF UdpInv, UInv
<1>. QED  BY UdpInitInv, UdpStepInv, <1>1, PTL DEF UdpSpec

(* Slots do not overlap and nothing leaves early, whenever the rate is set *)
(* (enqueue, run).                                                         *)
THEOREM CapacityIsKept == UdpSpec => []CapacityKept
<1>1. UdpInv => CapacityKept
  BY CapacityFollows DEF UdpInv, UInv
<1>. QED  BY UdpInitInv, UdpStepInv, <1>1, PTL DEF UdpSpec

(* The counters account for every datagram (enqueue, run, run_guarded).    *)
THEOREM CountersAddUp == UdpSpec => []Conservation
<1>1. UdpInv => Conservation
  BY DEF UdpInv, ConservationInv, Conservation, Rest
<1>. QED  BY UdpInitInv, UdpStepInv, <1>1, PTL DEF UdpSpec

(* What is admitted waits at most max_queue_ms and its own service         *)
(* (enqueue), although the queue and the rate are read in separate steps.  *)
THEOREM DelayIsBounded == UdpSpec => []BoundedDelay
<1>1. UdpInv => BoundedDelay
  BY DelayFollows DEF UdpInv, UInv
<1>. QED  BY UdpInitInv, UdpStepInv, <1>1, PTL DEF UdpSpec

-----------------------------------------------------------------------------
(* Each direction implements OrderedLink: a reservation enters the line of *)
(* the link, a departure leaves it at its head, and a refused or failed    *)
(* datagram is forgotten there.                                            *)

LEMMA SameSequence ==
    ASSUME NEW S, NEW s \in Seq(S), NEW t \in Seq(S), Len(s) = Len(t),
           \A i \in 1..Len(s) : s[i] = t[i]
    PROVE  s = t
OBVIOUS

(* The packets of a sequence of records.                                   *)
PktsOf(q) == [i \in DOMAIN q |-> q[i].pkt]

LEMMA PktsFacts ==
    ASSUME NEW q, NEW S, q \in Seq(S), \A x \in S : x.pkt \in Packets
    PROVE  /\ PktsOf(q) \in Seq(Packets) /\ Len(PktsOf(q)) = Len(q)
           /\ \A i \in 1..Len(q) : PktsOf(q)[i] = q[i].pkt
<1>1. DOMAIN q = 1..Len(q) /\ Len(q) \in Nat /\ \A i \in 1..Len(q) : q[i] \in S
  OBVIOUS
<1>2. PktsOf(q) = [i \in 1..Len(q) |-> q[i].pkt]
  BY <1>1 DEF PktsOf
<1>. QED  BY <1>1, <1>2

LEMMA PktsAppend ==
    ASSUME NEW S, NEW q \in Seq(S), NEW x \in S, \A y \in S : y.pkt \in Packets
    PROVE  PktsOf(Append(q, x)) = Append(PktsOf(q), x.pkt)
<1> DEFINE a == PktsOf(Append(q, x))
           b == Append(PktsOf(q), x.pkt)
<1>1. /\ Append(q, x) \in Seq(S) /\ Len(Append(q, x)) = Len(q) + 1 /\ Len(q) \in Nat
      /\ \A i \in 1..Len(q) : Append(q, x)[i] = q[i]
      /\ Append(q, x)[Len(q) + 1] = x
  OBVIOUS
<1>2. /\ PktsOf(q) \in Seq(Packets) /\ Len(PktsOf(q)) = Len(q)
      /\ \A i \in 1..Len(q) : PktsOf(q)[i] = q[i].pkt
  BY PktsFacts
<1>3. /\ a \in Seq(Packets) /\ Len(a) = Len(q) + 1
      /\ \A i \in 1..(Len(q) + 1) : a[i] = Append(q, x)[i].pkt
  BY <1>1, PktsFacts
<1>4. x.pkt \in Packets
  OBVIOUS
<1>5. /\ b \in Seq(Packets) /\ Len(b) = Len(q) + 1 /\ b[Len(q) + 1] = x.pkt
      /\ \A i \in 1..Len(q) : b[i] = q[i].pkt
  BY <1>2, <1>4, AppendFacts
<1>6. \A i \in 1..(Len(q) + 1) : a[i] = b[i]
  BY <1>1, <1>3, <1>5
<1> HIDE DEF a, b
<1>7. a = b
  BY <1>3, <1>5, <1>6, SameSequence
<1>. QED  BY <1>7 DEF a, b

LEMMA PktsTail ==
    ASSUME NEW S, NEW q \in Seq(S), q # <<>>, \A y \in S : y.pkt \in Packets
    PROVE  /\ PktsOf(q) # <<>> /\ Head(PktsOf(q)) = Head(q).pkt
           /\ PktsOf(Tail(q)) = Tail(PktsOf(q))
<1> DEFINE a == PktsOf(Tail(q))
           b == Tail(PktsOf(q))
<1>1. /\ Tail(q) \in Seq(S) /\ Len(Tail(q)) = Len(q) - 1 /\ Len(q) >= 1 /\ Len(q) \in Nat
      /\ Head(q) = q[1] /\ \A i \in 1..(Len(q) - 1) : Tail(q)[i] = q[i + 1]
  BY TailFacts
<1>2. /\ PktsOf(q) \in Seq(Packets) /\ Len(PktsOf(q)) = Len(q)
      /\ \A i \in 1..Len(q) : PktsOf(q)[i] = q[i].pkt
  BY PktsFacts
<1>3. PktsOf(q) # <<>>
  BY <1>1, <1>2
<1>4. /\ b \in Seq(Packets) /\ Len(b) = Len(q) - 1 /\ Head(PktsOf(q)) = PktsOf(q)[1]
      /\ \A i \in 1..(Len(q) - 1) : b[i] = PktsOf(q)[i + 1]
  BY <1>2, <1>3, TailFacts
<1>5. /\ a \in Seq(Packets) /\ Len(a) = Len(q) - 1
      /\ \A i \in 1..(Len(q) - 1) : a[i] = Tail(q)[i].pkt
  BY <1>1, PktsFacts
<1>6. ASSUME NEW i \in 1..(Len(q) - 1) PROVE a[i] = b[i]
  <2>1. i + 1 \in 1..Len(q)
    BY <1>1
  <2>. QED  BY <1>1, <1>2, <1>4, <1>5, <2>1
<1> HIDE DEF a, b
<1>7. a = b
  BY <1>4, <1>5, <1>6, SameSequence
<1>8. 1 \in 1..Len(q)
  BY <1>1
<1>. QED  BY <1>1, <1>2, <1>3, <1>4, <1>7, <1>8 DEF a, b

(* What a step does to one direction, as a link sees it.                   *)
DirEnter(d, x) ==
    /\ x \in DirItems(d) /\ x \notin DirUsed(d)
    /\ DirUsed(d)' = DirUsed(d) \cup {x}
    /\ DirLine(d)' = Append(DirLine(d), x) /\ DirGot(d)' = DirGot(d)
DirLeave(d) ==
    /\ DirLine(d) # <<>> /\ DirLine(d)' = Tail(DirLine(d)) /\ DirUsed(d)' = DirUsed(d)
    /\ DirGot(d)' \in {DirGot(d), Append(DirGot(d), Head(DirLine(d)))}
DirSame(d) == UNCHANGED <<DirLine(d), DirUsed(d), DirGot(d)>>

LEMMA ReserveEnters ==
    ASSUME UdpInv, Reserve, NEW d \in Dirs
    PROVE  DirSame(d) \/ \E x \in DirItems(d) : DirEnter(d, x)
<1>1. /\ NewSlot \in Slot /\ NewItem \in Item /\ cur # Idle
      /\ slots' = [slots EXCEPT ![Here] = Append(slots[Here], NewSlot)]
      /\ queues' = [queues EXCEPT ![Here] = Append(queues[Here], NewItem)]
      /\ slots \in [Dirs -> Seq(Slot)] /\ queues \in [Dirs -> Seq(Item)]
  BY ReserveFacts DEF UdpInv, UInv, UdpTypeOK, Item
<1>2. sent' = sent
  BY DEF Reserve
<1>3. CASE d # Here
  BY <1>1, <1>2, <1>3 DEF DirSame, DirLine, DirUsed, DirGot
<1>4. CASE d = Here
  <2> DEFINE x == cur.pkt
  <2>1. x \in DirItems(d)
    BY <1>1, <1>4, InHandType DEF DirItems, Here, UdpInv, UInv
  <2>2. /\ slots'[d] = Append(slots[d], NewSlot) /\ queues'[d] = Append(queues[d], NewItem)
        /\ slots[d] \in Seq(Slot) /\ queues[d] \in Seq(Item)
    BY <1>1, <1>4
  <2>3. /\ Len(slots[d]) \in Nat
        /\ DOMAIN slots[d] = 1..Len(slots[d])
        /\ DOMAIN slots'[d] = 1..(Len(slots[d]) + 1)
        /\ slots'[d][Len(slots[d]) + 1] = NewSlot
        /\ \A i \in 1..Len(slots[d]) : slots'[d][i] = slots[d][i]
    BY <1>1, <2>2
  <2>4. NewSlot.pkt = x /\ NewItem.pkt = x
    BY DEF NewSlot, NewItem
  <2>5. x \notin DirUsed(d)
    BY <1>1, <2>3 DEF DirUsed, UdpInv, UsedInv
  <2>6. DirUsed(d)' = DirUsed(d) \cup {x}
    <3>1. DirUsed(d)' = {slots'[d][i].pkt : i \in 1..(Len(slots[d]) + 1)}
      BY <2>3 DEF DirUsed
    <3>2. DirUsed(d) = {slots[d][i].pkt : i \in 1..Len(slots[d])}
      BY <2>3 DEF DirUsed
    <3>3. \A i \in 1..(Len(slots[d]) + 1) :
            slots'[d][i].pkt = IF i \in 1..Len(slots[d]) THEN slots[d][i].pkt ELSE x
      BY <2>3, <2>4
    <3>4. \A i \in 1..Len(slots[d]) : i \in 1..(Len(slots[d]) + 1)
      BY <2>3
    <3>5. Len(slots[d]) + 1 \in 1..(Len(slots[d]) + 1) /\ Len(slots[d]) + 1 \notin 1..Len(slots[d])
      BY <2>3
    <3> HIDE DEF x
    <3>. QED  BY ONLY <3>1, <3>2, <3>3, <3>4, <3>5
  <2>7. DirLine(d)' = Append(DirLine(d), x)
    <3>1. \A y \in Item : y.pkt \in Packets
      BY DEF Item
    <3>2. PktsOf(queues'[d]) = Append(PktsOf(queues[d]), NewItem.pkt)
      BY <1>1, <2>2, <3>1, PktsAppend
    <3>. QED  BY <2>4, <3>2 DEF DirLine, PktsOf
  <2>8. DirGot(d)' = DirGot(d)
    BY <1>2 DEF DirGot
  <2>. QED  BY <2>1, <2>5, <2>6, <2>7, <2>8 DEF DirEnter
<1>. QED  BY <1>3, <1>4

LEMMA DepartureLeaves ==
    ASSUME UdpInv, NEW e \in Dirs, Send(e) \/ SendBlocked(e) \/ WorkerFails(e), NEW d \in Dirs
    PROVE  DirSame(d) \/ DirLeave(d)
<1>1. /\ queues \in [Dirs -> Seq(Item)] /\ sent \in [Dirs -> Seq(Departure)] /\ now \in Nat
      /\ Head(queues[e]) \in Item
  BY HeadFacts DEF UdpInv, UInv, UdpTypeOK, Item, Departure, Send, SendBlocked, WorkerFails
<1>2. queues' = [queues EXCEPT ![e] = Tail(queues[e])] /\ slots' = slots /\ queues[e] # <<>>
  BY DEF Send, SendBlocked, WorkerFails, Due
<1> DEFINE gone == [pkt |-> Head(queues[e]).pkt, at |-> now, ready |-> Head(queues[e]).ready]
<1>3. sent' \in {sent, [sent EXCEPT ![e] = Append(sent[e], gone)]}
  BY DEF Send, SendBlocked, WorkerFails
<1>4. gone \in Departure /\ gone.pkt = Head(queues[e]).pkt
  BY <1>1 DEF Item, Departure
<1> HIDE DEF gone
<1>5. CASE d # e
  BY <1>1, <1>2, <1>3, <1>5 DEF DirSame, DirLine, DirUsed, DirGot
<1>6. CASE d = e
  <2>1. DirUsed(d)' = DirUsed(d)
    BY <1>2 DEF DirUsed
  <2>2. queues[d] \in Seq(Item) /\ queues[d] # <<>> /\ queues'[d] = Tail(queues[d])
    BY <1>1, <1>2, <1>6
  <2>3. \A y \in Item : y.pkt \in Packets
    BY DEF Item
  <2>4. /\ PktsOf(queues[d]) # <<>> /\ Head(PktsOf(queues[d])) = Head(queues[d]).pkt
        /\ PktsOf(queues'[d]) = Tail(PktsOf(queues[d]))
    BY <2>2, <2>3, PktsTail
  <2>5. DirLine(d) # <<>> /\ Head(DirLine(d)) = gone.pkt /\ DirLine(d)' = Tail(DirLine(d))
    BY <1>4, <1>6, <2>4 DEF DirLine, PktsOf
  <2>6. DirGot(d)' \in {DirGot(d), Append(DirGot(d), gone.pkt)}
    <3>1. CASE sent' = sent
      BY <3>1 DEF DirGot
    <3>2. CASE sent' = [sent EXCEPT ![e] = Append(sent[e], gone)]
      <4>1. sent[d] \in Seq(Departure) /\ sent'[d] = Append(sent[d], gone)
        BY <1>1, <1>6, <3>2
      <4>2. \A y \in Departure : y.pkt \in Packets
        BY DEF Departure
      <4>3. PktsOf(sent'[d]) = Append(PktsOf(sent[d]), gone.pkt)
        BY <1>4, <4>1, <4>2, PktsAppend
      <4>. QED  BY <4>3 DEF DirGot, PktsOf
    <3>. QED  BY <1>3, <3>1, <3>2
  <2>. QED  BY <2>1, <2>5, <2>6 DEF DirLeave
<1>. QED  BY <1>5, <1>6

LEMMA DirectionStep ==
    ASSUME UdpInv, [UdpNext]_<<clockVars, udpVars>>, NEW d \in Dirs
    PROVE  DirSame(d) \/ DirLeave(d) \/ \E x \in DirItems(d) : DirEnter(d, x)
<1>1. CASE UdpStep
  <2>1. CASE \/ Overflow \/ Admit \/ RequestStop \/ WorkerExits
             \/ \E p \in Packets : Receive(p)
    <3>1. UNCHANGED <<queues, slots, sent>>
      BY <2>1 DEF Overflow, Admit, RequestStop, WorkerExits, Receive
    <3>. QED  BY <3>1 DEF DirSame, DirLine, DirUsed, DirGot
  <2>2. CASE Reserve
    BY <2>2, ReserveEnters
  <2>3. CASE \E e \in Dirs : Send(e) \/ SendBlocked(e) \/ WorkerFails(e)
    BY <2>3, DepartureLeaves
  <2>. QED  BY <1>1, <2>1, <2>2, <2>3 DEF UdpStep
<1>2. CASE ~UdpStep
  <2>1. UNCHANGED <<queues, slots, sent>>
    BY <1>2 DEF UdpNext, udpVars
  <2>. QED  BY <2>1 DEF DirSame, DirLine, DirUsed, DirGot
<1>. QED  BY <1>1, <1>2

(* To forget the oldest item is to leave without having been got.          *)
LEMMA TailForgets ==
    ASSUME NEW S, NEW s \in Seq(S), s # <<>>
    PROVE  \E i \in DOMAIN s : Tail(s) = SubSeq(s, 1, i - 1) \o SubSeq(s, i + 1, Len(s))
<1>1. 1 \in DOMAIN s /\ Len(s) \in Nat
  OBVIOUS
<1>2. SubSeq(s, 1, 1 - 1) = <<>>
  OBVIOUS
<1>3. Tail(s) = SubSeq(s, 1 + 1, Len(s)) /\ Tail(s) \in Seq(S)
  BY TailIsSubSeq
<1>4. <<>> \o Tail(s) = Tail(s)
  BY <1>3, ConcatEmptySeq
<1>. QED  BY <1>1, <1>2, <1>3, <1>4

LEMMA LineType ==
    ASSUME UdpTypeOK, NEW d \in Dirs
    PROVE  DirLine(d) \in Seq(Packets)
<1>1. queues[d] \in Seq(Item) /\ \A y \in Item : y.pkt \in Packets
  BY DEF UdpTypeOK, Item
<1>2. PktsOf(queues[d]) \in Seq(Packets)
  BY <1>1, PktsFacts
<1>. QED  BY <1>2 DEF DirLine, PktsOf

(* Each direction delivers in the order of the reservations, each datagram *)
(* at most once: FifoProxy.enqueue and the release pass of run.            *)
THEOREM UdpLinks == UdpSpec => UdpIsOrderedLink
<1>1. ClockInit /\ UdpInit => ToNode!LinkInit /\ Back!LinkInit
  <2> SUFFICES ASSUME UdpInit PROVE ToNode!LinkInit /\ Back!LinkInit
    OBVIOUS
  <2>1. \A d \in Dirs : queues[d] = <<>> /\ slots[d] = <<>> /\ sent[d] = <<>>
    BY DEF UdpInit
  <2>2. \A d \in Dirs : DirLine(d) = <<>> /\ DirUsed(d) = {} /\ DirGot(d) = <<>>
    BY <2>1 DEF DirLine, DirUsed, DirGot
  <2>. QED  BY <2>2 DEF ToNode!LinkInit, Back!LinkInit, Dirs
<1>2. UdpInv /\ [UdpNext]_<<clockVars, udpVars>>
        => [ToNode!LinkNext]_ToNode!link /\ [Back!LinkNext]_Back!link
  <2> SUFFICES ASSUME UdpInv, [UdpNext]_<<clockVars, udpVars>>
               PROVE  [ToNode!LinkNext]_ToNode!link /\ [Back!LinkNext]_Back!link
    OBVIOUS
  <2>1. \A d \in Dirs : DirLine(d) # <<>> =>
            \E i \in DOMAIN DirLine(d) : Tail(DirLine(d)) =
               SubSeq(DirLine(d), 1, i - 1) \o SubSeq(DirLine(d), i + 1, Len(DirLine(d)))
    BY LineType, TailForgets DEF UdpInv, UInv
  <2>2. [ToNode!LinkNext]_ToNode!link
    <3>1. DirSame(0) \/ DirLeave(0) \/ \E x \in DirItems(0) : DirEnter(0, x)
      BY DirectionStep DEF Dirs
    <3>. QED  BY <2>1, <3>1 DEF ToNode!LinkNext, ToNode!link, ToNode!Leave, ToNode!Forget,
                ToNode!Enter, DirSame, DirLeave, DirEnter, Dirs
  <2>3. [Back!LinkNext]_Back!link
    <3>1. DirSame(1) \/ DirLeave(1) \/ \E x \in DirItems(1) : DirEnter(1, x)
      BY DirectionStep DEF Dirs
    <3>. QED  BY <2>1, <3>1 DEF Back!LinkNext, Back!link, Back!Leave, Back!Forget,
                Back!Enter, DirSame, DirLeave, DirEnter, Dirs
  <2>. QED  BY <2>2, <2>3
<1>. QED  BY UdpInitInv, UdpStepInv, <1>1, <1>2, PTL DEF UdpSpec, UdpIsOrderedLink,
            ToNode!LinkSpec, Back!LinkSpec
-----------------------------------------------------------------------------
(* The TCP shaper.  Its lock is a line of pumps: those that wait for the   *)
(* lock or sleep under it, each once, and only the first may sleep.        *)

PumpAt == {"off", "read", "lock", "throttle", "sleep", "drain", "done", "gone"}
InLine == {"lock", "throttle"}
Holds == {"sleep", "drain"}
Early == {"none", "arriving", "connecting"}
Job == [rate : Nat, at : Nat, wake : Nat, ready : Nat]
TSlot == [item : Pumps \X Nat, at : Nat, ready : Nat, from : Int]

TcpTypeOK ==
    /\ now \in Nat /\ rate_bps \in Nat
    /\ conn \in [Conns -> Early \cup {"open", "closing", "closed"}]
    /\ pc \in [Pumps -> PumpAt]
    /\ took \in [Pumps -> Nat]
    /\ work \in [Pumps -> Job]
    /\ lock \in [Groups -> Seq(Pumps)]
    /\ tnext \in [Groups -> Nat]
    /\ pending \in [Groups -> Int]
    /\ tslots \in [Groups -> Seq(TSlot)]

(* A connection that is not open yet has no pump.                          *)
EarlyOff == \A p \in Pumps : conn[p[1]] \in Early => pc[p] = "off"

LineOk(g) ==
    /\ \A i \in 1..Len(lock[g]) : /\ Group(lock[g][i]) = g /\ pc[lock[g][i]] \in InLine
                                  /\ pc[lock[g][i]] = "throttle" => i = 1
    /\ \A i, j \in 1..Len(lock[g]) : lock[g][i] = lock[g][j] => i = j

LockInv ==
    /\ \A g \in Groups : LineOk(g)
    /\ \A p \in Pumps : pc[p] \in InLine => \E i \in 1..Len(lock[Group(p)]) : lock[Group(p)][i] = p

Holding(g) == {p \in Pumps : Group(p) = g /\ pc[p] \in Holds}
PendInv == \A g \in Groups : pending[g] = Cardinality(Holding(g))

LEMMA PumpFacts ==
    /\ \A p \in Pumps : Group(p) \in Groups /\ p[1] \in Conns
    /\ \A c \in Conns : PumpsOf(c) \subseteq Pumps /\ \A p \in PumpsOf(c) : p[1] = c
    /\ IsFiniteSet(Pumps)
<1>1. IsFiniteSet({0, 1})
  <2>1. IsFiniteSet({0})
    BY FS_Singleton
  <2>2. IsFiniteSet({0} \cup {1})
    BY <2>1, FS_AddElement
  <2>3. {0} \cup {1} = {0, 1}
    OBVIOUS
  <2>. QED  BY <2>2, <2>3
<1>2. IsFiniteSet(Sides)
  <2>1. Sides \in SUBSET {0, 1}
    BY TcpAssumption
  <2>. QED  BY <1>1, <2>1, FS_Subset
<1>3. IsFiniteSet(Pumps)
  BY <1>2, FS_Product, TcpAssumption DEF Pumps
<1>. QED  BY <1>3 DEF Pumps, Groups, PumpsOf

LEMMA ChunkService ==
    ASSUME NEW r \in Nat
    PROVE  /\ Service(ChunkSize, r) \in Nat /\ Service(ChunkSize, r) <= ChunkSize
           /\ r = 0 => Service(ChunkSize, r) = 0
<1>1. ChunkSize \in Nat /\ ChunkSize >= 1
  BY TcpAssumption
<1>2. CASE r = 0
  BY <1>1, <1>2 DEF Service
<1>3. CASE r # 0
  <2>1. ChunkSize \div r \in Nat /\ ChunkSize \div r <= ChunkSize
    BY <1>1, <1>3
  <2>. QED  BY <1>3, <2>1 DEF Service
<1>. QED  BY <1>2, <1>3

(* What is left of a sequence when its k-th element is taken out.          *)
LEMMA CutPlaces ==
    ASSUME NEW S, NEW s \in Seq(S), NEW k \in 1..Len(s)
    PROVE  LET t == SubSeq(s, 1, k - 1) \o SubSeq(s, k + 1, Len(s)) IN
           /\ t \in Seq(S) /\ Len(t) = Len(s) - 1
           /\ \A i \in 1..(Len(s) - 1) : t[i] = IF i < k THEN s[i] ELSE s[i + 1]
<1>0. Len(s) \in Nat /\ k \in Int /\ k >= 1 /\ k <= Len(s) /\ \A i \in 1..Len(s) : s[i] \in S
  OBVIOUS
<1> DEFINE a == SubSeq(s, 1, k - 1)
           b == SubSeq(s, k + 1, Len(s))
<1>5. a \in Seq(S) /\ Len(a) = k - 1 /\ \A i \in 1..(k - 1) : a[i] = s[i]
  <2>1. \A i \in 1..(k - 1) : s[i] \in S
    BY <1>0
  <2>2. /\ a \in Seq(S) /\ Len(a) = IF 1 <= k - 1 THEN k - 1 - 1 + 1 ELSE 0
        /\ \A i \in 1..(k - 1 - 1 + 1) : a[i] = s[1 + i - 1]
    BY <1>0, <2>1, SubSeqProperties
  <2>. QED  BY <1>0, <2>2
<1>6. b \in Seq(S) /\ Len(b) = Len(s) - k /\ \A i \in 1..(Len(s) - k) : b[i] = s[k + i]
  <2>1. \A i \in (k + 1)..Len(s) : s[i] \in S
    BY <1>0
  <2>2. /\ b \in Seq(S) /\ Len(b) = IF k + 1 <= Len(s) THEN Len(s) - (k + 1) + 1 ELSE 0
        /\ \A i \in 1..(Len(s) - (k + 1) + 1) : b[i] = s[(k + 1) + i - 1]
    BY <1>0, <2>1, SubSeqProperties
  <2>. QED  BY <1>0, <2>2
<1> HIDE DEF a, b
<1>7. /\ a \o b \in Seq(S) /\ Len(a \o b) = Len(a) + Len(b)
      /\ \A i \in 1..(Len(a) + Len(b)) : (a \o b)[i] = IF i <= Len(a) THEN a[i] ELSE b[i - Len(a)]
  <2>1. a \in Seq(S) /\ b \in Seq(S)
    BY <1>5, <1>6
  <2>. QED  BY ONLY <2>1, ConcatProperties
<1>8. ASSUME NEW i \in 1..(Len(s) - 1)
      PROVE  (a \o b)[i] = IF i < k THEN s[i] ELSE s[i + 1]
  <2>1. (a \o b)[i] = IF i <= k - 1 THEN a[i] ELSE b[i - (k - 1)]
    BY <1>0, <1>5, <1>6, <1>7
  <2>2. CASE i < k
    BY <1>0, <1>5, <2>1, <2>2
  <2>3. CASE ~(i < k)
    <3>1. i - (k - 1) \in 1..(Len(s) - k) /\ k + (i - (k - 1)) = i + 1
      BY <1>0, <2>3
    <3>2. b[i - (k - 1)] = s[i + 1]
      BY <1>6, <3>1
    <3>. QED  BY <1>0, <2>1, <2>3, <3>2
  <2>. QED  BY <2>2, <2>3
<1>9. Len(a \o b) = Len(s) - 1
  BY <1>0, <1>5, <1>6, <1>7
<1>. QED  BY <1>7, <1>8, <1>9 DEF a, b

(* Taking one of distinct elements out of a sequence.                      *)
LEMMA RemovePlaces ==
    ASSUME NEW S, NEW s \in Seq(S), NEW k \in 1..Len(s),
           \A i, j \in 1..Len(s) : s[i] = s[j] => i = j
    PROVE  /\ RemoveFirst(s, s[k]) = SubSeq(s, 1, k - 1) \o SubSeq(s, k + 1, Len(s))
           /\ RemoveFirst(s, s[k]) \in Seq(S) /\ Len(RemoveFirst(s, s[k])) = Len(s) - 1
           /\ \A i \in 1..(Len(s) - 1) :
                 RemoveFirst(s, s[k])[i] = IF i < k THEN s[i] ELSE s[i + 1]
<1>0. Len(s) \in Nat /\ k \in Int /\ k >= 1 /\ k <= Len(s) /\ \A i \in 1..Len(s) : s[i] \in S
  OBVIOUS
<1>1. {i \in 1..Len(s) : s[i] = s[k]} = {k}
  OBVIOUS
<1>2. Min({k}) = k
  BY <1>0 DEF Min
<1>3. SelectInSeq(s, LAMBDA v : v = s[k]) = k
  BY <1>1, <1>2 DEF SelectInSeq
<1>4. RemoveFirst(s, s[k]) = SubSeq(s, 1, k - 1) \o SubSeq(s, k + 1, Len(s))
  BY <1>3 DEF RemoveFirst, RemoveAt
<1>5. LET t == SubSeq(s, 1, k - 1) \o SubSeq(s, k + 1, Len(s)) IN
      /\ t \in Seq(S) /\ Len(t) = Len(s) - 1
      /\ \A i \in 1..(Len(s) - 1) : t[i] = IF i < k THEN s[i] ELSE s[i + 1]
  <2>1. s \in Seq(S) /\ k \in 1..Len(s)
    OBVIOUS
  <2>. QED  BY ONLY <2>1, CutPlaces
<1> DEFINE t == SubSeq(s, 1, k - 1) \o SubSeq(s, k + 1, Len(s))
<1>6. RemoveFirst(s, s[k]) = t
  BY <1>4
<1>7. /\ t \in Seq(S) /\ Len(t) = Len(s) - 1
      /\ \A i \in 1..(Len(s) - 1) : t[i] = IF i < k THEN s[i] ELSE s[i + 1]
  BY ONLY <1>5
<1> DEFINE r == RemoveFirst(s, s[k])
<1>8. /\ r \in Seq(S) /\ Len(r) = Len(s) - 1
      /\ \A i \in 1..(Len(s) - 1) : r[i] = IF i < k THEN s[i] ELSE s[i + 1]
  <2> HIDE DEF r, t
  <2>1. r = t
    BY <1>6 DEF r
  <2>. QED  BY <1>7, <2>1
<1>. QED  BY <1>4, <1>8

LEMMA RemoveAbsent ==
    ASSUME NEW s, NEW x, \A i \in 1..Len(s) : s[i] # x
    PROVE  RemoveFirst(s, x) = s
BY DEF RemoveFirst

(* What leaving an await does to the line: nothing, or the pump's place    *)
(* closes up.                                                              *)
LEMMA GiveBackLine ==
    ASSUME TcpTypeOK, LockInv, NEW p \in Pumps, GiveBack(p)
    PROVE  \/ pc[p] \notin InLine /\ lock' = lock
           \/ /\ pc[p] \in InLine
              /\ \E k \in 1..Len(lock[Group(p)]) :
                   LET s == lock[Group(p)] IN
                   /\ s[k] = p
                   /\ lock' = [lock EXCEPT ![Group(p)] = lock'[Group(p)]]
                   /\ lock'[Group(p)] = SubSeq(s, 1, k - 1) \o SubSeq(s, k + 1, Len(s))
                   /\ lock'[Group(p)] \in Seq(Pumps) /\ Len(lock'[Group(p)]) = Len(s) - 1
                   /\ \A i \in 1..(Len(s) - 1) :
                         lock'[Group(p)][i] = IF i < k THEN s[i] ELSE s[i + 1]
<1>1. /\ Group(p) \in Groups /\ lock \in [Groups -> Seq(Pumps)]
      /\ lock' = [lock EXCEPT ![Group(p)] = RemoveFirst(lock[Group(p)], p)]
  BY PumpFacts DEF TcpTypeOK, GiveBack
<1>2. lock'[Group(p)] = RemoveFirst(lock[Group(p)], p)
  BY <1>1
<1>3. LineOk(Group(p))
  BY <1>1 DEF LockInv
<1>4. CASE pc[p] \notin InLine
  <2>1. \A i \in 1..Len(lock[Group(p)]) : lock[Group(p)][i] # p
    BY <1>3, <1>4 DEF LineOk
  <2>2. lock'[Group(p)] = lock[Group(p)]
    BY <1>2, <2>1, RemoveAbsent
  <2>. QED  BY <1>1, <1>4, <2>2
<1>5. CASE pc[p] \in InLine
  <2>1. PICK k \in 1..Len(lock[Group(p)]) : lock[Group(p)][k] = p
    BY <1>5 DEF LockInv
  <2>2. lock[Group(p)] \in Seq(Pumps)
    BY <1>1
  <2>3. \A i, j \in 1..Len(lock[Group(p)]) : lock[Group(p)][i] = lock[Group(p)][j] => i = j
    BY <1>3 DEF LineOk
  <2>4. LET s == lock[Group(p)] IN
        /\ RemoveFirst(s, s[k]) = SubSeq(s, 1, k - 1) \o SubSeq(s, k + 1, Len(s))
        /\ RemoveFirst(s, s[k]) \in Seq(Pumps) /\ Len(RemoveFirst(s, s[k])) = Len(s) - 1
        /\ \A i \in 1..(Len(s) - 1) :
              RemoveFirst(s, s[k])[i] = IF i < k THEN s[i] ELSE s[i + 1]
    BY <2>2, <2>3, RemovePlaces
  <2>. QED  BY <1>1, <1>2, <1>5, <2>1, <2>4
<1>. QED  BY <1>4, <1>5

LEMMA ReadyType ==
    ASSUME TcpTypeOK, NEW p \in Pumps
    PROVE  /\ work[p] \in Job /\ work[p].rate \in Nat /\ work[p].at \in Nat /\ work[p].wake \in Nat
           /\ ReadyOf(p) \in Nat /\ ReadyOf(p) - Service(ChunkSize, work[p].rate) \in Int
<1>1. work[p] \in Job /\ work[p].rate \in Nat /\ work[p].at \in Nat /\ work[p].wake \in Nat
  BY DEF TcpTypeOK, Job
<1>2. Service(ChunkSize, work[p].rate) \in Nat
  BY <1>1, ChunkService
<1>3. MaxOf(now, tnext[Group(p)]) \in Nat
  BY PumpFacts, MaxIsNat DEF TcpTypeOK
<1>. QED  BY <1>1, <1>2, <1>3 DEF ReadyOf

LEMMA TcpTypeStep ==
    ASSUME TcpTypeOK, LockInv, [TcpNext]_<<clockVars, tcpVars>>
    PROVE  TcpTypeOK'
<1>1. ASSUME NEW c \in Conns, UNCHANGED clockVars,
             Arrive(c) \/ Accepted(c) \/ Connected(c) \/ Refused(c) \/ Finish(c)
      PROVE  TcpTypeOK'
  <2>1. conn' \in [Conns -> Early \cup {"open", "closing", "closed"}]
    BY <1>1 DEF TcpTypeOK, Arrive, Accepted, Connected, Refused, Finish, Early
  <2>2. pc' \in [Pumps -> PumpAt]
    BY <1>1 DEF TcpTypeOK, Arrive, Accepted, Connected, Refused, Finish, PumpAt
  <2>3. UNCHANGED <<now, rate_bps, took, work, lock, tnext, pending, tslots>>
    BY <1>1 DEF Arrive, Accepted, Connected, Refused, Finish, clockVars
  <2>. QED  BY <2>1, <2>2, <2>3 DEF TcpTypeOK
<1>2. ASSUME UNCHANGED clockVars, RequestClose \/ CancelHandlers \/ HandlersGone \/ ServersClosed
      PROVE  TcpTypeOK'
  <2>1. conn' \in [Conns -> Early \cup {"open", "closing", "closed"}]
    BY <1>2 DEF TcpTypeOK, RequestClose, CancelHandlers, HandlersGone, ServersClosed
  <2>2. UNCHANGED <<now, rate_bps, pc, took, work, lock, tnext, pending, tslots>>
    BY <1>2 DEF RequestClose, CancelHandlers, HandlersGone, ServersClosed, clockVars
  <2>. QED  BY <2>1, <2>2 DEF TcpTypeOK
<1>3. ASSUME NEW p \in Pumps, UNCHANGED clockVars, Eof(p) \/ Write(p) PROVE TcpTypeOK'
  <2>1. pc' \in [Pumps -> PumpAt]
    BY <1>3 DEF Eof, Write, Goto, TcpTypeOK, PumpAt
  <2>. QED  BY <1>3, <2>1 DEF Eof, Write, TcpTypeOK, clockVars
<1>4. ASSUME NEW p \in Pumps, UNCHANGED clockVars, Read(p) PROVE TcpTypeOK'
  <2>1. pc' \in [Pumps -> PumpAt] /\ took' \in [Pumps -> Nat]
    BY <1>4 DEF Read, Goto, TcpTypeOK, PumpAt
  <2>2. lock' \in [Groups -> Seq(Pumps)]
    BY <1>4, PumpFacts, AppendFacts DEF Read, TcpTypeOK
  <2>. QED  BY <1>4, <2>1, <2>2 DEF Read, TcpTypeOK, clockVars
<1>5. ASSUME NEW p \in Pumps, UNCHANGED clockVars, Capture(p) PROVE TcpTypeOK'
  <2>1. pc' \in [Pumps -> PumpAt]
    BY <1>5 DEF Capture, Goto, TcpTypeOK, PumpAt
  <2>2. tnext[Group(p)] \in Nat /\ now \in Nat /\ rate_bps \in Nat /\ MaxQueue \in Nat
    BY PumpFacts, TimeAssumption DEF TcpTypeOK
  <2>3. MaxOf(now, tnext[Group(p)] - MaxQueue) \in Nat
    BY <2>2 DEF MaxOf
  <2>4. work' \in [Pumps -> Job]
    BY <1>5, <2>2, <2>3 DEF Capture, TcpTypeOK, Job, Nothing
  <2>. QED  BY <1>5, <2>1, <2>4 DEF Capture, TcpTypeOK, clockVars
<1>6. ASSUME NEW p \in Pumps, UNCHANGED clockVars, TakeSlot(p) PROVE TcpTypeOK'
  <2>1. pc' \in [Pumps -> PumpAt]
    BY <1>6 DEF TakeSlot, Goto, TcpTypeOK, PumpAt
  <2>2. Group(p) \in Groups /\ ReadyOf(p) \in Nat
    BY PumpFacts, ReadyType
  <2>3. work' \in [Pumps -> Job]
    BY <1>6, <2>2 DEF TakeSlot, TcpTypeOK, Job
  <2>4. tnext' \in [Groups -> Nat] /\ pending' \in [Groups -> Int]
    BY <1>6, <2>2 DEF TakeSlot, TcpTypeOK
  <2>5. lock' \in [Groups -> Seq(Pumps)]
    <3>1. lock[Group(p)] \in Seq(Pumps) /\ \E i \in 1..Len(lock[Group(p)]) : lock[Group(p)][i] = p
      BY <1>6, <2>2 DEF TcpTypeOK, LockInv, TakeSlot, At, InLine
    <3>2. lock[Group(p)] # <<>>
      BY <3>1
    <3>3. Tail(lock[Group(p)]) \in Seq(Pumps)
      BY <3>1, <3>2, TailFacts
    <3>. QED  BY <1>6, <3>3 DEF TakeSlot, TcpTypeOK
  <2>6. [item |-> <<p, took[p]>>, at |-> now, ready |-> ReadyOf(p),
         from |-> ReadyOf(p) - Service(ChunkSize, work[p].rate)] \in TSlot
    BY ReadyType DEF TcpTypeOK, TSlot
  <2>7. tslots' \in [Groups -> Seq(TSlot)]
    BY <1>6, <2>2, <2>6, AppendFacts DEF TakeSlot, TcpTypeOK
  <2>. QED  BY <1>6, <2>1, <2>3, <2>4, <2>5, <2>7 DEF TakeSlot, TcpTypeOK, clockVars
<1>7. ASSUME NEW p \in Pumps, UNCHANGED clockVars, Drained(p) PROVE TcpTypeOK'
  <2>1. pc' \in [Pumps -> PumpAt]
    BY <1>7 DEF Drained, Goto, TcpTypeOK, PumpAt
  <2>2. work' \in [Pumps -> Job] /\ pending' \in [Groups -> Int]
    BY <1>7, PumpFacts DEF Drained, TcpTypeOK, Job, Nothing
  <2>. QED  BY <1>7, <2>1, <2>2 DEF Drained, TcpTypeOK, clockVars
<1>8. ASSUME NEW p \in Pumps, UNCHANGED clockVars, Reset(p) \/ CancelPump(p) PROVE TcpTypeOK'
  <2>1. pc' \in [Pumps -> PumpAt]
    BY <1>8 DEF Reset, CancelPump, Goto, TcpTypeOK, PumpAt
  <2>2. GiveBack(p) /\ Group(p) \in Groups
    BY <1>8, PumpFacts DEF Reset, CancelPump
  <2>3. work' \in [Pumps -> Job]
    BY <2>2 DEF GiveBack, TcpTypeOK, Job, Nothing
  <2>4. pending' \in [Groups -> Int]
    BY <2>2 DEF GiveBack, TcpTypeOK
  <2>5. lock' \in [Groups -> Seq(Pumps)]
    BY <2>2, GiveBackLine DEF TcpTypeOK
  <2>6. conn' \in [Conns -> Early \cup {"open", "closing", "closed"}]
    BY <1>8 DEF Reset, CancelPump, TcpTypeOK
  <2>. QED  BY <1>8, <2>1, <2>3, <2>4, <2>5, <2>6 DEF Reset, CancelPump, TcpTypeOK, clockVars
<1>9. ASSUME (Tick \/ \E r \in Rates : SetRate(r)) /\ UNCHANGED tcpVars PROVE TcpTypeOK'
  <2>1. now' \in Nat /\ rate_bps' \in Nat
    BY <1>9, RatesAssumption DEF TcpTypeOK, Tick, SetRate
  <2>. QED  BY <1>9, <2>1 DEF TcpTypeOK, tcpVars
<1>10. ASSUME UNCHANGED <<clockVars, tcpVars>> PROVE TcpTypeOK'
  BY <1>10 DEF TcpTypeOK, clockVars, tcpVars
<1>11. CASE TcpStep /\ UNCHANGED clockVars
  BY <1>1, <1>2, <1>3, <1>4, <1>5, <1>6, <1>7, <1>8, <1>11 DEF TcpStep
<1>. QED  BY <1>9, <1>10, <1>11 DEF TcpNext

(* Which pump an action moves, and from where to where.                    *)
LEMMA PumpMoves ==
    ASSUME TcpTypeOK, EarlyOff, TcpStep
    PROVE  \/ UNCHANGED pc /\ UNCHANGED <<lock, pending, tnext, tslots, took, work>>
           \/ \E c \in Conns : /\ Connected(c)
                               /\ \A p \in Pumps : pc'[p] # pc[p] => pc[p] = "off" /\ pc'[p] = "read"
           \/ \E p \in Pumps :
                 /\ pc' = [pc EXCEPT ![p] = pc'[p]]
                 /\ \/ Read(p) /\ pc[p] = "read" /\ pc'[p] = "lock"
                    \/ Eof(p) /\ pc[p] = "read" /\ pc'[p] = "done"
                    \/ Capture(p) /\ pc[p] = "lock" /\ pc'[p] = "throttle"
                    \/ TakeSlot(p) /\ pc[p] = "throttle" /\ pc'[p] = "sleep"
                    \/ Write(p) /\ pc[p] = "sleep" /\ pc'[p] = "drain"
                    \/ Drained(p) /\ pc[p] = "drain" /\ pc'[p] = "read"
                    \/ GiveBack(p) /\ pc'[p] = "gone"
                       /\ UNCHANGED <<took, tnext, tslots>>
<1>0. pc \in [Pumps -> PumpAt]
  BY DEF TcpTypeOK
<1>1. ASSUME NEW c \in Conns, Arrive(c) \/ Accepted(c) \/ Refused(c) \/ Finish(c)
      PROVE  UNCHANGED <<pc, lock, pending, tnext, tslots, took, work>>
  BY <1>1 DEF Arrive, Accepted, Refused, Finish
<1>2. ASSUME NEW c \in Conns, Connected(c)
      PROVE  \A p \in Pumps : pc'[p] # pc[p] => pc[p] = "off" /\ pc'[p] = "read"
  <2>1. \A p \in Pumps : pc'[p] = IF p \in PumpsOf(c) THEN "read" ELSE pc[p]
    BY <1>2 DEF Connected
  <2>2. \A p \in PumpsOf(c) : p \in Pumps /\ conn[p[1]] \in Early
    <3>1. conn[c] = "connecting"
      BY <1>2 DEF Connected
    <3>. QED  BY <3>1, PumpFacts DEF Early
  <2>. QED  BY <2>1, <2>2 DEF EarlyOff
<1>3. ASSUME RequestClose \/ CancelHandlers \/ HandlersGone \/ ServersClosed
      PROVE  UNCHANGED <<pc, lock, pending, tnext, tslots, took, work>>
  BY <1>3 DEF RequestClose, CancelHandlers, HandlersGone, ServersClosed
<1>4. ASSUME NEW p \in Pumps
      PROVE  /\ Read(p) => pc[p] = "read" /\ pc' = [pc EXCEPT ![p] = "lock"]
             /\ Eof(p) => pc[p] = "read" /\ pc' = [pc EXCEPT ![p] = "done"]
             /\ Capture(p) => pc[p] = "lock" /\ pc' = [pc EXCEPT ![p] = "throttle"]
             /\ TakeSlot(p) => pc[p] = "throttle" /\ pc' = [pc EXCEPT ![p] = "sleep"]
             /\ Write(p) => pc[p] = "sleep" /\ pc' = [pc EXCEPT ![p] = "drain"]
             /\ Drained(p) => pc[p] = "drain" /\ pc' = [pc EXCEPT ![p] = "read"]
             /\ Reset(p) \/ CancelPump(p) => /\ GiveBack(p) /\ pc' = [pc EXCEPT ![p] = "gone"]
                                             /\ UNCHANGED <<took, tnext, tslots>>
  BY DEF Read, Eof, Capture, TakeSlot, Write, Drained, Reset, CancelPump, At, Goto
<1>5. \A p \in Pumps : \A w \in PumpAt : pc' = [pc EXCEPT ![p] = w] =>
          pc' = [pc EXCEPT ![p] = pc'[p]] /\ pc'[p] = w
  BY <1>0
<1>6. CASE \E c \in Conns : Arrive(c) \/ Accepted(c) \/ Connected(c) \/ Refused(c) \/ Finish(c)
  BY <1>1, <1>2, <1>6
<1>7. ASSUME NEW p \in Pumps, \/ Read(p) \/ Eof(p) \/ Capture(p) \/ TakeSlot(p) \/ Write(p) \/ Drained(p)
                              \/ Reset(p) \/ CancelPump(p)
      PROVE  /\ pc' = [pc EXCEPT ![p] = pc'[p]]
             /\ \/ Read(p) /\ pc[p] = "read" /\ pc'[p] = "lock"
                \/ Eof(p) /\ pc[p] = "read" /\ pc'[p] = "done"
                \/ Capture(p) /\ pc[p] = "lock" /\ pc'[p] = "throttle"
                \/ TakeSlot(p) /\ pc[p] = "throttle" /\ pc'[p] = "sleep"
                \/ Write(p) /\ pc[p] = "sleep" /\ pc'[p] = "drain"
                \/ Drained(p) /\ pc[p] = "drain" /\ pc'[p] = "read"
                \/ GiveBack(p) /\ pc'[p] = "gone"
                   /\ UNCHANGED <<took, tnext, tslots>>
  BY <1>4, <1>5, <1>7 DEF PumpAt
<1>. QED  BY <1>3, <1>6, <1>7 DEF TcpStep

LEMMA EarlyStep ==
    ASSUME TcpTypeOK, EarlyOff, TcpStep
    PROVE  EarlyOff'
<1>0. conn \in [Conns -> Early \cup {"open", "closing", "closed"}] /\ pc \in [Pumps -> PumpAt]
  BY DEF TcpTypeOK
<1>1. ASSUME NEW c \in Conns, Arrive(c) \/ Accepted(c) \/ Refused(c) \/ Finish(c)
      PROVE  EarlyOff'
  <2>1. pc' = pc /\ \A d \in Conns : conn'[d] \in Early => conn[d] \in Early
    BY <1>0, <1>1 DEF Arrive, Accepted, Refused, Finish, Early
  <2>. QED  BY <2>1, PumpFacts DEF EarlyOff
<1>2. ASSUME NEW c \in Conns, Connected(c) PROVE EarlyOff'
  <2>1. conn'[c] = "open" /\ \A d \in Conns : d # c => conn'[d] = conn[d]
    BY <1>0, <1>2 DEF Connected
  <2>2. \A p \in Pumps : p[1] # c => pc'[p] = pc[p]
    BY <1>0, <1>2, PumpFacts DEF Connected
  <2>. QED  BY <2>1, <2>2, PumpFacts DEF EarlyOff, Early
<1>3. ASSUME RequestClose \/ CancelHandlers \/ HandlersGone \/ ServersClosed PROVE EarlyOff'
  <2>1. pc' = pc /\ \A d \in Conns : conn'[d] \in Early => conn[d] \in Early
    BY <1>3 DEF RequestClose, CancelHandlers, HandlersGone, ServersClosed, Early
  <2>. QED  BY <2>1, PumpFacts DEF EarlyOff
<1>4. ASSUME NEW p \in Pumps, \/ Read(p) \/ Eof(p) \/ Capture(p) \/ TakeSlot(p) \/ Write(p)
                              \/ Drained(p) \/ Reset(p) \/ CancelPump(p)
      PROVE  EarlyOff'
  <2>1. pc[p] # "off" /\ \A q \in Pumps : q # p => pc'[q] = pc[q]
    BY <1>0, <1>4 DEF Read, Eof, Capture, TakeSlot, Write, Drained, Reset, CancelPump, At, Goto
  <2>2. \A d \in Conns : conn'[d] \in Early => conn[d] \in Early
    BY <1>0, <1>4 DEF Read, Eof, Capture, TakeSlot, Write, Drained, Reset, CancelPump, Early
  <2>. QED  BY <2>1, <2>2, PumpFacts DEF EarlyOff
<1>. QED  BY <1>1, <1>2, <1>3, <1>4 DEF TcpStep

LEMMA LineSame ==
    ASSUME TcpTypeOK, LockInv, lock' = lock,
           \A p \in Pumps : pc'[p] # pc[p] => pc[p] \notin InLine /\ pc'[p] \notin InLine
    PROVE  LockInv'
<1>1. ASSUME NEW g \in Groups PROVE LineOk(g)'
  <2>1. \A i \in 1..Len(lock[g]) : lock[g][i] \in Pumps
    BY DEF TcpTypeOK
  <2>2. LineOk(g)
    BY DEF LockInv
  <2>. QED  BY <2>1, <2>2 DEF LineOk
<1>2. \A p \in Pumps : pc'[p] \in InLine => \E i \in 1..Len(lock'[Group(p)]) : lock'[Group(p)][i] = p
  BY DEF LockInv
<1>. QED  BY <1>1, <1>2 DEF LockInv

LEMMA ReadLine ==
    ASSUME TcpTypeOK, LockInv, NEW p \in Pumps, Read(p)
    PROVE  LockInv'
<1> DEFINE h == Group(p)
<1>1. /\ h \in Groups /\ lock \in [Groups -> Seq(Pumps)] /\ lock[h] \in Seq(Pumps)
      /\ lock' = [lock EXCEPT ![h] = Append(lock[h], p)]
      /\ pc[p] = "read" /\ pc'[p] = "lock" /\ \A q \in Pumps : q # p => pc'[q] = pc[q]
  BY PumpFacts DEF Read, At, Goto, TcpTypeOK
<1>2. /\ Len(lock'[h]) = Len(lock[h]) + 1 /\ Len(lock[h]) \in Nat
      /\ lock'[h][Len(lock[h]) + 1] = p
      /\ \A i \in 1..Len(lock[h]) : lock'[h][i] = lock[h][i]
  BY <1>1, AppendFacts
<1>3. \A g \in Groups : \A i \in 1..Len(lock[g]) : lock[g][i] \in Pumps /\ lock[g][i] # p
  BY <1>1 DEF LockInv, LineOk, InLine
<1>4. ASSUME NEW g \in Groups PROVE LineOk(g)'
  <2>1. CASE g # h
    <3>1. lock'[g] = lock[g]
      BY <1>1, <2>1
    <3>2. LineOk(g)
      BY DEF LockInv
    <3>3. \A i \in 1..Len(lock[g]) : pc'[lock[g][i]] = pc[lock[g][i]]
      BY <1>1, <1>3
    <3>. QED  BY <3>1, <3>2, <3>3 DEF LineOk
  <2>2. CASE g = h
    <3> HIDE DEF h
    <3>1. \A i \in 1..Len(lock'[h]) : \/ i \in 1..Len(lock[h]) /\ lock'[h][i] = lock[h][i]
                                      \/ i = Len(lock[h]) + 1 /\ lock'[h][i] = p
      BY <1>2
    <3>2. Group(p) = h
      BY DEF h
    <3>3. LineOk(h)
      BY <1>1 DEF LockInv
    <3>4. \A i \in 1..Len(lock'[h]) : /\ Group(lock'[h][i]) = h /\ pc'[lock'[h][i]] \in InLine
                                      /\ pc'[lock'[h][i]] = "throttle" => i = 1
      BY <1>1, <1>3, <3>1, <3>2, <3>3 DEF LineOk, InLine
    <3>5. \A i, j \in 1..Len(lock'[h]) : lock'[h][i] = lock'[h][j] => i = j
      BY <1>1, <1>3, <3>1, <3>3 DEF LineOk
    <3>. QED  BY <2>2, <3>4, <3>5 DEF LineOk
  <2>. QED  BY <2>1, <2>2
<1>5. ASSUME NEW q \in Pumps, pc'[q] \in InLine
      PROVE  \E i \in 1..Len(lock'[Group(q)]) : lock'[Group(q)][i] = q
  <2>1. CASE q = p
    BY <1>2, <2>1
  <2>2. CASE q # p
    <3>1. PICK i \in 1..Len(lock[Group(q)]) : lock[Group(q)][i] = q
      BY <1>1, <1>5, <2>2 DEF LockInv
    <3>2. Group(q) \in Groups
      BY PumpFacts
    <3>3. CASE Group(q) = h
      <4>1. i \in 1..Len(lock'[h])
        BY <1>2, <3>1, <3>3
      <4>. QED  BY <1>2, <3>1, <3>3, <4>1
    <3>4. CASE Group(q) # h
      <4>1. lock'[Group(q)] = lock[Group(q)]
        BY <1>1, <3>2, <3>4
      <4>. QED  BY <3>1, <4>1
    <3>. QED  BY <3>3, <3>4
  <2>. QED  BY <2>1, <2>2
<1>. QED  BY <1>4, <1>5 DEF LockInv

LEMMA CaptureLine ==
    ASSUME TcpTypeOK, LockInv, NEW p \in Pumps, Capture(p)
    PROVE  LockInv'
<1>1. /\ Group(p) \in Groups /\ lock' = lock /\ lock[Group(p)] \in Seq(Pumps)
      /\ lock[Group(p)] # <<>> /\ Head(lock[Group(p)]) = p
      /\ pc[p] = "lock" /\ pc'[p] = "throttle" /\ \A q \in Pumps : q # p => pc'[q] = pc[q]
  BY PumpFacts DEF Capture, Holder, At, Goto, TcpTypeOK
<1>2. lock[Group(p)][1] = p /\ 1 \in 1..Len(lock[Group(p)])
  BY <1>1, TailFacts
<1>3. ASSUME NEW g \in Groups PROVE LineOk(g)'
  <2>1. LineOk(g) /\ \A i \in 1..Len(lock[g]) : lock[g][i] \in Pumps
    BY DEF LockInv, TcpTypeOK
  <2>2. \A i \in 1..Len(lock[g]) : lock[g][i] = p => i = 1
    BY <1>2, <2>1 DEF LineOk
  <2>. QED  BY <1>1, <2>1, <2>2 DEF LineOk, InLine
<1>. QED  BY <1>1, <1>3 DEF LockInv, InLine

(* The pump that sleeps under the lock is the first of its line.           *)
LEMMA ThrottleIsHead ==
    ASSUME TcpTypeOK, LockInv, NEW p \in Pumps, pc[p] = "throttle"
    PROVE  /\ Group(p) \in Groups /\ lock[Group(p)] \in Seq(Pumps) /\ lock[Group(p)] # <<>>
           /\ Head(lock[Group(p)]) = p /\ lock[Group(p)][1] = p /\ 1 \in 1..Len(lock[Group(p)])
<1>1. Group(p) \in Groups /\ lock[Group(p)] \in Seq(Pumps)
  BY PumpFacts DEF TcpTypeOK
<1>2. PICK i \in 1..Len(lock[Group(p)]) : lock[Group(p)][i] = p
  BY DEF LockInv, InLine
<1>3. i = 1
  BY <1>1, <1>2 DEF LockInv, LineOk
<1>4. lock[Group(p)] # <<>>
  BY <1>1, <1>2
<1>. QED  BY <1>1, <1>2, <1>3, <1>4, TailFacts

LEMMA SlotLine ==
    ASSUME TcpTypeOK, LockInv, NEW p \in Pumps, TakeSlot(p)
    PROVE  LockInv'
<1> DEFINE h == Group(p)
<1>1. /\ lock' = [lock EXCEPT ![h] = Tail(lock[h])] /\ lock \in [Groups -> Seq(Pumps)]
      /\ pc[p] = "throttle" /\ pc'[p] = "sleep" /\ \A q \in Pumps : q # p => pc'[q] = pc[q]
  BY DEF TakeSlot, At, Goto, TcpTypeOK
<1>2. h \in Groups /\ lock[h] \in Seq(Pumps) /\ lock[h] # <<>> /\ lock[h][1] = p /\ 1 \in 1..Len(lock[h])
  BY <1>1, ThrottleIsHead
<1>3. /\ lock'[h] = Tail(lock[h]) /\ Len(lock'[h]) = Len(lock[h]) - 1 /\ Len(lock[h]) \in Nat
      /\ \A i \in 1..(Len(lock[h]) - 1) : lock'[h][i] = lock[h][i + 1]
  BY <1>1, <1>2, TailFacts
<1>4. ASSUME NEW g \in Groups, g # h, NEW i \in 1..Len(lock[g])
      PROVE  lock[g][i] \in Pumps /\ lock[g][i] # p
  BY <1>1, <1>4 DEF LockInv, LineOk
<1>5. ASSUME NEW i \in 1..(Len(lock[h]) - 1)
      PROVE  /\ i + 1 \in 1..Len(lock[h]) /\ i + 1 # 1 /\ lock[h][i + 1] \in Pumps
             /\ lock[h][i + 1] # p
  <2>1. i + 1 \in 1..Len(lock[h]) /\ i + 1 # 1
    BY <1>3
  <2>. QED  BY <1>2, <2>1 DEF LockInv, LineOk
<1>6. ASSUME NEW g \in Groups PROVE LineOk(g)'
  <2>0. LineOk(g)
    BY DEF LockInv
  <2>1. CASE g # h
    <3>1. lock'[g] = lock[g]
      BY <1>1, <2>1
    <3>. QED  BY <1>1, <1>4, <2>0, <2>1, <3>1 DEF LineOk
  <2>2. CASE g = h
    <3>1. \A i \in 1..Len(lock'[h]) : /\ i + 1 \in 1..Len(lock[h])
                                      /\ lock'[h][i] = lock[h][i + 1]
                                      /\ pc'[lock[h][i + 1]] = pc[lock[h][i + 1]]
                                      /\ i + 1 # 1 /\ i \in Int
      BY <1>1, <1>3, <1>5
    <3>2. LineOk(h)
      BY <2>0, <2>2
    <3> HIDE DEF h
    <3>3. \A i \in 1..Len(lock'[h]) : /\ Group(lock'[h][i]) = h /\ pc'[lock'[h][i]] \in InLine
                                      /\ pc'[lock'[h][i]] = "throttle" => i = 1
      BY <3>1, <3>2 DEF LineOk
    <3>4. \A i, j \in 1..Len(lock'[h]) : lock'[h][i] = lock'[h][j] => i = j
      <4> SUFFICES ASSUME NEW i \in 1..Len(lock'[h]), NEW j \in 1..Len(lock'[h]),
                          lock'[h][i] = lock'[h][j]
                   PROVE  i = j
        OBVIOUS
      <4>1. lock[h][i + 1] = lock[h][j + 1] /\ i + 1 \in 1..Len(lock[h]) /\ j + 1 \in 1..Len(lock[h])
        BY <3>1
      <4>2. \A m, n \in 1..Len(lock[h]) : lock[h][m] = lock[h][n] => m = n
        BY <3>2 DEF LineOk
      <4>3. i + 1 = j + 1
        BY <4>1, <4>2
      <4>. QED  BY <3>1, <4>3
    <3>. QED  BY <2>2, <3>3, <3>4 DEF LineOk
  <2>. QED  BY <2>1, <2>2
<1>7. ASSUME NEW q \in Pumps, pc'[q] \in InLine
      PROVE  \E i \in 1..Len(lock'[Group(q)]) : lock'[Group(q)][i] = q
  <2>1. q # p /\ pc[q] \in InLine
    BY <1>1, <1>7 DEF InLine
  <2>2. PICK i \in 1..Len(lock[Group(q)]) : lock[Group(q)][i] = q
    BY <2>1 DEF LockInv
  <2>3. CASE Group(q) = h
    <3>1. i # 1
      BY <1>2, <2>1, <2>2, <2>3
    <3>2. i - 1 \in 1..Len(lock'[h]) /\ (i - 1) + 1 = i
      BY <1>3, <2>2, <2>3, <3>1
    <3>. QED  BY <1>3, <2>2, <2>3, <3>2
  <2>4. CASE Group(q) # h
    <3>1. lock'[Group(q)] = lock[Group(q)]
      BY <1>1, <2>4, PumpFacts
    <3>. QED  BY <2>2, <3>1
  <2>. QED  BY <2>3, <2>4
<1>. QED  BY <1>6, <1>7 DEF LockInv

LEMMA GiveBackKeepsLine ==
    ASSUME TcpTypeOK, LockInv, NEW p \in Pumps, GiveBack(p),
           pc' = [pc EXCEPT ![p] = pc'[p]], pc'[p] = "gone"
    PROVE  LockInv'
<1> DEFINE h == Group(p)
<1>0. \A q \in Pumps : q # p => pc'[q] = pc[q]
  BY DEF TcpTypeOK
<1>1. CASE pc[p] \notin InLine /\ lock' = lock
  BY <1>0, <1>1, LineSame DEF InLine
<1>2. CASE pc[p] \in InLine /\ lock' # lock
  <2>1. PICK k \in 1..Len(lock[h]) :
           /\ lock[h][k] = p
           /\ lock' = [lock EXCEPT ![h] = lock'[h]]
           /\ Len(lock'[h]) = Len(lock[h]) - 1
           /\ \A i \in 1..(Len(lock[h]) - 1) :
                 lock'[h][i] = IF i < k THEN lock[h][i] ELSE lock[h][i + 1]
    BY <1>2, GiveBackLine
  <2>2. /\ h \in Groups /\ lock \in [Groups -> Seq(Pumps)] /\ Len(lock[h]) \in Nat
        /\ k \in Int /\ k >= 1 /\ k <= Len(lock[h])
    <3>1. h \in Groups /\ lock \in [Groups -> Seq(Pumps)]
      BY PumpFacts DEF TcpTypeOK
    <3>2. lock[h] \in Seq(Pumps)
      BY <3>1
    <3>3. Len(lock[h]) \in Nat
      BY <3>2
    <3>. QED  BY <3>1, <3>3
  <2>3. LineOk(h)
    BY <2>2 DEF LockInv
  <2> DEFINE old(i) == IF i < k THEN i ELSE i + 1
  <2>4. ASSUME NEW i \in 1..Len(lock'[h])
        PROVE  /\ old(i) \in 1..Len(lock[h]) /\ lock'[h][i] = lock[h][old(i)]
               /\ lock[h][old(i)] \in Pumps /\ lock[h][old(i)] # p
               /\ old(i) = 1 => i = 1
    <3>1. old(i) \in 1..Len(lock[h]) /\ old(i) # k /\ (old(i) = 1 => i = 1)
      BY <2>1, <2>2
    <3>2. lock'[h][i] = lock[h][old(i)]
      BY <2>1
    <3>3. lock[h][old(i)] \in Pumps
      BY <2>2, <3>1
    <3>4. lock[h][old(i)] # p
      BY <2>1, <2>3, <3>1 DEF LineOk
    <3>. QED  BY <3>1, <3>2, <3>3, <3>4
  <2>5. \A i, j \in 1..Len(lock'[h]) : old(i) = old(j) => i = j
    BY <2>1, <2>2
  <2>6. \A i \in 1..Len(lock[h]) : i # k => \E j \in 1..Len(lock'[h]) : old(j) = i
    <3> SUFFICES ASSUME NEW i \in 1..Len(lock[h]), i # k
                 PROVE  \E j \in 1..Len(lock'[h]) : old(j) = i
      OBVIOUS
    <3>1. CASE i < k
      <4>1. i \in 1..Len(lock'[h]) /\ old(i) = i
        BY <2>1, <2>2, <3>1
      <4>. QED  BY <4>1
    <3>2. CASE ~(i < k)
      <4>1. i - 1 \in 1..Len(lock'[h]) /\ old(i - 1) = i
        BY <2>1, <2>2, <3>2
      <4>. QED  BY <4>1
    <3>. QED  BY <3>1, <3>2
  <2> HIDE DEF old, h
  <2>7. ASSUME NEW g \in Groups PROVE LineOk(g)'
    <3>1. CASE g # h
      <4>1. lock'[g] = lock[g]
        BY <2>1, <2>2, <3>1
      <4>2. LineOk(g)
        BY DEF LockInv
      <4>3. \A i \in 1..Len(lock[g]) : lock[g][i] \in Pumps /\ lock[g][i] # p
        BY <2>2, <3>1, <4>2 DEF LineOk, h
      <4>. QED  BY <1>0, <4>1, <4>2, <4>3 DEF LineOk
    <3>2. CASE g = h
      <4>1. \A i \in 1..Len(lock'[h]) : /\ Group(lock'[h][i]) = h /\ pc'[lock'[h][i]] \in InLine
                                        /\ pc'[lock'[h][i]] = "throttle" => i = 1
        BY <1>0, <2>3, <2>4 DEF LineOk
      <4>2. \A i, j \in 1..Len(lock'[h]) : lock'[h][i] = lock'[h][j] => i = j
        BY <2>3, <2>4, <2>5 DEF LineOk
      <4>. QED  BY <3>2, <4>1, <4>2 DEF LineOk
    <3>. QED  BY <3>1, <3>2
  <2>8. ASSUME NEW q \in Pumps, pc'[q] \in InLine
        PROVE  \E i \in 1..Len(lock'[Group(q)]) : lock'[Group(q)][i] = q
    <3>1. q # p /\ pc[q] \in InLine
      BY <1>0, <2>8 DEF InLine
    <3>2. PICK i \in 1..Len(lock[Group(q)]) : lock[Group(q)][i] = q
      BY <3>1 DEF LockInv
    <3>3. CASE Group(q) = h
      <4>1. i \in 1..Len(lock[h]) /\ i # k
        BY <2>1, <3>1, <3>2, <3>3
      <4>2. PICK j \in 1..Len(lock'[h]) : old(j) = i
        BY <2>6, <4>1
      <4>. QED  BY <2>4, <3>2, <3>3, <4>2
    <3>4. CASE Group(q) # h
      <4>1. lock'[Group(q)] = lock[Group(q)]
        BY <2>1, <2>2, <3>4, PumpFacts
      <4>. QED  BY <3>2, <4>1
    <3>. QED  BY <3>3, <3>4
  <2>. QED  BY <2>7, <2>8 DEF LockInv
<1>3. CASE pc[p] \in InLine /\ lock' = lock
  <2>1. \E k \in 1..Len(lock[h]) : Len(lock'[h]) = Len(lock[h]) - 1
    BY <1>3, GiveBackLine
  <2>2. Len(lock[h]) \in Nat
    BY PumpFacts DEF TcpTypeOK
  <2>. QED  BY <1>3, <2>1, <2>2
<1>. QED  BY <1>1, <1>2, <1>3, GiveBackLine

LEMMA LockStep ==
    ASSUME TcpTypeOK, EarlyOff, LockInv, TcpStep
    PROVE  LockInv'
<1>1. CASE UNCHANGED pc /\ UNCHANGED lock
  BY <1>1, LineSame
<1>2. CASE \E c \in Conns : /\ Connected(c)
                            /\ \A p \in Pumps : pc'[p] # pc[p] => pc[p] = "off" /\ pc'[p] = "read"
  BY <1>2, LineSame DEF Connected, InLine
<1>3. ASSUME NEW p \in Pumps, pc' = [pc EXCEPT ![p] = pc'[p]],
             \/ Eof(p) /\ pc[p] = "read" /\ pc'[p] = "done"
             \/ Write(p) /\ pc[p] = "sleep" /\ pc'[p] = "drain"
             \/ Drained(p) /\ pc[p] = "drain" /\ pc'[p] = "read"
      PROVE  LockInv'
  <2>1. lock' = lock
    BY <1>3 DEF Eof, Write, Drained
  <2>2. \A q \in Pumps : pc'[q] # pc[q] => pc[q] \notin InLine /\ pc'[q] \notin InLine
    BY <1>3 DEF InLine, TcpTypeOK
  <2>. QED  BY <2>1, <2>2, LineSame
<1>. QED  BY <1>1, <1>2, <1>3, PumpMoves, ReadLine, CaptureLine, SlotLine, GiveBackKeepsLine

LEMMA HoldingFinite == \A g \in Groups : IsFiniteSet(Holding(g))
<1> SUFFICES ASSUME NEW g \in Groups PROVE IsFiniteSet(Holding(g))
  OBVIOUS
<1>1. Holding(g) \in SUBSET Pumps /\ IsFiniteSet(Pumps)
  BY PumpFacts DEF Holding
<1>. QED  BY <1>1, FS_Subset

LEMMA PendSame ==
    ASSUME PendInv, pending' = pending,
           \A p \in Pumps : (pc'[p] \in Holds) <=> (pc[p] \in Holds)
    PROVE  PendInv'
<1>1. \A g \in Groups : Holding(g)' = Holding(g)
  BY DEF Holding
<1>. QED  BY <1>1 DEF PendInv

(* A pump that begins or ends to hold a reservation counts once.           *)
LEMMA PendMove ==
    ASSUME TcpTypeOK, PendInv, NEW p \in Pumps, pc' = [pc EXCEPT ![p] = pc'[p]],
           \/ /\ pc[p] \notin Holds /\ pc'[p] \in Holds
              /\ pending' = [pending EXCEPT ![Group(p)] = @ + 1]
           \/ /\ pc[p] \in Holds /\ pc'[p] \notin Holds
              /\ pending' = [pending EXCEPT ![Group(p)] = @ - 1]
    PROVE  PendInv'
<1>1. /\ Group(p) \in Groups /\ pending \in [Groups -> Int] /\ \A q \in Pumps : q # p => pc'[q] = pc[q]
  BY PumpFacts DEF TcpTypeOK
<1>2. ASSUME NEW g \in Groups, g # Group(p)
      PROVE  pending'[g] = Cardinality(Holding(g)')
  <2>1. Holding(g)' = Holding(g) /\ pending'[g] = pending[g]
    BY <1>1, <1>2 DEF Holding
  <2>. QED  BY <2>1 DEF PendInv
<1>3. ASSUME NEW g \in Groups, g = Group(p)
      PROVE  pending'[g] = Cardinality(Holding(g)')
  <2>1. IsFiniteSet(Holding(g)) /\ pending[g] = Cardinality(Holding(g))
    BY HoldingFinite DEF PendInv
  <2>2. CASE /\ pc[p] \notin Holds /\ pc'[p] \in Holds
             /\ pending' = [pending EXCEPT ![Group(p)] = @ + 1]
    <3>1. Holding(g)' = Holding(g) \cup {p} /\ p \notin Holding(g)
      BY <1>1, <1>3, <2>2 DEF Holding
    <3>2. Cardinality(Holding(g) \cup {p}) = Cardinality(Holding(g)) + 1
      BY <2>1, <3>1, FS_AddElement
    <3>3. pending'[g] = pending[g] + 1
      BY <1>1, <1>3, <2>2
    <3>. QED  BY <2>1, <3>1, <3>2, <3>3
  <2>3. CASE /\ pc[p] \in Holds /\ pc'[p] \notin Holds
             /\ pending' = [pending EXCEPT ![Group(p)] = @ - 1]
    <3>1. Holding(g)' = Holding(g) \ {p} /\ p \in Holding(g)
      BY <1>1, <1>3, <2>3 DEF Holding
    <3>2. Cardinality(Holding(g) \ {p}) = Cardinality(Holding(g)) - 1
      BY <2>1, <3>1, FS_RemoveElement
    <3>3. pending'[g] = pending[g] - 1
      BY <1>1, <1>3, <2>3
    <3>. QED  BY <2>1, <3>1, <3>2, <3>3
  <2>. QED  BY <2>2, <2>3
<1>. QED  BY <1>2, <1>3 DEF PendInv

LEMMA PendStep ==
    ASSUME TcpTypeOK, EarlyOff, PendInv, TcpStep
    PROVE  PendInv'
<1>0. pc \in [Pumps -> PumpAt] /\ pending \in [Groups -> Int]
  BY DEF TcpTypeOK
<1>1. CASE UNCHANGED pc /\ UNCHANGED pending
  BY <1>1, PendSame
<1>2. CASE \E c \in Conns : /\ Connected(c)
                            /\ \A p \in Pumps : pc'[p] # pc[p] => pc[p] = "off" /\ pc'[p] = "read"
  <2>1. pending' = pending
    BY <1>2 DEF Connected
  <2>2. \A p \in Pumps : (pc'[p] \in Holds) <=> (pc[p] \in Holds)
    BY <1>2 DEF Holds
  <2>. QED  BY <2>1, <2>2, PendSame
<1>3. ASSUME NEW p \in Pumps, pc' = [pc EXCEPT ![p] = pc'[p]],
             \/ Read(p) /\ pc[p] = "read" /\ pc'[p] = "lock"
             \/ Eof(p) /\ pc[p] = "read" /\ pc'[p] = "done"
             \/ Capture(p) /\ pc[p] = "lock" /\ pc'[p] = "throttle"
             \/ Write(p) /\ pc[p] = "sleep" /\ pc'[p] = "drain"
      PROVE  PendInv'
  <2>1. pending' = pending
    BY <1>3 DEF Read, Eof, Capture, Write
  <2>2. \A q \in Pumps : (pc'[q] \in Holds) <=> (pc[q] \in Holds)
    BY <1>0, <1>3 DEF Holds
  <2>. QED  BY <2>1, <2>2, PendSame
<1>4. ASSUME NEW p \in Pumps, pc' = [pc EXCEPT ![p] = pc'[p]],
             \/ TakeSlot(p) /\ pc[p] = "throttle" /\ pc'[p] = "sleep"
             \/ Drained(p) /\ pc[p] = "drain" /\ pc'[p] = "read"
      PROVE  PendInv'
  <2>1. CASE TakeSlot(p) /\ pc[p] = "throttle" /\ pc'[p] = "sleep"
    <3>1. pending' = [pending EXCEPT ![Group(p)] = @ + 1]
      BY <2>1 DEF TakeSlot
    <3>. QED  BY <1>4, <2>1, <3>1, PendMove DEF Holds
  <2>2. CASE Drained(p) /\ pc[p] = "drain" /\ pc'[p] = "read"
    <3>1. pending' = [pending EXCEPT ![Group(p)] = @ - 1]
      BY <2>2 DEF Drained
    <3>. QED  BY <1>4, <2>2, <3>1, PendMove DEF Holds
  <2>. QED  BY <1>4, <2>1, <2>2
<1>5. ASSUME NEW p \in Pumps, pc' = [pc EXCEPT ![p] = pc'[p]], GiveBack(p), pc'[p] = "gone"
      PROVE  PendInv'
  <2>1. CASE pc[p] \in Holds
    <3>1. pending' = [pending EXCEPT ![Group(p)] = @ - 1]
      BY <1>5, <2>1 DEF GiveBack, Holds
    <3>2. pc'[p] \notin Holds
      BY <1>5 DEF Holds
    <3>. QED  BY <1>5, <2>1, <3>1, <3>2, PendMove
  <2>2. CASE pc[p] \notin Holds
    <3>1. pending[Group(p)] \in Int /\ Group(p) \in Groups
      BY <1>0, PumpFacts
    <3>2. pending' = [pending EXCEPT ![Group(p)] = pending[Group(p)] - 0]
      BY <1>5, <2>2 DEF GiveBack, Holds
    <3>3. pending' = pending
      BY <1>0, <3>1, <3>2
    <3>4. \A q \in Pumps : (pc'[q] \in Holds) <=> (pc[q] \in Holds)
      BY <1>0, <1>5, <2>2 DEF Holds
    <3>. QED  BY <3>3, <3>4, PendSame
  <2>. QED  BY <2>1, <2>2
<1>. QED  BY <1>1, <1>2, <1>3, <1>4, <1>5, PumpMoves

-----------------------------------------------------------------------------
(* The clock of a group.  While a pump sleeps under the lock nobody else   *)
(* moves the clock, so the wait it computed is still the right one when it *)
(* wakes, whatever the rate has become.                                    *)

Waited(p) ==
    /\ rate_bps = 0 => work[p].rate = 0
    /\ IF work[p].rate = 0 THEN tnext[Group(p)] <= work[p].at /\ work[p].at <= now
       ELSE tnext[Group(p)] - MaxQueue <= work[p].wake

SlotOk(s) == s.from - s.at <= MaxQueue
GroupInOrder(g) ==
    /\ tslots[g] # <<>> => tnext[g] = tslots[g][Len(tslots[g])].ready
    /\ \A i \in 1..Len(tslots[g]) : SlotOk(tslots[g][i])
    /\ \A i \in 1..(Len(tslots[g]) - 1) : tslots[g][i].ready <= tslots[g][i + 1].from

TimeInv ==
    /\ rate_bps = 0 => \A g \in Groups : tnext[g] <= now
    /\ \A p \in Pumps : pc[p] = "throttle" => Waited(p)
    /\ \A g \in Groups : GroupInOrder(g)

LEMMA TimeSame ==
    ASSUME TimeInv, UNCHANGED <<tnext, tslots, now, rate_bps>>,
           \A p \in Pumps : pc'[p] = "throttle" => pc[p] = "throttle" /\ work'[p] = work[p]
    PROVE  TimeInv'
BY DEF TimeInv, Waited, GroupInOrder, SlotOk

LEMMA CaptureTime ==
    ASSUME TcpTypeOK, TimeInv, NEW p \in Pumps, Capture(p), UNCHANGED clockVars
    PROVE  TimeInv'
<1>1. /\ UNCHANGED <<tnext, tslots, now, rate_bps>> /\ Group(p) \in Groups
      /\ \A q \in Pumps : q # p => pc'[q] = pc[q] /\ work'[q] = work[q]
      /\ tnext[Group(p)] \in Nat /\ now \in Nat /\ rate_bps \in Nat /\ MaxQueue \in Nat
  BY PumpFacts, TimeAssumption DEF Capture, Goto, TcpTypeOK, clockVars
<1>2. /\ work'[p].rate = rate_bps /\ work'[p].at = now
      /\ work'[p].wake = IF rate_bps = 0 THEN now ELSE MaxOf(now, tnext[Group(p)] - MaxQueue)
  BY DEF Capture, TcpTypeOK, Nothing
<1>3. Waited(p)'
  <2>1. CASE rate_bps = 0
    BY <1>1, <1>2, <2>1 DEF Waited, TimeInv
  <2>2. CASE rate_bps # 0
    <3>1. MaxOf(now, tnext[Group(p)] - MaxQueue) >= tnext[Group(p)] - MaxQueue
      BY <1>1 DEF MaxOf
    <3>. QED  BY <1>1, <1>2, <2>2, <3>1 DEF Waited
  <2>. QED  BY <2>1, <2>2
<1>. QED  BY <1>1, <1>3 DEF TimeInv, Waited, GroupInOrder, SlotOk

LEMMA SlotTime ==
    ASSUME TcpTypeOK, LockInv, TimeInv, NEW p \in Pumps, TakeSlot(p), UNCHANGED clockVars
    PROVE  TimeInv'
<1> DEFINE h == Group(p)
           service == Service(ChunkSize, work[p].rate)
           slot == [item |-> <<p, took[p]>>, at |-> now, ready |-> ReadyOf(p),
                    from |-> ReadyOf(p) - service]
<1>1. /\ h \in Groups /\ UNCHANGED <<now, rate_bps>> /\ now >= work[p].wake
      /\ pc[p] = "throttle" /\ pc'[p] = "sleep" /\ \A q \in Pumps : q # p => pc'[q] = pc[q] /\ work'[q] = work[q]
      /\ tnext' = [tnext EXCEPT ![h] = ReadyOf(p)] /\ tnext \in [Groups -> Nat]
      /\ tslots' = [tslots EXCEPT ![h] = Append(tslots[h], slot)] /\ tslots \in [Groups -> Seq(TSlot)]
  BY PumpFacts DEF TakeSlot, At, Goto, TcpTypeOK, clockVars
<1>2. /\ now \in Nat /\ tnext[h] \in Nat /\ work[p].rate \in Nat /\ work[p].at \in Nat
      /\ work[p].wake \in Nat /\ ReadyOf(p) \in Nat /\ MaxQueue \in Nat /\ ChunkSize \in Nat
  BY <1>1, ReadyType, TimeAssumption, TcpAssumption DEF TcpTypeOK
<1>3. service \in Nat /\ service <= ChunkSize /\ (work[p].rate = 0 => service = 0)
  BY <1>2, ChunkService
<1>4. Waited(p)
  BY <1>1 DEF TimeInv
<1>5. /\ tnext[h] <= ReadyOf(p) - service
      /\ (ReadyOf(p) - service) - now <= MaxQueue
      /\ work[p].rate = 0 => ReadyOf(p) <= now
  <2>1. CASE work[p].rate = 0
    <3>1. ReadyOf(p) = work[p].at /\ service = 0 /\ tnext[h] <= work[p].at /\ work[p].at <= now
      BY <1>3, <1>4, <2>1 DEF ReadyOf, Waited
    <3>2. tnext[h] <= ReadyOf(p) - service /\ ReadyOf(p) <= now
      BY <1>2, <3>1
    <3>3. (ReadyOf(p) - service) - now <= MaxQueue
      BY <1>2, <1>3, <3>2
    <3>. QED  BY <3>2, <3>3
  <2>2. CASE work[p].rate # 0
    <3>1. ReadyOf(p) = MaxOf(now, tnext[h]) + service
      BY <2>2 DEF ReadyOf
    <3>2. tnext[h] - MaxQueue <= now
      BY <1>1, <1>2, <1>4, <2>2 DEF Waited
    <3>3. /\ MaxOf(now, tnext[h]) \in Nat /\ MaxOf(now, tnext[h]) >= tnext[h]
          /\ MaxOf(now, tnext[h]) - now <= MaxQueue
      BY <1>2, <3>2 DEF MaxOf
    <3> HIDE DEF service, h
    <3>. QED  BY <1>2, <1>3, <2>2, <3>1, <3>3
  <2>. QED  BY <2>1, <2>2
<1>6. slot \in TSlot /\ slot.at = now /\ slot.ready = ReadyOf(p) /\ slot.from = ReadyOf(p) - service
  BY <1>2, <1>3 DEF TSlot, TcpTypeOK
<1> HIDE DEF slot, service
<1>7. ASSUME NEW g \in Groups PROVE GroupInOrder(g)'
  <2>0. GroupInOrder(g)
    BY DEF TimeInv
  <2>1. CASE g # h
    <3>1. tslots'[g] = tslots[g] /\ tnext'[g] = tnext[g]
      BY <1>1, <2>1
    <3>. QED  BY <2>0, <3>1 DEF GroupInOrder, SlotOk
  <2>2. CASE g = h
    <3>1. /\ Len(tslots'[g]) = Len(tslots[g]) + 1 /\ Len(tslots[g]) \in Nat
          /\ tslots'[g][Len(tslots[g]) + 1] = slot /\ tnext'[g] = ReadyOf(p)
          /\ \A i \in 1..Len(tslots[g]) : tslots'[g][i] = tslots[g][i]
      BY <1>1, <1>6, <2>2, AppendFacts
    <3>2. SlotOk(slot)
      BY <1>5, <1>6 DEF SlotOk
    <3>3. ASSUME NEW i \in 1..Len(tslots'[g]) PROVE SlotOk(tslots'[g][i])
      <4>1. i \in 1..Len(tslots[g]) \/ i = Len(tslots[g]) + 1
        BY <3>1
      <4>. QED  BY <2>0, <3>1, <3>2, <4>1 DEF GroupInOrder
    <3>4. ASSUME NEW i \in 1..(Len(tslots'[g]) - 1)
          PROVE  tslots'[g][i].ready <= tslots'[g][i + 1].from
      <4>1. CASE i = Len(tslots[g])
        <5>1. tslots[g] # <<>> /\ i \in 1..Len(tslots[g])
          BY <3>1, <4>1
        <5>2. tslots'[g][i].ready = tnext[h]
          BY <2>0, <2>2, <3>1, <4>1, <5>1 DEF GroupInOrder
        <5>3. tslots'[g][i + 1].from = ReadyOf(p) - service
          BY <1>6, <3>1, <4>1
        <5>. QED  BY <1>5, <5>2, <5>3
      <4>2. CASE i # Len(tslots[g])
        <5>1. i \in 1..(Len(tslots[g]) - 1) /\ i \in 1..Len(tslots[g]) /\ i + 1 \in 1..Len(tslots[g])
          BY <3>1, <4>2
        <5>. QED  BY <2>0, <3>1, <5>1 DEF GroupInOrder
      <4>. QED  BY <4>1, <4>2
    <3>5. tnext'[g] = tslots'[g][Len(tslots'[g])].ready
      BY <1>6, <3>1
    <3>. QED  BY <3>3, <3>4, <3>5 DEF GroupInOrder, SlotOk
  <2>. QED  BY <2>1, <2>2
<1>8. ASSUME NEW q \in Pumps, pc'[q] = "throttle" PROVE Waited(q)'
  <2>1. q # p /\ pc[q] = "throttle"
    BY <1>1, <1>8
  <2>2. Group(q) # h
    <3>1. Head(lock[Group(p)]) = p /\ Head(lock[Group(q)]) = q
      BY <1>1, <2>1, ThrottleIsHead
    <3>. QED  BY <2>1, <3>1
  <2>3. tnext'[Group(q)] = tnext[Group(q)] /\ work'[q] = work[q]
    BY <1>1, <2>1, <2>2, PumpFacts
  <2>. QED  BY <1>1, <2>1, <2>3 DEF TimeInv, Waited
<1>9. ASSUME rate_bps = 0, NEW g \in Groups PROVE tnext'[g] <= now
  <2>1. CASE g # h
    BY <1>1, <1>9, <2>1 DEF TimeInv
  <2>2. CASE g = h
    <3>1. tnext'[g] = ReadyOf(p)
      BY <1>1, <2>2
    <3>2. work[p].rate = 0
      BY <1>4, <1>9 DEF Waited
    <3>. QED  BY <1>5, <3>1, <3>2
  <2>. QED  BY <2>1, <2>2
<1>. QED  BY <1>1, <1>7, <1>8, <1>9 DEF TimeInv

LEMMA TimeStep ==
    ASSUME TcpTypeOK, EarlyOff, LockInv, TimeInv, [TcpNext]_<<clockVars, tcpVars>>
    PROVE  TimeInv'
<1>0. pc \in [Pumps -> PumpAt] /\ work \in [Pumps -> Job] /\ now \in Nat /\ tnext \in [Groups -> Nat]
  BY DEF TcpTypeOK
<1>1. CASE TcpStep /\ UNCHANGED clockVars
  <2>0. UNCHANGED <<now, rate_bps>>
    BY <1>1 DEF clockVars
  <2>1. CASE UNCHANGED pc /\ UNCHANGED <<lock, pending, tnext, tslots, took, work>>
    BY <2>0, <2>1, TimeSame
  <2>2. CASE \E c \in Conns : /\ Connected(c)
                              /\ \A p \in Pumps : pc'[p] # pc[p] => pc[p] = "off" /\ pc'[p] = "read"
    <3>1. UNCHANGED <<tnext, tslots, work>>
      BY <2>2 DEF Connected
    <3>2. \A p \in Pumps : pc'[p] = "throttle" => pc[p] = "throttle"
      BY <2>2
    <3>. QED  BY <2>0, <3>1, <3>2, TimeSame
  <2>3. ASSUME NEW p \in Pumps, pc' = [pc EXCEPT ![p] = pc'[p]],
               \/ Read(p) /\ pc[p] = "read" /\ pc'[p] = "lock"
               \/ Eof(p) /\ pc[p] = "read" /\ pc'[p] = "done"
               \/ Write(p) /\ pc[p] = "sleep" /\ pc'[p] = "drain"
               \/ Drained(p) /\ pc[p] = "drain" /\ pc'[p] = "read"
               \/ GiveBack(p) /\ pc'[p] = "gone" /\ UNCHANGED <<took, tnext, tslots>>
        PROVE  TimeInv'
    <3>1. UNCHANGED <<tnext, tslots>> /\ work' \in {work, [work EXCEPT ![p] = Nothing]}
      BY <2>3 DEF Read, Eof, Write, Drained, GiveBack
    <3>2. pc'[p] # "throttle" /\ \A q \in Pumps : q # p => pc'[q] = pc[q] /\ work'[q] = work[q]
      BY <1>0, <2>3, <3>1
    <3>. QED  BY <2>0, <3>1, <3>2, TimeSame
  <2>. QED  BY <1>1, <2>1, <2>2, <2>3, PumpMoves, CaptureTime, SlotTime
<1>2. CASE Tick /\ UNCHANGED tcpVars
  <2>1. now' = now + 1 /\ UNCHANGED <<rate_bps, pc, work, tnext, tslots>>
    BY <1>2 DEF Tick, tcpVars
  <2>2. \A p \in Pumps : work[p].at <= now => work[p].at <= now'
    BY <1>0, <2>1 DEF Job
  <2>3. \A g \in Groups : tnext[g] <= now => tnext[g] <= now'
    BY <1>0, <2>1
  <2>. QED  BY <2>1, <2>2, <2>3 DEF TimeInv, Waited, GroupInOrder, SlotOk
<1>3. ASSUME NEW r \in Rates, SetRate(r), UNCHANGED tcpVars PROVE TimeInv'
  <2>1. rate_bps' # 0 /\ UNCHANGED <<now, pc, work, tnext, tslots>>
    BY <1>3, RatesAssumption DEF SetRate, tcpVars
  <2>. QED  BY <2>1 DEF TimeInv, Waited, GroupInOrder, SlotOk
<1>4. CASE UNCHANGED <<clockVars, tcpVars>>
  BY <1>4 DEF TimeInv, Waited, GroupInOrder, SlotOk, clockVars, tcpVars
<1>. QED  BY <1>1, <1>2, <1>3, <1>4 DEF TcpNext

-----------------------------------------------------------------------------
(* The inductive invariant of the TCP shaper and its theorems.             *)

TcpInv == TcpTypeOK /\ EarlyOff /\ LockInv /\ PendInv /\ TimeInv

LEMMA TcpInitInv == ClockInit /\ TcpInit => TcpInv
<1> SUFFICES ASSUME ClockInit, TcpInit PROVE TcpInv
  OBVIOUS
<1>1. TcpTypeOK
  BY DEF ClockInit, TcpInit, TcpTypeOK, Early, PumpAt, Job, Nothing
<1>2. \A p \in Pumps : pc[p] = "off"
  BY DEF TcpInit
<1>3. \A g \in Groups : lock[g] = <<>> /\ tslots[g] = <<>> /\ tnext[g] = 0 /\ pending[g] = 0
  BY DEF TcpInit
<1>4. EarlyOff
  BY <1>2 DEF EarlyOff
<1>5. LockInv
  BY <1>2, <1>3 DEF LockInv, LineOk, InLine
<1>6. PendInv
  <2>1. \A g \in Groups : Holding(g) = {}
    BY <1>2 DEF Holding, Holds
  <2>. QED  BY <1>3, <2>1, FS_EmptySet DEF PendInv
<1>7. TimeInv
  BY <1>2, <1>3 DEF ClockInit, TimeInv, GroupInOrder
<1>. QED  BY <1>1, <1>4, <1>5, <1>6, <1>7 DEF TcpInv

LEMMA TcpStepInv == TcpInv /\ [TcpNext]_<<clockVars, tcpVars>> => TcpInv'
<1> SUFFICES ASSUME TcpInv, [TcpNext]_<<clockVars, tcpVars>> PROVE TcpInv'
  OBVIOUS
<1>1. TcpTypeOK' /\ TimeInv'
  BY TcpTypeStep, TimeStep DEF TcpInv
<1>2. CASE TcpStep
  BY <1>1, <1>2, EarlyStep, LockStep, PendStep DEF TcpInv
<1>3. CASE UNCHANGED tcpVars
  BY <1>1, <1>3 DEF TcpInv, EarlyOff, LockInv, LineOk, PendInv, Holding, tcpVars
<1>. QED  BY <1>2, <1>3 DEF TcpNext

(* However pumps are cancelled, the pending count is the number of pumps   *)
(* with a reservation, and the lock's line is live: _pump and the finally  *)
(* block of _connection.                                                   *)
THEOREM CancelIsClean == TcpSpec => []CancelLeavesNothing
<1>1. TcpInv => CancelLeavesNothing
  <2> SUFFICES ASSUME TcpInv, NEW g \in Groups
               PROVE  /\ pending[g] = Cardinality({p \in Pumps : Group(p) = g /\ pc[p] \in {"sleep", "drain"}})
                      /\ ToSet(lock[g]) = {p \in Pumps : Group(p) = g /\ pc[p] \in {"lock", "throttle"}}
                      /\ \A i \in DOMAIN lock[g] : pc[lock[g][i]] = "throttle" => i = 1
    BY DEF CancelLeavesNothing
  <2>1. lock[g] \in Seq(Pumps) /\ LineOk(g)
    BY DEF TcpInv, TcpTypeOK, LockInv
  <2>2. DOMAIN lock[g] = 1..Len(lock[g]) /\ \A i \in 1..Len(lock[g]) : lock[g][i] \in Pumps
    BY <2>1
  <2>3. pending[g] = Cardinality({p \in Pumps : Group(p) = g /\ pc[p] \in {"sleep", "drain"}})
    BY DEF TcpInv, PendInv, Holding, Holds
  <2>4. ToSet(lock[g]) \subseteq {p \in Pumps : Group(p) = g /\ pc[p] \in {"lock", "throttle"}}
    BY <2>1, <2>2 DEF LineOk, InLine, ToSet
  <2>5. {p \in Pumps : Group(p) = g /\ pc[p] \in {"lock", "throttle"}} \subseteq ToSet(lock[g])
    BY <2>2 DEF TcpInv, LockInv, InLine, ToSet
  <2>. QED  BY <2>1, <2>2, <2>3, <2>4, <2>5 DEF LineOk
<1>. QED  BY TcpInitInv, TcpStepInv, <1>1, PTL DEF TcpSpec

(* One group's reservations never overlap and see a bounded backlog, even  *)
(* when the rate is raised while a pump sleeps under the lock with the old *)
(* one: _pump and reserve.                                                 *)
THEOREM CapacityIsShared == TcpSpec => []SharedCapacity
<1>1. TcpInv => SharedCapacity
  <2> SUFFICES ASSUME TcpInv, NEW g \in Groups, NEW i \in DOMAIN tslots[g]
               PROVE  /\ i > 1 => tslots[g][i - 1].ready <= tslots[g][i].from
                      /\ tslots[g][i].from - tslots[g][i].at <= MaxQueue
    BY DEF SharedCapacity
  <2>1. tslots[g] \in Seq(TSlot) /\ GroupInOrder(g)
    BY DEF TcpInv, TcpTypeOK, TimeInv
  <2>2. DOMAIN tslots[g] = 1..Len(tslots[g]) /\ Len(tslots[g]) \in Nat
    BY <2>1
  <2>3. ASSUME i > 1 PROVE tslots[g][i - 1].ready <= tslots[g][i].from
    <3>1. i - 1 \in 1..(Len(tslots[g]) - 1) /\ (i - 1) + 1 = i
      BY <2>2, <2>3
    <3>. QED  BY <2>1, <3>1 DEF GroupInOrder
  <2>. QED  BY <2>1, <2>2, <2>3 DEF GroupInOrder, SlotOk
<1>. QED  BY TcpInitInv, TcpStepInv, <1>1, PTL DEF TcpSpec

-----------------------------------------------------------------------------
(* Each reservation group implements OrderedLink: a read enters the line,  *)
(* the reservation leaves it at its head, and a pump that is cancelled     *)
(* before it has reserved is forgotten.                                    *)

ReadItems == Pumps \X Nat

(* The reads that the pumps of a line stand for, when each has made t.     *)
ReadsOf(s, t) == [i \in DOMAIN s |-> <<s[i], t[s[i]]>>]

LEMMA ReadsFacts ==
    ASSUME NEW s \in Seq(Pumps), NEW t \in [Pumps -> Nat]
    PROVE  /\ ReadsOf(s, t) \in Seq(ReadItems) /\ Len(ReadsOf(s, t)) = Len(s)
           /\ \A i \in 1..Len(s) : ReadsOf(s, t)[i] = <<s[i], t[s[i]]>>
<1>1. DOMAIN s = 1..Len(s) /\ Len(s) \in Nat /\ \A i \in 1..Len(s) : s[i] \in Pumps
  OBVIOUS
<1>2. ReadsOf(s, t) = [i \in 1..Len(s) |-> <<s[i], t[s[i]]>>]
  BY <1>1 DEF ReadsOf
<1>3. \A i \in 1..Len(s) : <<s[i], t[s[i]]>> \in ReadItems
  BY <1>1 DEF ReadItems
<1>. QED  BY <1>1, <1>2, <1>3

(* The reads recorded by a sequence of reservations.                       *)
ItemsOf(q) == [i \in DOMAIN q |-> q[i].item]

LEMMA ItemsFacts ==
    ASSUME NEW q \in Seq(TSlot)
    PROVE  /\ ItemsOf(q) \in Seq(ReadItems) /\ Len(ItemsOf(q)) = Len(q)
           /\ \A i \in 1..Len(q) : ItemsOf(q)[i] = q[i].item
<1>1. DOMAIN q = 1..Len(q) /\ Len(q) \in Nat /\ \A i \in 1..Len(q) : q[i] \in TSlot
  OBVIOUS
<1>2. ItemsOf(q) = [i \in 1..Len(q) |-> q[i].item]
  BY <1>1 DEF ItemsOf
<1>3. \A x \in TSlot : x.item \in ReadItems
  BY DEF TSlot, ReadItems
<1>. QED  BY <1>1, <1>2, <1>3

LEMMA ItemsAppend ==
    ASSUME NEW q \in Seq(TSlot), NEW x \in TSlot
    PROVE  ItemsOf(Append(q, x)) = Append(ItemsOf(q), x.item)
<1> DEFINE a == ItemsOf(Append(q, x))
           b == Append(ItemsOf(q), x.item)
<1>1. /\ Append(q, x) \in Seq(TSlot) /\ Len(Append(q, x)) = Len(q) + 1 /\ Len(q) \in Nat
      /\ \A i \in 1..Len(q) : Append(q, x)[i] = q[i]
      /\ Append(q, x)[Len(q) + 1] = x
  OBVIOUS
<1>2. /\ ItemsOf(q) \in Seq(ReadItems) /\ Len(ItemsOf(q)) = Len(q)
      /\ \A i \in 1..Len(q) : ItemsOf(q)[i] = q[i].item
  BY ItemsFacts
<1>3. /\ a \in Seq(ReadItems) /\ Len(a) = Len(q) + 1
      /\ \A i \in 1..(Len(q) + 1) : a[i] = Append(q, x)[i].item
  BY <1>1, ItemsFacts
<1>4. x.item \in ReadItems
  BY DEF TSlot, ReadItems
<1>5. /\ b \in Seq(ReadItems) /\ Len(b) = Len(q) + 1 /\ b[Len(q) + 1] = x.item
      /\ \A i \in 1..Len(q) : b[i] = q[i].item
  BY <1>2, <1>4, AppendFacts
<1>6. \A i \in 1..(Len(q) + 1) : a[i] = b[i]
  BY <1>1, <1>3, <1>5
<1> HIDE DEF a, b
<1>7. a = b
  BY <1>3, <1>5, <1>6, SameSequence
<1>. QED  BY <1>7 DEF a, b

LEMMA UsedFacts ==
    ASSUME NEW g, NEW x
    PROVE  x \in GroupUsed(g) <=> \E p \in Pumps : Group(p) = g /\ \E n \in 1..took[p] : x = <<p, n>>
BY DEF GroupUsed

LEMMA UsedFactsNext ==
    ASSUME NEW g, NEW x
    PROVE  x \in GroupUsed(g)' <=> \E p \in Pumps : Group(p) = g /\ \E n \in 1..took'[p] : x = <<p, n>>
BY DEF GroupUsed

GroupEnter(g, x) ==
    /\ x \in GroupItems(g) /\ x \notin GroupUsed(g)
    /\ GroupUsed(g)' = GroupUsed(g) \cup {x}
    /\ GroupLine(g)' = Append(GroupLine(g), x) /\ GroupGot(g)' = GroupGot(g)
GroupLeave(g) ==
    /\ GroupLine(g) # <<>> /\ GroupLine(g)' = Tail(GroupLine(g))
    /\ GroupUsed(g)' = GroupUsed(g)
    /\ GroupGot(g)' = Append(GroupGot(g), Head(GroupLine(g)))
GroupForget(g) ==
    /\ \E i \in DOMAIN GroupLine(g) : GroupLine(g)' =
          SubSeq(GroupLine(g), 1, i - 1) \o SubSeq(GroupLine(g), i + 1, Len(GroupLine(g)))
    /\ GroupUsed(g)' = GroupUsed(g) /\ GroupGot(g)' = GroupGot(g)
GroupSame(g) == UNCHANGED <<GroupLine(g), GroupUsed(g), GroupGot(g)>>

LEMMA ReadEnters ==
    ASSUME TcpInv, NEW p \in Pumps, Read(p), NEW g \in Groups
    PROVE  GroupSame(g) \/ \E x \in GroupItems(g) : GroupEnter(g, x)
<1>1. /\ lock \in [Groups -> Seq(Pumps)] /\ took \in [Pumps -> Nat] /\ Group(p) \in Groups
      /\ lock' = [lock EXCEPT ![Group(p)] = Append(lock[Group(p)], p)]
      /\ took' = [took EXCEPT ![p] = took[p] + 1]
      /\ tslots' = tslots /\ took[p] < Reads[p] /\ pc[p] = "read"
  BY PumpFacts DEF Read, At, TcpInv, TcpTypeOK
<1>2. \A i \in 1..Len(lock[g]) : lock[g][i] # p
  BY <1>1 DEF TcpInv, LockInv, LineOk, InLine
<1>3. lock[g] \in Seq(Pumps) /\ \A i \in 1..Len(lock[g]) : lock[g][i] \in Pumps
  BY <1>1
<1>4. GroupGot(g)' = GroupGot(g)
  BY <1>1 DEF GroupGot
<1>5. \A q \in Pumps : q # p => took'[q] = took[q]
  BY <1>1
<1>6. CASE g # Group(p)
  <2>1. lock'[g] = lock[g] /\ DOMAIN lock[g] = 1..Len(lock[g])
    BY <1>1, <1>3, <1>6
  <2>2. \A i \in DOMAIN lock[g] : took'[lock[g][i]] = took[lock[g][i]]
    BY <1>2, <1>3, <1>5, <2>1
  <2>3. GroupLine(g)' = GroupLine(g)
    BY <2>1, <2>2 DEF GroupLine
  <2>4. GroupUsed(g)' = GroupUsed(g)
    <3>1. \A q \in Pumps : Group(q) = g => took'[q] = took[q]
      BY <1>5, <1>6
    <3>2. \A x : x \in GroupUsed(g)' <=> x \in GroupUsed(g)
      BY <3>1, UsedFacts, UsedFactsNext
    <3>. QED  BY <3>2
  <2>. QED  BY <1>4, <2>3, <2>4 DEF GroupSame
<1>7. CASE g = Group(p)
  <2> DEFINE x == <<p, took[p] + 1>>
  <2>0. took[p] \in Nat /\ took'[p] = took[p] + 1
    BY <1>1
  <2>1. x \in GroupItems(g)
    <3>0. Reads[p] \in Nat /\ took[p] < Reads[p]
      BY <1>1, TcpAssumption
    <3> HIDE DEF x
    <3>1. took[p] + 1 \in 1..Reads[p]
      BY <2>0, <3>0
    <3>2. x \in {p} \X (1..Reads[p])
      BY <3>1 DEF x
    <3>. QED  BY <1>7, <3>2 DEF GroupItems
  <2>2. x \notin GroupUsed(g)
    <3>1. took[p] + 1 \notin 1..took[p]
      BY <2>0
    <3>. QED  BY <3>1, UsedFacts
  <2>3. GroupUsed(g)' = GroupUsed(g) \cup {x}
    <3>1. \A n : n \in 1..took'[p] <=> n \in 1..took[p] \/ n = took[p] + 1
      BY <2>0
    <3>2. \A y : y \in GroupUsed(g)' <=> y \in GroupUsed(g) \/ y = x
      <4> SUFFICES ASSUME NEW y PROVE y \in GroupUsed(g)' <=> y \in GroupUsed(g) \/ y = x
        OBVIOUS
      <4>1. ASSUME NEW q \in Pumps, Group(q) = g
            PROVE  (\E n \in 1..took'[q] : y = <<q, n>>)
                     <=> (\E n \in 1..took[q] : y = <<q, n>>) \/ (q = p /\ y = x)
        <5>1. CASE q = p
          BY <3>1, <5>1
        <5>2. CASE q # p
          BY <1>5, <5>2
        <5>. QED  BY <5>1, <5>2
      <4> HIDE DEF x
      <4>. QED  BY <1>7, <4>1, UsedFacts, UsedFactsNext
    <3>. QED  BY <3>2
  <2>4. GroupLine(g)' = Append(GroupLine(g), x)
    <3> DEFINE a == ReadsOf(lock'[g], took')
               b == Append(ReadsOf(lock[g], took), x)
    <3>1. /\ lock'[g] = Append(lock[g], p) /\ lock'[g] \in Seq(Pumps)
          /\ Len(lock'[g]) = Len(lock[g]) + 1 /\ Len(lock[g]) \in Nat
          /\ lock'[g][Len(lock[g]) + 1] = p
          /\ \A i \in 1..Len(lock[g]) : lock'[g][i] = lock[g][i]
      BY <1>1, <1>3, <1>7, AppendFacts
    <3>2. took' \in [Pumps -> Nat]
      BY <1>1
    <3>3. /\ a \in Seq(ReadItems) /\ Len(a) = Len(lock[g]) + 1
          /\ \A i \in 1..(Len(lock[g]) + 1) : a[i] = <<lock'[g][i], took'[lock'[g][i]]>>
      BY <3>1, <3>2, ReadsFacts
    <3>4. /\ ReadsOf(lock[g], took) \in Seq(ReadItems) /\ Len(ReadsOf(lock[g], took)) = Len(lock[g])
          /\ \A i \in 1..Len(lock[g]) : ReadsOf(lock[g], took)[i] = <<lock[g][i], took[lock[g][i]]>>
      BY <1>1, <1>3, ReadsFacts
    <3>5. x \in ReadItems
      BY <2>0 DEF ReadItems
    <3>6. /\ b \in Seq(ReadItems) /\ Len(b) = Len(lock[g]) + 1 /\ b[Len(lock[g]) + 1] = x
          /\ \A i \in 1..Len(lock[g]) : b[i] = <<lock[g][i], took[lock[g][i]]>>
      BY <3>4, <3>5, AppendFacts
    <3>7. ASSUME NEW i \in 1..(Len(lock[g]) + 1) PROVE a[i] = b[i]
      <4>1. CASE i = Len(lock[g]) + 1
        BY <2>0, <3>1, <3>3, <3>6, <4>1
      <4>2. CASE i # Len(lock[g]) + 1
        <5>1. i \in 1..Len(lock[g])
          BY <3>1, <4>2
        <5>2. a[i] = <<lock[g][i], took'[lock[g][i]]>>
          BY <3>1, <3>3, <5>1
        <5>3. took'[lock[g][i]] = took[lock[g][i]]
          BY <1>2, <1>3, <1>5, <5>1
        <5>. QED  BY <3>6, <5>1, <5>2, <5>3
      <4>. QED  BY <4>1, <4>2
    <3> HIDE DEF a, b
    <3>8. a = b
      BY <3>3, <3>6, <3>7, SameSequence
    <3>. QED  BY <3>8 DEF a, b, GroupLine, ReadsOf
  <2>. QED  BY <1>4, <2>1, <2>2, <2>3, <2>4 DEF GroupEnter
<1>. QED  BY <1>6, <1>7

LEMMA SlotLeaves ==
    ASSUME TcpInv, NEW p \in Pumps, TakeSlot(p), NEW g \in Groups
    PROVE  GroupSame(g) \/ GroupLeave(g)
<1>1. /\ lock \in [Groups -> Seq(Pumps)] /\ took \in [Pumps -> Nat]
      /\ tslots \in [Groups -> Seq(TSlot)]
      /\ lock' = [lock EXCEPT ![Group(p)] = Tail(lock[Group(p)])] /\ took' = took
      /\ pc[p] = "throttle"
  BY DEF TakeSlot, At, TcpInv, TcpTypeOK
<1> DEFINE slot == [item |-> <<p, took[p]>>, at |-> now, ready |-> ReadyOf(p),
                    from |-> ReadyOf(p) - Service(ChunkSize, work[p].rate)]
<1>2. tslots' = [tslots EXCEPT ![Group(p)] = Append(tslots[Group(p)], slot)]
  BY DEF TakeSlot
<1>3. slot \in TSlot /\ slot.item = <<p, took[p]>>
  BY ReadyType DEF TcpInv, TcpTypeOK, TSlot
<1> HIDE DEF slot
<1>4. GroupUsed(g)' = GroupUsed(g)
  BY <1>1 DEF GroupUsed
<1>5. CASE g # Group(p)
  <2>1. lock'[g] = lock[g] /\ tslots'[g] = tslots[g]
    BY <1>1, <1>2, <1>5
  <2>. QED  BY <1>1, <1>4, <2>1 DEF GroupSame, GroupLine, GroupGot
<1>6. CASE g = Group(p)
  <2>1. lock[g] \in Seq(Pumps) /\ lock[g] # <<>> /\ lock[g][1] = p /\ 1 \in 1..Len(lock[g])
    BY <1>1, <1>6, ThrottleIsHead DEF TcpInv
  <2>2. /\ lock'[g] = Tail(lock[g]) /\ lock'[g] \in Seq(Pumps)
        /\ Len(lock'[g]) = Len(lock[g]) - 1 /\ Len(lock[g]) \in Nat
        /\ \A i \in 1..(Len(lock[g]) - 1) : lock'[g][i] = lock[g][i + 1]
    BY <1>1, <1>6, <2>1, TailFacts
  <2> DEFINE a == ReadsOf(lock'[g], took)
             b == ReadsOf(lock[g], took)
  <2>3. /\ b \in Seq(ReadItems) /\ Len(b) = Len(lock[g])
        /\ \A i \in 1..Len(lock[g]) : b[i] = <<lock[g][i], took[lock[g][i]]>>
    BY <1>1, <2>1, ReadsFacts
  <2>4. /\ a \in Seq(ReadItems) /\ Len(a) = Len(lock[g]) - 1
        /\ \A i \in 1..(Len(lock[g]) - 1) : a[i] = <<lock'[g][i], took[lock'[g][i]]>>
    BY <1>1, <2>2, ReadsFacts
  <2> HIDE DEF a, b
  <2>5. b # <<>>
    BY <2>1, <2>3
  <2>6. /\ Tail(b) \in Seq(ReadItems) /\ Len(Tail(b)) = Len(b) - 1 /\ Head(b) = b[1]
        /\ \A i \in 1..(Len(b) - 1) : Tail(b)[i] = b[i + 1]
    BY <2>3, <2>5, TailFacts
  <2>7. ASSUME NEW i \in 1..(Len(lock[g]) - 1) PROVE a[i] = Tail(b)[i]
    <3>1. i + 1 \in 1..Len(lock[g]) /\ i \in 1..(Len(b) - 1)
      BY <2>2, <2>3
    <3>. QED  BY <2>2, <2>3, <2>4, <2>6, <3>1
  <2>8. Len(a) = Len(Tail(b)) /\ \A i \in 1..Len(a) : a[i] = Tail(b)[i]
    BY <2>3, <2>4, <2>6, <2>7
  <2>9. a = Tail(b)
    BY <2>4, <2>6, <2>8, SameSequence
  <2>10. Head(b) = slot.item
    BY <1>3, <2>1, <2>3, <2>6
  <2>11. GroupLine(g) = b /\ GroupLine(g)' = a
    BY <1>1 DEF GroupLine, ReadsOf, a, b
  <2>12. GroupGot(g)' = Append(GroupGot(g), slot.item)
    <3>1. tslots[g] \in Seq(TSlot) /\ tslots'[g] = Append(tslots[g], slot)
      BY <1>1, <1>2, <1>6
    <3>2. \A s \in TSlot : s.item \in ReadItems
      BY DEF TSlot, ReadItems
    <3>. QED  BY <1>3, <3>1, <3>2, ItemsAppend DEF GroupGot, ItemsOf
  <2>. QED  BY <1>4, <2>5, <2>9, <2>10, <2>11, <2>12 DEF GroupLeave
<1>. QED  BY <1>5, <1>6

LEMMA CancelForgets ==
    ASSUME TcpInv, NEW p \in Pumps, GiveBack(p), UNCHANGED <<took, tslots>>, NEW g \in Groups
    PROVE  GroupSame(g) \/ GroupForget(g)
<1>1. GroupUsed(g)' = GroupUsed(g) /\ GroupGot(g)' = GroupGot(g)
  BY DEF GroupUsed, GroupGot
<1>2. /\ lock \in [Groups -> Seq(Pumps)] /\ took \in [Pumps -> Nat] /\ Group(p) \in Groups
      /\ lock[g] \in Seq(Pumps)
  BY PumpFacts DEF TcpInv, TcpTypeOK
<1>3. CASE lock'[g] = lock[g]
  BY <1>1, <1>3 DEF GroupSame, GroupLine
<1>4. CASE lock'[g] # lock[g]
  <2>1. lock' # lock
    BY <1>4
  <2>2. PICK k \in 1..Len(lock[Group(p)]) :
           LET s == lock[Group(p)] IN
           /\ lock' = [lock EXCEPT ![Group(p)] = lock'[Group(p)]]
           /\ lock'[Group(p)] \in Seq(Pumps) /\ Len(lock'[Group(p)]) = Len(s) - 1
           /\ \A i \in 1..(Len(s) - 1) :
                 lock'[Group(p)][i] = IF i < k THEN s[i] ELSE s[i + 1]
    BY <2>1, GiveBackLine DEF TcpInv
  <2>3. g = Group(p)
    BY <1>2, <1>4, <2>2
  <2>4. /\ k \in 1..Len(lock[g]) /\ lock'[g] \in Seq(Pumps) /\ Len(lock'[g]) = Len(lock[g]) - 1
        /\ Len(lock[g]) \in Nat
        /\ \A i \in 1..(Len(lock[g]) - 1) :
              lock'[g][i] = IF i < k THEN lock[g][i] ELSE lock[g][i + 1]
    BY <1>2, <2>2, <2>3
  <2> DEFINE a == ReadsOf(lock'[g], took)
             b == ReadsOf(lock[g], took)
             c == SubSeq(b, 1, k - 1) \o SubSeq(b, k + 1, Len(b))
  <2>5. /\ b \in Seq(ReadItems) /\ Len(b) = Len(lock[g])
        /\ \A i \in 1..Len(lock[g]) : b[i] = <<lock[g][i], took[lock[g][i]]>>
    BY <1>2, ReadsFacts
  <2>6. /\ a \in Seq(ReadItems) /\ Len(a) = Len(lock[g]) - 1
        /\ \A i \in 1..(Len(lock[g]) - 1) : a[i] = <<lock'[g][i], took[lock'[g][i]]>>
    BY <1>2, <2>4, ReadsFacts
  <2> HIDE DEF a, b
  <2>7. /\ c \in Seq(ReadItems) /\ Len(c) = Len(b) - 1
        /\ \A i \in 1..(Len(b) - 1) : c[i] = IF i < k THEN b[i] ELSE b[i + 1]
    BY <2>4, <2>5, CutPlaces
  <2>8. ASSUME NEW i \in 1..(Len(lock[g]) - 1) PROVE a[i] = c[i]
    <3>1. i \in 1..Len(lock[g]) /\ i + 1 \in 1..Len(lock[g])
      BY <2>4
    <3>2. CASE i < k
      BY <2>4, <2>5, <2>6, <2>7, <3>1, <3>2
    <3>3. CASE ~(i < k)
      BY <2>4, <2>5, <2>6, <2>7, <3>1, <3>3
    <3>. QED  BY <3>2, <3>3
  <2> HIDE DEF c
  <2>9. Len(a) = Len(c) /\ \A i \in 1..Len(a) : a[i] = c[i]
    BY <2>5, <2>6, <2>7, <2>8
  <2>10. a = c
    BY <2>6, <2>7, <2>9, SameSequence
  <2>11. GroupLine(g) = b /\ GroupLine(g)' = a
    BY DEF GroupLine, ReadsOf, a, b
  <2>12. k \in DOMAIN b
    BY <2>4, <2>5
  <2>. QED  BY <1>1, <2>10, <2>11, <2>12 DEF GroupForget, c
<1>. QED  BY <1>3, <1>4

LEMMA GroupStep ==
    ASSUME TcpInv, [TcpNext]_<<clockVars, tcpVars>>, NEW g \in Groups
    PROVE  GroupSame(g) \/ GroupLeave(g) \/ GroupForget(g) \/ \E x \in GroupItems(g) : GroupEnter(g, x)
<1>1. ASSUME UNCHANGED <<lock, took, tslots>> PROVE GroupSame(g)
  BY <1>1 DEF GroupSame, GroupLine, GroupUsed, GroupGot
<1>2. CASE TcpStep
  <2>1. CASE UNCHANGED pc /\ UNCHANGED <<lock, pending, tnext, tslots, took, work>>
    BY <1>1, <2>1
  <2>2. CASE \E c \in Conns : Connected(c)
    BY <1>1, <2>2 DEF Connected
  <2>3. CASE \E p \in Pumps : Eof(p) \/ Capture(p) \/ Write(p) \/ Drained(p)
    BY <1>1, <2>3 DEF Eof, Capture, Write, Drained
  <2>. QED  BY <1>2, <2>1, <2>2, <2>3, PumpMoves, ReadEnters, SlotLeaves, CancelForgets DEF TcpInv
<1>3. CASE ~TcpStep
  BY <1>1, <1>3 DEF TcpNext, tcpVars
<1>. QED  BY <1>2, <1>3

(* The mapping of TcpIsOrderedLink, for any group.                         *)
GroupLink(g) == INSTANCE OrderedLink WITH Items <- GroupItems(g),
    line <- GroupLine(g), used <- GroupUsed(g), got <- GroupGot(g)

(* The reservations of a group are taken in the order of the reads, each   *)
(* once, across connections and cancellations: _pump and _connection.      *)
THEOREM TcpLinks == ASSUME NEW g \in Groups PROVE TcpSpec => GroupLink(g)!LinkSpec
<1>1. ClockInit /\ TcpInit => GroupLink(g)!LinkInit
  <2> SUFFICES ASSUME TcpInit PROVE GroupLink(g)!LinkInit
    OBVIOUS
  <2>1. lock[g] = <<>> /\ tslots[g] = <<>> /\ \A p \in Pumps : took[p] = 0
    BY DEF TcpInit
  <2>2. GroupLine(g) = <<>> /\ GroupGot(g) = <<>>
    BY <2>1 DEF GroupLine, GroupGot
  <2>3. GroupUsed(g) = {}
    BY <2>1 DEF GroupUsed
  <2>. QED  BY <2>2, <2>3 DEF GroupLink!LinkInit
<1>2. TcpInv /\ [TcpNext]_<<clockVars, tcpVars>> => [GroupLink(g)!LinkNext]_(GroupLink(g)!link)
  <2> SUFFICES ASSUME TcpInv, [TcpNext]_<<clockVars, tcpVars>>
               PROVE  [GroupLink(g)!LinkNext]_(GroupLink(g)!link)
    OBVIOUS
  <2>1. GroupSame(g) \/ GroupLeave(g) \/ GroupForget(g) \/ \E x \in GroupItems(g) : GroupEnter(g, x)
    BY GroupStep
  <2>. QED  BY <2>1 DEF GroupLink!LinkNext, GroupLink!link, GroupLink!Leave, GroupLink!Forget,
              GroupLink!Enter, GroupSame, GroupLeave, GroupForget, GroupEnter
<1>. QED  BY TcpInitInv, TcpStepInv, <1>1, <1>2, PTL DEF TcpSpec, GroupLink!LinkSpec

(* In particular those of the group that TcpIsOrderedLink names, the       *)
(* outward one of the aggregate scope: _pump and _connection.              *)
THEOREM TcpLink == <<0, 0>> \in Groups => (TcpSpec => TcpIsOrderedLink)
<1>1. <<0, 0>> \in Groups => (TcpSpec => GroupLink(<<0, 0>>)!LinkSpec)
  BY TcpLinks
<1>. QED  BY <1>1, PTL DEF TcpIsOrderedLink,
            Outward!LinkSpec, Outward!LinkInit, Outward!LinkNext, Outward!link,
            Outward!Leave, Outward!Forget, Outward!Enter,
            GroupLink!LinkSpec, GroupLink!LinkInit, GroupLink!LinkNext, GroupLink!link,
            GroupLink!Leave, GroupLink!Forget, GroupLink!Enter

-----------------------------------------------------------------------------

Request == {Start, Stop, Snapshot} \cup {Rate(r) : r \in Settings}
Answer == [to : Nat, ok : BOOLEAN]

ControlTypeOK ==
    /\ parent \in {"idle", "waiting", "broken", "reaping", "closing", "terminating",
                   "killing", "joining", "closed", "failed"}
    /\ asked \in Seq(Request) /\ asked # <<>>
    /\ served \in Nat /\ served <= Len(asked)
    /\ answers \in Seq(Answer)
    /\ set_rate \in Nat
    /\ process \in {"alive", "leaving", "failing", "killed", "exited", "dead"}

Good(i) == i \in 1..Len(answers) /\ answers[i].ok

(* No answer of an earlier request is a success while a request other than *)
(* a stop waits, and there is at most one that is.                         *)
InStep ==
    /\ parent = "idle" => served = Len(asked) /\ \A i \in 1..Len(answers) : ~Good(i)
    /\ parent = "waiting" /\ Latest # Stop =>
         /\ served \in {Len(asked) - 1, Len(asked)}
         /\ \A i \in 1..Len(answers) : Good(i) => served = Len(asked)
         /\ \A i, j \in 1..Len(answers) : Good(i) /\ Good(j) => i = j

ControlInv == ControlTypeOK /\ InStep /\ RateWasApplied

-----------------------------------------------------------------------------

LEMMA RequestsDiffer ==
    ASSUME NEW r \in Settings
    PROVE  Rate(r) # Start /\ Rate(r) # Stop /\ Rate(r) # Snapshot /\ Snapshot # Stop
           /\ Start # Stop /\ Rate(r).op = "rate" /\ Rate(r).value = r
           /\ Start.op # "rate" /\ Stop.op # "rate" /\ Snapshot.op # "rate"
BY DEF Rate, Start, Stop, Snapshot

LEMMA ControlInitInv == ControlInit => ControlInv
BY DEF ControlInit, ControlInv, ControlTypeOK, InStep, RateWasApplied, Request, Good, Latest, Start, Stop

(* A request is written: the queue is unchanged, and it was empty of       *)
(* successes if the stand was idle.                                        *)
LEMMA AskInv ==
    ASSUME ControlInv, NEW op \in Request, op # Start, Ask(op)
    PROVE  ControlInv'
<1> USE DEF ControlInv
<1>0. asked' = Append(asked, op) /\ served' = served /\ set_rate' = set_rate
  BY DEF Ask
<1>1. asked' \in Seq(Request) /\ Len(asked') = Len(asked) + 1 /\ asked' # <<>>
      /\ asked'[Len(asked')] = op
      /\ \A i \in 1..Len(asked) : asked'[i] = asked[i]
  BY <1>0 DEF ControlTypeOK
<1>2. ControlTypeOK'
  BY <1>1 DEF Ask, ControlTypeOK
<1>3. InStep'
  <2>1. parent' # "idle"
    BY DEF Ask
  <2>2. ASSUME parent' = "waiting", Latest' # Stop
        PROVE  /\ served' = Len(asked') - 1
               /\ \A i \in 1..Len(answers') : ~Good(i)'
    <3>1. parent = "idle"
      BY <1>1, <2>2 DEF Ask, Asks, Latest
    <3>. QED  BY <1>1, <3>1 DEF Ask, InStep, Good
  <2>. QED  BY <2>1, <2>2, <1>2 DEF InStep, ControlTypeOK
<1>4. RateWasApplied'
  BY <1>0, <1>1 DEF RateWasApplied, ControlTypeOK
<1>. QED  BY <1>2, <1>3, <1>4

(* A success that is taken while a rate waits is the answer to that rate.  *)
LEMMA AcceptInv ==
    ASSUME ControlInv, Accept
    PROVE  ControlInv'
<1> USE DEF ControlInv
<1>0. /\ Head(answers) = answers[1] /\ Head(answers) \in Answer
      /\ answers' = Tail(answers) /\ answers' \in Seq(Answer)
      /\ Len(answers') = Len(answers) - 1 /\ Len(answers) >= 1
      /\ \A i \in 1..Len(answers') : answers'[i] = answers[i + 1]
      /\ asked' = asked /\ served' = served /\ process' = process
  BY DEF Accept, ControlTypeOK
<1>1. Latest \in Request
  BY DEF Latest, ControlTypeOK
<1>2. ASSUME Head(answers).ok, Latest.op = "rate"
      PROVE  /\ Latest = Rate(Latest.value) /\ Latest.value \in Settings
             /\ served = Len(asked)
  <2>1. PICK r \in Settings : Latest = Rate(r)
    BY <1>1, <1>2, RequestsDiffer DEF Request, Start, Stop, Snapshot
  <2>2. Latest # Stop /\ Latest.value = r
    BY <2>1, RequestsDiffer
  <2>3. Good(1)
    BY <1>0, <1>2 DEF Good
  <2>. QED  BY <1>0, <2>1, <2>2, <2>3 DEF Accept, InStep
<1>3. ControlTypeOK'
  BY <1>0, <1>2, ControlAssumption DEF Accept, ControlTypeOK
<1>4. InStep'
  <2>1. ASSUME parent' = "idle"
        PROVE  served' = Len(asked') /\ \A i \in 1..Len(answers') : ~Good(i)'
    <3>1. Head(answers).ok /\ Latest # Stop /\ parent = "waiting"
      BY <2>1 DEF Accept
    <3>2. Good(1) /\ 1 \in 1..Len(answers)
      BY <1>0, <3>1 DEF Good
    <3>3. served = Len(asked)
      BY <3>1, <3>2 DEF InStep
    <3>4. ASSUME NEW i \in 1..Len(answers'), Good(i)'
          PROVE  FALSE
      <4>1. Good(i + 1) /\ i + 1 \in 1..Len(answers)
        BY <1>0, <3>4 DEF Good, ControlTypeOK
      <4>. QED  BY <3>1, <3>2, <4>1 DEF InStep
    <3>. QED  BY <1>0, <3>3, <3>4
  <2>2. parent' # "waiting"
    BY DEF Accept
  <2>. QED  BY <2>1, <2>2 DEF InStep
<1>5. RateWasApplied'
  <2>1. CASE Head(answers).ok /\ Latest.op = "rate"
    BY <1>0, <1>2, <2>1 DEF Accept, RateWasApplied, Latest, ControlTypeOK
  <2>2. CASE ~(Head(answers).ok /\ Latest.op = "rate")
    BY <1>0, <2>2 DEF Accept, RateWasApplied
  <2>. QED  BY <2>1, <2>2
<1>. QED  BY <1>3, <1>4, <1>5

(* An answer joins the queue: a success only as that of the next request.  *)
LEMMA ReplyInv ==
    ASSUME ControlInv, NEW ok \in BOOLEAN, NEW to \in Nat,
           answers' = Append(answers, [to |-> to, ok |-> ok]),
           served' \in {served, served + 1}, ok => served' = served + 1,
           served' <= Len(asked), set_rate' = set_rate,
           process' \in {"alive", "leaving", "failing", "killed", "exited", "dead"},
           UNCHANGED <<parent, asked>>
    PROVE  ControlInv'
<1> USE DEF ControlInv
<1>1. /\ answers' \in Seq(Answer) /\ Len(answers') = Len(answers) + 1
      /\ \A i \in 1..Len(answers) : answers'[i] = answers[i]
      /\ answers'[Len(answers')] = [to |-> to, ok |-> ok]
  BY DEF ControlTypeOK, Answer
<1>2. ControlTypeOK'
  BY <1>1 DEF ControlTypeOK
<1>3. RateWasApplied'
  BY <1>1 DEF RateWasApplied, ControlTypeOK
<1>4. \A i \in 1..Len(answers') : Good(i)' => IF i = Len(answers') THEN ok ELSE i \in 1..Len(answers) /\ Good(i)
  BY <1>1 DEF Good, ControlTypeOK
<1>5. InStep'
  <2>1. ASSUME parent = "idle" PROVE ~ok /\ served' = served
    BY <2>1 DEF InStep, ControlTypeOK
  <2>2. ASSUME parent = "waiting", Latest # Stop
        PROVE  /\ served' \in {Len(asked) - 1, Len(asked)}
               /\ \A i \in 1..Len(answers') : Good(i)' => served' = Len(asked)
               /\ \A i, j \in 1..Len(answers') : Good(i)' /\ Good(j)' => i = j
    <3>1. CASE ok
      <4>1. served = Len(asked) - 1 /\ served' = Len(asked)
        BY <2>2, <3>1 DEF InStep, ControlTypeOK
      <4>2. \A i \in 1..Len(answers) : ~Good(i)
        BY <2>2, <4>1 DEF InStep, ControlTypeOK
      <4>. QED  BY <1>4, <4>1, <4>2
    <3>2. CASE ~ok
      BY <1>4, <2>2, <3>2 DEF InStep, ControlTypeOK
    <3>. QED  BY <3>1, <3>2
  <2>. QED  BY <1>1, <1>4, <2>1, <2>2 DEF InStep, Latest
<1>. QED  BY <1>2, <1>3, <1>5

LEMMA ControlStepInv == ControlInv /\ [ControlNext]_controlVars => ControlInv'
<1> SUFFICES ASSUME ControlInv, [ControlNext]_controlVars PROVE ControlInv'
  OBVIOUS
<1>1. CASE \E op \in Request : op # Start /\ Ask(op)
  BY <1>1, AskInv
<1>2. CASE Accept
  BY <1>2, AcceptInv
<1>3. CASE Deadline \/ Exits \/ Dies \/ UNCHANGED controlVars
  BY <1>3 DEF ControlInv, ControlTypeOK, InStep, RateWasApplied, Good, Latest, Deadline, Exits, Dies,
              controlVars
<1>8. CASE Closing
  BY <1>8 DEF ControlInv, ControlTypeOK, InStep, RateWasApplied, Good, Latest, Closing, Collect,
              GiveUp, Terminate, Kill, WaitReturns, KillWaitFails, JoinReader, Moves
<1>4. CASE Serve
  <2>1. served + 1 <= Len(asked) /\ served + 1 \in Nat
    BY <1>4 DEF Serve, ControlInv, ControlTypeOK
  <2>. QED  BY <1>4, <2>1, ReplyInv DEF Serve, Reply, ControlInv, ControlTypeOK
<1>5. CASE ServeFails
  <2>1. served + 1 <= Len(asked) /\ served + 1 \in Nat
    BY <1>5 DEF ServeFails, ControlInv, ControlTypeOK
  <2>. QED  BY <1>5, <2>1, ReplyInv DEF ServeFails, Reply, ControlInv, ControlTypeOK
<1>6. CASE ReadEof
  BY <1>6, ReplyInv DEF ReadEof, ControlInv, ControlTypeOK
<1>7. Ask(Snapshot) \/ Ask(Stop) \/ (\E r \in Settings : Ask(Rate(r)))
      => \E op \in Request : op # Start /\ Ask(op)
  BY RequestsDiffer DEF Request, Start, Stop, Snapshot
<1>. QED  BY <1>1, <1>2, <1>3, <1>4, <1>5, <1>6, <1>7, <1>8 DEF ControlNext, Parent, Worker

(* The rate the stand records is one the worker has applied: _request and  *)
(* rate_bps of process_tcp_shaper.py.                                      *)
THEOREM RateIsApplied == ControlSpec => []RateWasApplied
<1>1. ControlInv => RateWasApplied
  BY DEF ControlInv
<1>. QED  BY ControlInitInv, ControlStepInv, <1>1, PTL DEF ControlSpec

(* What holds at each step of the closing: a worker is signalled before    *)
(* the parent waits for it, it is gone before the reader is joined, and    *)
(* the end of the pipe is read after the worker has gone.                  *)
ClosingInv ==
    /\ parent \in {"idle", "waiting", "broken", "reaping", "closing", "terminating",
                   "killing", "joining", "closed", "failed"}
    /\ parent = "killing" => process = "killed" \/ Gone
    /\ parent \in {"joining", "closed"} => Gone
    /\ parent = "closed" => eof_read
    /\ parent = "failed" => process = "killed" \/ Gone
    /\ cached # 0 => process = "exited"

(* However the closing went, no worker goes on shaping, and statistics are *)
(* those of a worker that exited with code 0: stop and _close_process of   *)
(* process_tcp_shaper.py.                                                  *)
THEOREM WorkerIsReaped == ControlSpec => []NoOrphanWorker
<1>1. ControlInit => ClosingInv
  BY DEF ControlInit, ClosingInv
<1>2. ClosingInv /\ [ControlNext]_controlVars => ClosingInv'
  <2> SUFFICES ASSUME ClosingInv, [ControlNext]_controlVars PROVE ClosingInv'
    OBVIOUS
  <2> USE DEF ClosingInv
  <2>1. ASSUME NEW op, Ask(op) PROVE ClosingInv'
    BY <2>1 DEF Ask, Asks, Gone
  <2>2. CASE Accept \/ Deadline
    BY <2>2 DEF Accept, Deadline, Gone
  <2>3. CASE Collect \/ GiveUp \/ Terminate
    BY <2>3 DEF Collect, GiveUp, Terminate, Moves, Gone
  <2>4. CASE Kill
    <3>1. cached = 0
      BY <2>4 DEF Kill, Gone
    <3>. QED  BY <2>4, <3>1 DEF Kill, Moves, Gone
  <2>5. CASE WaitReturns \/ KillWaitFails \/ JoinReader
    BY <2>5 DEF WaitReturns, KillWaitFails, JoinReader, Moves, Gone
  <2>6. CASE Serve \/ ServeFails
    BY <2>6 DEF Serve, ServeFails, Gone
  <2>7. CASE Exits \/ Dies \/ ReadEof
    BY <2>7 DEF Exits, Dies, ReadEof, Gone
  <2>8. CASE UNCHANGED controlVars
    BY <2>8 DEF controlVars, Gone
  <2>. QED  BY <2>1, <2>2, <2>3, <2>4, <2>5, <2>6, <2>7, <2>8 DEF ControlNext, Parent, Closing, Worker
<1>3. ClosingInv => NoOrphanWorker
  BY DEF ClosingInv, NoOrphanWorker, Gone
<1>. QED  BY <1>1, <1>2, <1>3, PTL DEF ControlSpec

-----------------------------------------------------------------------------
(* The stand that picks one of them.                                       *)

(* A run of the stand is a run of each shaper, in which the ones it did    *)
(* not pick never move: what is proved of a shaper holds in the stand.     *)
THEOREM EachShaper == Spec => UdpSpec /\ TcpSpec /\ ControlSpec
<1>1. Init => ClockInit /\ UdpInit /\ TcpInit /\ ControlInit
  BY DEF Init
<1>2. ASSUME [Next]_linkVars
      PROVE  /\ [UdpNext]_<<clockVars, udpVars>>
             /\ [TcpNext]_<<clockVars, tcpVars>>
             /\ [ControlNext]_controlVars
  <2>1. CASE Timing
    <3>1. (Tick \/ \E r \in Rates : SetRate(r)) /\ UNCHANGED <<udpVars, tcpVars, controlVars>>
      BY <2>1 DEF Timing
    <3>. QED  BY ONLY <3>1 DEF UdpNext, TcpNext
  <2>2. CASE UdpStep /\ UNCHANGED <<clockVars, tcpVars, controlVars>>
    BY ONLY <2>2 DEF UdpNext
  <2>3. CASE TcpStep /\ UNCHANGED <<clockVars, udpVars, controlVars>>
    BY ONLY <2>3 DEF TcpNext
  <2>4. CASE ControlNext /\ UNCHANGED <<clockVars, udpVars, tcpVars>>
    BY ONLY <2>4
  <2>5. CASE UNCHANGED linkVars
    <3>1. UNCHANGED <<clockVars, udpVars, tcpVars, controlVars>>
      BY <2>5 DEF linkVars
    <3>. QED  BY ONLY <3>1
  <2>. QED  BY <1>2, <2>1, <2>2, <2>3, <2>4, <2>5 DEF Next
<1>. QED  BY <1>1, <1>2, PTL DEF Spec, UdpSpec, TcpSpec, ControlSpec
=============================================================================
